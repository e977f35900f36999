------------------------ MODULE BoardGestureProofs ------------------------
(***************************************************************************)
(* Proofs about BoardGesture, for every first board and any number of      *)
(* refusals and of commands of other users: what a split accepted at the   *)
(* first attempt moves and that a card is shown once, for any number of    *)
(* pointers, and that nothing stays lifted, for one.                       *)
(***************************************************************************)
EXTENDS BoardGesture, TLAPS

\* BoardStacksProofs about the server's commands.
P == INSTANCE BoardStacksProofs WITH
  Cmds <- {"stack.merge", "stack.split", "loot.collect_stack"}, SpawnDefs <- {}, DrawDefs <- {},
  RowMods <- {}, ProgressionDecks <- <<>>, MaxLeft <- 1, MaxDraws <- 0, MaxZombies <- 0, MaxCards <- 8

---------------------------------------------------------------------------
(* The two instances of BoardStacks, the one the gestures send their commands *)
(* to and the one the proofs are about, define the same operators.            *)

LEMMA SameKinds ==
  /\ Server!Kind = P!Kind
  /\ \A b, c : Server!KindOf(b, c) = P!KindOf(b, c)
  /\ \A b, s : Server!CardsOf(b, s) = P!CardsOf(b, s)
  /\ \A cs : Server!Range(cs) = P!Range(cs)
<1>1. Server!Kind = P!Kind
  BY DEF Server!Kind, Server!TaskDefs, Server!ModDefs, Server!LootDefs, Server!PackDefs, Server!DeckDefs, Server!Defs,
         P!Kind, P!TaskDefs, P!ModDefs, P!LootDefs, P!PackDefs, P!DeckDefs, P!Defs
<1>2. \A cs : Server!Range(cs) = P!Range(cs)
  BY DEF Server!Range, P!Range
<1> QED BY <1>1, <1>2 DEF Server!KindOf, P!KindOf, Server!CardsOf, P!CardsOf

LEMMA SameKeep ==
  ASSUME NEW cs, NEW I
  PROVE  Server!Keep(cs, I) = P!Keep(cs, I)
BY DEF Server!Keep, P!Keep, Server!Cardinality, P!Cardinality

LEMMA SameFirst ==
  ASSUME NEW b, NEW s, NEW k
  PROVE  Server!First(b, s, k) = P!First(b, s, k)
<1> DEFINE cs == b.stacks[s].cards
           A == {i \in DOMAIN cs : Server!KindOf(b, cs[i]) = k}
           B == {i \in DOMAIN cs : P!KindOf(b, cs[i]) = k}
<1>1. A = B
  BY SameKinds
<1>2. Server!First(b, s, k) = cs[CHOOSE i \in A : \A j \in A : i <= j]
  BY DEF Server!First
<1>3. P!First(b, s, k) = cs[CHOOSE i \in B : \A j \in B : i <= j]
  BY DEF P!First
<1> HIDE DEF A, B, cs
<1> QED BY <1>1, <1>2, <1>3

LEMMA SameFace ==
  ASSUME NEW b, NEW cs
  PROVE  Server!PriorityFace(b, cs) = P!PriorityFace(b, cs)
<1> DEFINE A(p) == {i \in DOMAIN cs : Server!KindOf(b, cs[i]) = Server!FaceKinds[p]}
           B(p) == {i \in DOMAIN cs : P!KindOf(b, cs[i]) = P!FaceKinds[p]}
           some == {p \in 1..3 : A(p) # {}}
           any  == {p \in 1..3 : B(p) # {}}
           f == CHOOSE x \in some : \A y \in some : x <= y
           g == CHOOSE x \in any : \A y \in any : x <= y
           i == CHOOSE x \in A(f) : \A y \in A(f) : y <= x
           j == CHOOSE x \in B(g) : \A y \in B(g) : y <= x
<1>1. \A p : A(p) = B(p)
  BY SameKinds DEF Server!FaceKinds, P!FaceKinds
<1>2. Server!PriorityFace(b, cs) =
        IF some = {} THEN cs ELSE Server!Keep(cs, DOMAIN cs \ {i}) \o <<cs[i]>>
  BY DEF Server!PriorityFace
<1>3. P!PriorityFace(b, cs) = IF any = {} THEN cs ELSE P!Keep(cs, DOMAIN cs \ {j}) \o <<cs[j]>>
  BY DEF P!PriorityFace
<1> HIDE DEF A, B
<1>4. some = any
  BY <1>1
<1> HIDE DEF some, any
<1>5. f = g
  BY <1>4
<1> HIDE DEF f, g
<1>6. i = j
  BY <1>1, <1>5
<1> QED BY <1>2, <1>3, <1>4, <1>6, SameKeep

LEMMA SameLead ==
  ASSUME NEW b, NEW cs
  PROVE  Server!VillagerLeads(b, cs) = P!VillagerLeads(b, cs)
<1> DEFINE A(k) == {i \in DOMAIN cs : Server!KindOf(b, cs[i]) = k}
           B(k) == {i \in DOMAIN cs : P!KindOf(b, cs[i]) = k}
           f == CHOOSE x \in A("resource") : \A y \in A("resource") : y <= x
           g == CHOOSE x \in B("resource") : \A y \in B("resource") : y <= x
<1>1. \A k : A(k) = B(k)
  BY SameKinds
<1>2. Server!VillagerLeads(b, cs) =
        IF A("villager") = {} \/ A("resource") = {} THEN cs
        ELSE Server!Keep(cs, A("villager")) \o Server!Keep(cs, DOMAIN cs \ (A("villager") \cup {f})) \o <<cs[f]>>
  BY DEF Server!VillagerLeads
<1>3. P!VillagerLeads(b, cs) =
        IF B("villager") = {} \/ B("resource") = {} THEN cs
        ELSE P!Keep(cs, B("villager")) \o P!Keep(cs, DOMAIN cs \ (B("villager") \cup {g})) \o <<cs[g]>>
  BY DEF P!VillagerLeads
<1> HIDE DEF A, B
<1>4. f = g
  BY <1>1
<1> QED BY <1>1, <1>2, <1>3, <1>4, SameKeep

LEMMA SameStackOperators ==
  /\ \A b, s : Server!FacePriority(b, s) = P!FacePriority(b, s)
  /\ \A b, s : Server!LeadVillager(b, s) = P!LeadVillager(b, s)
  /\ \A b, t, s : Server!MergeStacks(b, t, s) = P!MergeStacks(b, t, s)
  /\ \A b, css : Server!CreateStacks(b, css) = P!CreateStacks(b, css)
  /\ \A b, gone : Server!Detach(b, gone) = P!Detach(b, gone)
  /\ \A b, gone : Server!Remove(b, gone) = P!Remove(b, gone)
  /\ \A b, s : Server!BringToFront(b, s) = P!BringToFront(b, s)
  /\ \A b, c : Server!UseUp(b, c) = P!UseUp(b, c)
<1>0. \A b, s, cs, z : Server!SetStack(b, s, cs, z) = P!SetStack(b, s, cs, z)
  BY DEF Server!SetStack, P!SetStack
<1>1. \A b, s : Server!FacePriority(b, s) = P!FacePriority(b, s)
  BY <1>0, SameFace DEF Server!FacePriority, P!FacePriority
<1>2. \A b, s : Server!LeadVillager(b, s) = P!LeadVillager(b, s)
  BY <1>0, SameLead DEF Server!LeadVillager, P!LeadVillager
<1>3. \A b, t, s : Server!MergeStacks(b, t, s) = P!MergeStacks(b, t, s)
  BY DEF Server!MergeStacks, P!MergeStacks
<1>4. \A b, css : Server!CreateStacks(b, css) = P!CreateStacks(b, css)
  BY DEF Server!CreateStacks, P!CreateStacks
<1>5. \A b, gone : Server!Detach(b, gone) = P!Detach(b, gone)
  BY DEF Server!Detach, P!Detach, Server!Keep, P!Keep, Server!Cardinality, P!Cardinality
<1>6. \A b, gone : Server!Remove(b, gone) = P!Remove(b, gone)
  BY <1>5 DEF Server!Remove, P!Remove
<1>7. \A b, s : Server!BringToFront(b, s) = P!BringToFront(b, s)
  BY DEF Server!BringToFront, P!BringToFront, Server!SetStack, P!SetStack
<1>8. \A b, c : Server!UseUp(b, c) = P!UseUp(b, c)
  BY <1>6 DEF Server!UseUp, P!UseUp, Server!SetCard, P!SetCard
<1> QED BY <1>1, <1>2, <1>3, <1>4, <1>5, <1>6, <1>7, <1>8

LEMMA SameSplit ==
  ASSUME NEW s, NEW i, Server!StackSplit(s, i)
  PROVE  P!StackSplit(s, i)
<1> DEFINE cs == board.stacks[s].cards
           kept == IF i = 0 THEN 2..Len(cs) ELSE 1..i
           I == DOMAIN cs \ kept
           a == Server!PriorityFace(board, Server!Keep(cs, I))
           b == P!PriorityFace(board, P!Keep(cs, I))
<1>1. a = b
  BY SameKeep, SameFace
<1>2. /\ i \in 0..(Len(cs) - 1) /\ Server!Room(1, 0)
      /\ board' = Server!FacePriority(Server!CreateStacks(Server!Detach(board, Server!Range(a)), <<a>>), s)
  BY DEF Server!StackSplit
<1>3. P!Room(1, 0)
  BY <1>2 DEF Server!Room, P!Room
<1> HIDE DEF a
<1>4. board' = P!FacePriority(P!CreateStacks(P!Detach(board, P!Range(b)), <<b>>), s)
  BY <1>1, <1>2, SameKinds, SameStackOperators
<1> QED BY <1>2, <1>3, <1>4 DEF P!StackSplit

LEMMA SameRaise ==
  ASSUME NEW s, Server!StackBringToFront(s)
  PROVE  P!StackBringToFront(s)
BY SameStackOperators DEF Server!StackBringToFront, P!StackBringToFront, Server!Room, P!Room

LEMMA SameCollect ==
  ASSUME NEW s, Server!LootCollectStack(s)
  PROVE  P!LootCollectStack(s)
BY SameKinds, SameStackOperators DEF Server!LootCollectStack, P!LootCollectStack, Server!Collectible, P!Collectible

LEMMA SameTests ==
  /\ \A b, s, k : Server!Has(b, s, k) <=> P!Has(b, s, k)
  /\ \A b, s, d : Server!HasDef(b, s, d) <=> P!HasDef(b, s, d)
  /\ \A b, s, k : Server!Pure(b, s, k) <=> P!Pure(b, s, k)
  /\ \A b, t, s, k : Server!Either(b, t, s, k) <=> P!Either(b, t, s, k)
  /\ \A b, s : Server!HasUnlinkedBlank(b, s) <=> P!HasUnlinkedBlank(b, s)
  /\ \A b, s : Server!Top(b, s) = P!Top(b, s)
<1>1. \A b, s, k : Server!Has(b, s, k) <=> P!Has(b, s, k)
  BY SameKinds DEF Server!Has, P!Has
<1>2. \A b, s, d : Server!HasDef(b, s, d) <=> P!HasDef(b, s, d)
  BY SameKinds DEF Server!HasDef, P!HasDef
<1>3. \A b, s, k : Server!Pure(b, s, k) <=> P!Pure(b, s, k)
  BY SameKinds DEF Server!Pure, P!Pure
<1>4. \A b, s : Server!HasUnlinkedBlank(b, s) <=> P!HasUnlinkedBlank(b, s)
  BY SameKinds DEF Server!HasUnlinkedBlank, P!HasUnlinkedBlank
<1>5. \A b, s : Server!Top(b, s) = P!Top(b, s)
  BY DEF Server!Top, P!Top
<1> QED BY <1>1, <1>2, <1>3, <1>4, <1>5 DEF Server!Either, P!Either

LEMMA SameValidator ==
  ASSUME NEW b, NEW t, NEW s, Server!ValidStackMerge(b, t, s)
  PROVE  P!ValidStackMerge(b, t, s)
<1>1. Server!CrowdsResource(b, t, s) <=> P!CrowdsResource(b, t, s)
  <2> DEFINE vs == {c \in Server!CardsOf(b, t) \cup Server!CardsOf(b, s) : Server!KindOf(b, c) = "villager"}
             ws == {c \in P!CardsOf(b, t) \cup P!CardsOf(b, s) : P!KindOf(b, c) = "villager"}
  <2>1. vs = ws
    BY SameKinds
  <2>2. Server!Cardinality(vs) = P!Cardinality(vs)
    BY DEF Server!Cardinality, P!Cardinality
  <2>3. Server!CrowdsResource(b, t, s) <=> Server!Either(b, t, s, "resource") /\ Server!Cardinality(vs) > 1
    BY DEF Server!CrowdsResource
  <2>4. P!CrowdsResource(b, t, s) <=> P!Either(b, t, s, "resource") /\ P!Cardinality(ws) > 1
    BY DEF P!CrowdsResource
  <2> HIDE DEF vs, ws
  <2> QED BY <2>1, <2>2, <2>3, <2>4, SameTests
<1>2. Server!SameModifier(b, t, s) <=> P!SameModifier(b, t, s)
  BY SameKinds, SameTests DEF Server!SameModifier, P!SameModifier
<1>3. /\ Server!DisallowedPairs = P!DisallowedPairs
      /\ \A pair : Server!PairMatches(b, t, s, pair) <=> P!PairMatches(b, t, s, pair)
  BY SameTests DEF Server!DisallowedPairs, P!DisallowedPairs, Server!PairMatches, P!PairMatches
<1> QED BY <1>1, <1>2, <1>3, SameTests DEF Server!ValidStackMerge, P!ValidStackMerge

LEMMA SameWork ==
  ASSUME NEW t, NEW s
  PROVE  /\ Server!TaskAssignVillager(t, s) => P!TaskAssignVillager(t, s)
         /\ Server!ZombieClear(t, s) => P!ZombieClear(t, s)
         /\ Server!FoodConsume(t, s) => P!FoodConsume(t, s)
         /\ Server!MergePlainly(t, s) => P!MergePlainly(t, s)
<1>0. \A x, y : Server!Room(x, y) <=> P!Room(x, y)
  BY DEF Server!Room, P!Room
<1>1. Server!TaskAssignVillager(t, s) => P!TaskAssignVillager(t, s)
  BY <1>0, SameTests, SameStackOperators DEF Server!TaskAssignVillager, P!TaskAssignVillager
<1>2. Server!ZombieClear(t, s) => P!ZombieClear(t, s)
  <2> DEFINE z == {c \in Server!CardsOf(board, t) : Server!KindOf(board, c) = "zombie"}
             y == {c \in P!CardsOf(board, t) : P!KindOf(board, c) = "zombie"}
  <2>1. z = y
    BY SameKinds
  <2>2. Server!ZombieClear(t, s) => /\ Server!Has(board, t, "zombie") /\ Server!Has(board, s, "villager")
                                    /\ board' = Server!FacePriority(Server!Remove(board, z), t)
    BY DEF Server!ZombieClear
  <2>3. P!ZombieClear(t, s) <=> /\ P!Has(board, t, "zombie") /\ P!Has(board, s, "villager")
                                /\ board' = P!FacePriority(P!Remove(board, y), t)
    BY DEF P!ZombieClear
  <2> HIDE DEF z, y
  <2> QED BY <2>1, <2>2, <2>3, SameTests, SameStackOperators
<1>3. Server!FoodConsume(t, s) => P!FoodConsume(t, s)
  BY SameTests, SameStackOperators, SameFirst DEF Server!FoodConsume, P!FoodConsume
<1>4. Server!MergePlainly(t, s) => P!MergePlainly(t, s)
  BY <1>0, SameValidator, SameStackOperators DEF Server!MergePlainly, P!MergePlainly
<1> QED BY <1>1, <1>2, <1>3, <1>4

LEMMA SameMerge ==
  ASSUME NEW t, NEW s, Server!StackMerge(t, s)
  PROVE  P!StackMerge(t, s)
<1>1. \A x, y : Server!OntoCollectDeck(x, y) <=> P!OntoCollectDeck(x, y)
  BY SameTests DEF Server!OntoCollectDeck, P!OntoCollectDeck
<1>2. \A x, y : Server!AsAssignment(x, y) <=> P!AsAssignment(x, y)
  BY SameTests DEF Server!AsAssignment, P!AsAssignment
<1>3. \A x, y : Server!AsClearing(x, y) <=> P!AsClearing(x, y)
  BY SameTests DEF Server!AsClearing, P!AsClearing
<1>4. \A x, y : Server!AsMeal(x, y) <=> P!AsMeal(x, y)
  BY SameTests DEF Server!AsMeal, P!AsMeal
<1>5. Server!Assigns(t, s) <=> P!Assigns(t, s)
  BY <1>2 DEF Server!Assigns, P!Assigns
<1>6. Server!Clears(t, s) <=> P!Clears(t, s)
  BY <1>3 DEF Server!Clears, P!Clears
<1>7. Server!Feeds(t, s) <=> P!Feeds(t, s)
  BY <1>4 DEF Server!Feeds, P!Feeds
<1>8. Server!Either(board, t, s, "deck") <=> P!Either(board, t, s, "deck")
  BY SameTests
<1>10. /\ Server!OntoCollectDeck(t, s) <=> P!OntoCollectDeck(t, s)
       /\ Server!OntoCollectDeck(s, t) <=> P!OntoCollectDeck(s, t)
       /\ Server!AsAssignment(t, s) <=> P!AsAssignment(t, s)
       /\ Server!AsAssignment(s, t) <=> P!AsAssignment(s, t)
       /\ Server!AsClearing(t, s) <=> P!AsClearing(t, s)
       /\ Server!AsClearing(s, t) <=> P!AsClearing(s, t)
       /\ Server!AsMeal(t, s) <=> P!AsMeal(t, s)
       /\ Server!AsMeal(s, t) <=> P!AsMeal(s, t)
  BY <1>1, <1>2, <1>3, <1>4
<1>11. Server!LootCollectStack(s) => P!LootCollectStack(s)
  BY SameCollect
<1>12. Server!LootCollectStack(t) => P!LootCollectStack(t)
  BY SameCollect
<1>13. /\ Server!TaskAssignVillager(t, s) => P!TaskAssignVillager(t, s)
       /\ Server!TaskAssignVillager(s, t) => P!TaskAssignVillager(s, t)
       /\ Server!ZombieClear(t, s) => P!ZombieClear(t, s)
       /\ Server!ZombieClear(s, t) => P!ZombieClear(s, t)
       /\ Server!FoodConsume(t, s) => P!FoodConsume(t, s)
       /\ Server!FoodConsume(s, t) => P!FoodConsume(s, t)
       /\ Server!MergePlainly(t, s) => P!MergePlainly(t, s)
  BY SameWork
<1> QED BY <1>5, <1>6, <1>7, <1>8, <1>10, <1>11, <1>12, <1>13 DEF Server!StackMerge, P!StackMerge

\* What BoardStacks assumes of its constants holds of the ones given here.
LEMMA ServerBounds == P!BoundsAssumption
<1>1. <<>> \in Seq(P!DeckDefs)
  OBVIOUS
<1> QED BY <1>1, GestureAssumption DEF P!BoundsAssumption

LEMMA SameSound ==
  ASSUME NEW b, Server!WellFormed(b), Server!Ordered(b), Server!Placed(b)
  PROVE  P!Sound(b, {})
<1>1. Server!Card = P!Card
  BY DEF Server!Card, P!Card, Server!TaskDefs, Server!ModDefs, Server!LootDefs, Server!PackDefs, Server!DeckDefs, Server!Defs,
         P!TaskDefs, P!ModDefs, P!LootDefs, P!PackDefs, P!DeckDefs, P!Defs
<1>2. P!WellFormed(b) /\ P!Ordered(b)
  BY <1>1 DEF Server!WellFormed, P!WellFormed, Server!Ordered, P!Ordered
<1>3. P!Placed(b)
  BY SameKinds DEF Server!Placed, P!Placed, Server!IsInjective, P!IsInjective
<1> QED BY <1>2, <1>3, P!SoundIsPlaced, ServerBounds

---------------------------------------------------------------------------
(* Documents and what the server's commands do to its own. *)

IsDoc(d) ==
  /\ DOMAIN d = {"cards", "stacks", "nextZ", "nextCard"}
  /\ d.nextZ \in Nat /\ DOMAIN d.stacks \subseteq Nat
  /\ \A s \in DOMAIN d.stacks : "cards" \in DOMAIN d.stacks[s] /\ d.stacks[s].cards \in Seq(Nat)

\* Two documents have the same stacks, but for those of X.
SameBut(d, e, X) ==
  /\ DOMAIN d.stacks \ X = DOMAIN e.stacks \ X
  /\ \A s \in DOMAIN e.stacks \ X : d.stacks[s].cards = e.stacks[s].cards
SameCards(d, e) == SameBut(d, e, {})

LEMMA SoundIsDoc ==
  ASSUME NEW b, P!Sound(b, {})
  PROVE  /\ IsDoc(b)
         /\ \A s \in DOMAIN b.stacks : b.stacks[s].cards # <<>>
<1>1. /\ P!WellFormed(b) /\ \A s \in DOMAIN b.stacks : b.stacks[s].cards # <<>>
  BY DEF P!Sound, P!PlacedBut
<1>2. /\ DOMAIN b = {"cards", "stacks", "nextZ", "nextCard"}
      /\ b.nextZ \in Nat /\ DOMAIN b.stacks \subseteq Nat /\ DOMAIN b.cards \subseteq Nat
  BY <1>1 DEF P!WellFormed
<1>3. ASSUME NEW s \in DOMAIN b.stacks
      PROVE  "cards" \in DOMAIN b.stacks[s] /\ b.stacks[s].cards \in Seq(Nat)
  <2>1. /\ b.stacks[s].cards \in Seq(DOMAIN b.cards)
        /\ b.stacks[s] = [cards |-> b.stacks[s].cards, z |-> b.stacks[s].z]
    BY <1>1, P!CardsInTable, ServerBounds
  <2> QED BY <1>2, <2>1
<1> QED BY <1>1, <1>2, <1>3 DEF IsDoc

\* The server's split at an index and the client's take the same cards.
LEMMA PulledIsDragged ==
  ASSUME NEW S, NEW cs \in Seq(S), NEW i \in 0..(Len(cs) - 1)
  PROVE  P!Pulled(cs, i) = IDs(splitCardIDs(cs, i).dragged)
<1>1. Len(cs) \in Nat /\ DOMAIN cs = 1..Len(cs) /\ Clamp(cs, i) = i
  BY DEF Clamp
<1>2. CASE i = 0
  <2>1. splitCardIDs(cs, i).dragged = <<cs[1]>>
    BY <1>1, <1>2 DEF splitCardIDs
  <2>2. IDs(<<cs[1]>>) = {cs[1]}
    BY DEF IDs
  <2>3. DOMAIN cs \ (2..Len(cs)) = {1}
    BY <1>1, <1>2
  <2>4. P!Pulled(cs, i) = {cs[j] : j \in DOMAIN cs \ (2..Len(cs))}
    BY <1>2 DEF P!Pulled
  <2> QED BY <2>1, <2>2, <2>3, <2>4
<1>3. CASE i # 0
  <2> DEFINE dragged == SubSeq(cs, i + 1, Len(cs))
  <2>1. splitCardIDs(cs, i).dragged = dragged
    BY <1>1, <1>3 DEF splitCardIDs, CutAt
  <2>2. P!Pulled(cs, i) = {cs[j] : j \in DOMAIN cs \ (1..i)}
    BY <1>3 DEF P!Pulled
  <2>3. DOMAIN cs \ (1..i) = (i + 1)..Len(cs)
    BY <1>1
  <2>4. /\ DOMAIN dragged = 1..(Len(cs) - i)
        /\ \A j \in 1..(Len(cs) - i) : dragged[j] = cs[j + i]
    BY <1>1, <1>3
  <2>5. IDs(dragged) = {cs[j] : j \in (i + 1)..Len(cs)}
    <3>1. ASSUME NEW j \in DOMAIN dragged
          PROVE  \E k \in (i + 1)..Len(cs) : dragged[j] = cs[k]
      <4>1. j + i \in (i + 1)..Len(cs)
        BY <1>1, <2>4
      <4> QED BY <2>4, <4>1
    <3>2. ASSUME NEW k \in (i + 1)..Len(cs)
          PROVE  \E j \in DOMAIN dragged : dragged[j] = cs[k]
      <4>1. k - i \in DOMAIN dragged /\ (k - i) + i = k
        BY <1>1, <2>4
      <4> QED BY <2>4, <4>1
    <3> HIDE DEF dragged
    <3> QED BY <3>1, <3>2 DEF IDs
  <2> QED BY <2>1, <2>2, <2>3, <2>5
<1> QED BY <1>2, <1>3

\* No command of a gesture makes a card or counts beyond the bound.
Spent ==
  /\ DOMAIN board'.cards \subseteq DOMAIN board.cards
  /\ board'.nextZ = board.nextZ \/ board'.nextZ <= MaxZ

LEMMA ServedSplit ==
  ASSUME P!Sound(board, {}), NEW s \in DOMAIN board.stacks, NEW i, Server!StackSplit(s, i)
  PROVE  LET new == board.nextZ + 1
         IN  /\ P!Sound(board', {}) /\ board'.nextZ = new /\ Spent
             /\ DOMAIN board'.stacks \ DOMAIN board.stacks = {new}
             /\ SameBut(board, board', {s, new})
             /\ IDs(board'.stacks[new].cards) = IDs(splitCardIDs(board.stacks[s].cards, i).dragged)
             /\ \A x \in {s, new} \cap DOMAIN board'.stacks :
                  IDs(board'.stacks[x].cards) \subseteq IDs(board.stacks[s].cards)
<1> DEFINE new == board.nextZ + 1
<1>1. P!StackSplit(s, i) /\ s \in P!Stacks
  BY SameSplit DEF P!Stacks
<1>2. P!Sound(board', {})
  BY <1>1, P!SplitSound, ServerBounds
<1>3. /\ i \in 0..(Len(board.stacks[s].cards) - 1)
      /\ board'.nextZ = new /\ new \notin P!Stacks
      /\ DOMAIN board'.stacks \subseteq P!Stacks \cup {new}
      /\ (P!Stacks \ {s}) \cup {new} \subseteq DOMAIN board'.stacks
      /\ \A t \in P!Stacks \ {s} : board'.stacks[t].cards = board.stacks[t].cards
      /\ P!Range(board'.stacks[new].cards) = P!Pulled(board.stacks[s].cards, i)
      /\ board'.cards = board.cards /\ P!Room(1, 0)
  BY <1>1, P!SplitMoves, ServerBounds
<1>4. DOMAIN board'.stacks \ DOMAIN board.stacks = {new}
  BY <1>3 DEF P!Stacks
<1>5. SameBut(board, board', {s, new})
  BY <1>3 DEF P!Stacks, SameBut
<1>6. board.stacks[s].cards \in Seq(Nat)
  BY SoundIsDoc DEF IsDoc
<1>7. P!Pulled(board.stacks[s].cards, i) = IDs(splitCardIDs(board.stacks[s].cards, i).dragged)
  BY <1>3, <1>6, PulledIsDragged
<1>8. IDs(board'.stacks[new].cards) = P!Range(board'.stacks[new].cards)
  BY DEF IDs, P!Range
<1>9. P!Pulled(board.stacks[s].cards, i) \subseteq IDs(board.stacks[s].cards)
  BY DEF P!Pulled, IDs
<1>10. ASSUME s \in DOMAIN board'.stacks
       PROVE  IDs(board'.stacks[s].cards) \subseteq IDs(board.stacks[s].cards)
  <2> SUFFICES ASSUME NEW c \in P!CardsOf(board', s) PROVE c \in P!CardsOf(board, s)
    BY DEF P!CardsOf, P!Range, IDs
  <2>1. c \in DOMAIN board.cards
    BY <1>2, <1>3, <1>10, P!CardsInTable, ServerBounds DEF P!Sound
  <2>2. PICK t \in DOMAIN board.stacks : c \in P!CardsOf(board, t)
    BY <2>1 DEF P!Sound, P!PlacedBut
  <2>3. CASE t = s
    BY <2>2, <2>3
  <2>4. CASE t # s
    <3>1. t \in DOMAIN board'.stacks /\ c \in P!CardsOf(board', t)
      BY <1>3, <2>2, <2>4 DEF P!Stacks, P!CardsOf
    <3> QED BY <1>2, <1>10, <2>4, <3>1 DEF P!Sound, P!PlacedBut
  <2> QED BY <2>3, <2>4
<1>11. \A x \in {s, new} \cap DOMAIN board'.stacks :
         IDs(board'.stacks[x].cards) \subseteq IDs(board.stacks[s].cards)
  BY <1>3, <1>8, <1>9, <1>10
<1>12. Spent
  BY <1>3 DEF Spent, P!Room
<1> QED BY <1>2, <1>3, <1>4, <1>5, <1>7, <1>8, <1>11, <1>12

LEMMA ServedMerge ==
  ASSUME P!Sound(board, {}), NEW t \in DOMAIN board.stacks, NEW s \in DOMAIN board.stacks, Server!StackMerge(t, s)
  PROVE  P!Sound(board', {}) /\ board'.nextZ \in {board.nextZ, board.nextZ + 1} /\ Spent
<1>1. P!StackMerge(t, s) /\ t \in P!Stacks /\ s \in P!Stacks
  BY SameMerge DEF P!Stacks
<1>2. P!Sound(board', {})
  BY <1>1, P!MergeCommandSound, ServerBounds
<1>3. /\ board'.nextZ = board.nextZ \/ (board'.nextZ = board.nextZ + 1 /\ P!Room(1, 0))
      /\ DOMAIN board'.cards \subseteq DOMAIN board.cards
  BY <1>1, P!MergeCounts, ServerBounds
<1> QED BY <1>2, <1>3 DEF Spent, P!Room

LEMMA ServedCollect ==
  ASSUME P!Sound(board, {}), NEW s \in DOMAIN board.stacks, Server!LootCollectStack(s)
  PROVE  P!Sound(board', {}) /\ board'.nextZ = board.nextZ /\ Spent
<1>1. P!LootCollectStack(s) /\ s \in P!Stacks
  BY SameCollect DEF P!Stacks
<1>2. P!Sound(board', {})
  BY <1>1, P!CollectSound, ServerBounds
<1>3. board'.nextZ = board.nextZ /\ DOMAIN board'.cards \subseteq DOMAIN board.cards
  BY <1>1, P!CollectCounts, ServerBounds
<1> QED BY <1>2, <1>3 DEF Spent

LEMMA ServedRaise ==
  ASSUME P!Sound(board, {}), NEW s \in DOMAIN board.stacks, Server!StackBringToFront(s)
  PROVE  P!Sound(board', {}) /\ board'.nextZ = board.nextZ + 1 /\ SameCards(board, board') /\ Spent
<1>1. P!StackBringToFront(s) /\ s \in P!Stacks
  BY SameRaise DEF P!Stacks
<1>2. /\ P!Sound(board', {}) /\ board'.nextZ = board.nextZ + 1 /\ DOMAIN board'.stacks = P!Stacks
      /\ \A t \in P!Stacks : board'.stacks[t].cards = board.stacks[t].cards
      /\ board'.cards = board.cards /\ P!Room(1, 0)
  BY <1>1, P!RaiseMoves, ServerBounds
<1> QED BY <1>2 DEF P!Stacks, SameCards, SameBut, Spent, P!Room

---------------------------------------------------------------------------
(* The invariant.  A document is in step when it shows the server's stacks,  *)
(* or an older count that the server's version check will notice.            *)

Known(d) == IsDoc(d) /\ d.nextZ <= board.nextZ
InStep(d) == d.nextZ = board.nextZ => SameCards(d, board)

Docs == P!Sound(board, {}) /\ Known(shown) /\ (poll # None => Known(poll))

CallFields == {"cmd", "at", "stack", "target", "index", "cards", "lifts", "ver", "retried", "astray", "doc", "new"}

Calls ==
  busy => /\ DOMAIN call = CallFields /\ drag = None
          /\ call.cmd \in {"split", "merge", "collect", "move"}
          /\ call.at \in {"sent", "ok", "conflict", "refused", "refreshing", "reloading"}
          /\ call.at = "refreshing" => call.cmd \in {"merge", "collect"}
          /\ call.ver \in Nat /\ call.ver <= board.nextZ
          /\ call.at \in {"ok", "refreshing", "reloading"} => Known(call.doc)
          /\ call.at = "ok" /\ call.cmd = "split" => call.new \in DOMAIN call.doc.stacks

\* The document shown is in step, unless it has gone astray or holds a merge under way.
ShownInStep == astray = {} /\ (busy => call.cmd \notin {"merge", "collect"}) => InStep(shown)

\* So is a document loaded for a command, and the one a split answered with.
LoadedInStep ==
  /\ busy /\ call.at \in {"refreshing", "reloading"} /\ call.astray = {} => InStep(call.doc)
  /\ busy /\ call.at = "ok" /\ call.cmd = "split" /\ "quiet" \notin call.astray => InStep(call.doc)

\* What is shown will be in step when the answer is patched in.
PatchInStep ==
  /\ busy /\ call.at = "ok" /\ call.cmd = "split" /\ astray = {} /\ "quiet" \notin call.astray
       => (call.doc.nextZ = board.nextZ => SameBut(shown, board, {call.stack, call.new}))
  /\ busy /\ call.at = "ok" /\ call.cmd = "move" /\ astray = {}
       => (call.doc.nextZ = board.nextZ => SameCards(shown, board))

\* A command the version check will let pass was made on the server's stacks,
\* and a split of them names the cards the server will take.
SentInStep ==
  busy /\ call.at = "sent" /\ call.ver = board.nextZ
    => /\ call.cmd \in {"split", "move"} /\ astray = {} => SameCards(shown, board)
       /\ call.cmd = "split" /\ ~call.retried /\ call.astray = {} /\ call.stack \in DOMAIN board.stacks
            => IDs(splitCardIDs(board.stacks[call.stack].cards, call.index).dragged) = call.cards

Steps == ShownInStep /\ LoadedInStep /\ PatchInStep /\ SentInStep /\ SplitTakesWhatWasDragged
Inv == Docs /\ Calls /\ Steps

LEMMA CallIsBusy ==
  ASSUME NEW c, DOMAIN c = CallFields
  PROVE  c # NoCall
<1>1. DOMAIN NoCall = {"cmd"}
  BY DEF NoCall
<1>2. "at" \in CallFields
  BY DEF CallFields
<1> QED BY <1>1, <1>2

LEMMA PlacedDoc ==
  ASSUME NEW d, IsDoc(d), NEW s \in Nat, NEW stack, "cards" \in DOMAIN stack, stack.cards \in Seq(Nat)
  PROVE  LET e == Placed(d, s, stack)
         IN  /\ IsDoc(e) /\ e.nextZ = d.nextZ /\ DOMAIN e.stacks = DOMAIN d.stacks \cup {s}
             /\ e.stacks[s] = stack /\ \A x \in DOMAIN d.stacks \ {s} : e.stacks[x] = d.stacks[x]
BY DEF IsDoc, Placed

LEMMA RemovedDoc ==
  ASSUME NEW d, IsDoc(d), NEW s
  PROVE  LET e == Removed(d, s)
         IN  /\ IsDoc(e) /\ e.nextZ = d.nextZ /\ DOMAIN e.stacks = DOMAIN d.stacks \ {s}
             /\ \A x \in DOMAIN d.stacks \ {s} : e.stacks[x] = d.stacks[x]
BY DEF IsDoc, Removed

LEMMA MovedDoc ==
  ASSUME NEW d, IsDoc(d), NEW s, NEW t
  PROVE  IsDoc(Moved(d, s, t)) /\ Moved(d, s, t).nextZ = d.nextZ
<1>1. CASE ~({s, t} \subseteq DOMAIN d.stacks)
  BY <1>1 DEF Moved
<1>2. CASE {s, t} \subseteq DOMAIN d.stacks
  <2> DEFINE stack == [d.stacks[t] EXCEPT !.cards = @ \o d.stacks[s].cards]
             e == Placed(d, t, stack)
  <2>1. /\ s \in DOMAIN d.stacks /\ t \in DOMAIN d.stacks /\ t \in Nat
        /\ "cards" \in DOMAIN d.stacks[t] /\ d.stacks[t].cards \in Seq(Nat) /\ d.stacks[s].cards \in Seq(Nat)
    BY <1>2 DEF IsDoc
  <2>2. d.stacks[t].cards \o d.stacks[s].cards \in Seq(Nat)
    BY <2>1
  <2>3. "cards" \in DOMAIN stack /\ stack.cards \in Seq(Nat)
    BY <2>1, <2>2
  <2>4. Moved(d, s, t) = Removed(e, s)
    BY <1>2 DEF Moved
  <2> HIDE DEF stack
  <2>5. IsDoc(e) /\ e.nextZ = d.nextZ
    <3>1. t \in Nat /\ IsDoc(d) /\ "cards" \in DOMAIN stack /\ stack.cards \in Seq(Nat)
      BY <2>1, <2>3
    <3> QED BY ONLY <3>1, PlacedDoc
  <2> HIDE DEF e
  <2> QED BY <2>4, <2>5, RemovedDoc
<1> QED BY <1>1, <1>2

LEMMA CountedDoc ==
  ASSUME NEW d, IsDoc(d), NEW z \in Nat
  PROVE  LET e == [d EXCEPT !.nextZ = z]
         IN  IsDoc(e) /\ e.nextZ = z /\ e.stacks = d.stacks
BY DEF IsDoc

\* The document d with the two halves of a split in the document e patched in.
Patched(d, e, s, n) ==
  LET kept == IF s \in DOMAIN e.stacks THEN Placed(d, s, e.stacks[s]) ELSE Removed(d, s)
  IN  [Placed(kept, n, e.stacks[n]) EXCEPT !.nextZ = e.nextZ]

LEMMA PatchedDoc ==
  ASSUME NEW d, IsDoc(d), NEW e, IsDoc(e), NEW s, NEW n \in DOMAIN e.stacks
  PROVE  LET p == Patched(d, e, s, n)
         IN  /\ IsDoc(p) /\ p.nextZ = e.nextZ
             /\ DOMAIN p.stacks \ {s, n} = DOMAIN d.stacks \ {s, n}
             /\ DOMAIN p.stacks \cap {s, n} = DOMAIN e.stacks \cap {s, n}
             /\ \A x \in DOMAIN d.stacks \ {s, n} : p.stacks[x] = d.stacks[x]
             /\ \A x \in DOMAIN e.stacks \cap {s, n} : p.stacks[x] = e.stacks[x]
<1> DEFINE kept == IF s \in DOMAIN e.stacks THEN Placed(d, s, e.stacks[s]) ELSE Removed(d, s)
           placed == Placed(kept, n, e.stacks[n])
           p == [placed EXCEPT !.nextZ = e.nextZ]
<1>1. Patched(d, e, s, n) = p
  BY DEF Patched
<1>2. n \in Nat /\ "cards" \in DOMAIN e.stacks[n] /\ e.stacks[n].cards \in Seq(Nat) /\ e.nextZ \in Nat
  BY DEF IsDoc
<1>3. /\ IsDoc(kept) /\ \A x \in DOMAIN d.stacks \ {s} : kept.stacks[x] = d.stacks[x]
      /\ s \in DOMAIN e.stacks => kept.stacks[s] = e.stacks[s]
      /\ DOMAIN kept.stacks \ {s} = DOMAIN d.stacks \ {s}
      /\ s \in DOMAIN kept.stacks <=> s \in DOMAIN e.stacks
  <2>1. CASE s \in DOMAIN e.stacks
    <3>1. s \in Nat /\ "cards" \in DOMAIN e.stacks[s] /\ e.stacks[s].cards \in Seq(Nat)
      BY <2>1 DEF IsDoc
    <3>2. kept = Placed(d, s, e.stacks[s])
      BY <2>1
    <3> HIDE DEF kept
    <3> QED BY <2>1, <3>1, <3>2, PlacedDoc
  <2>2. CASE s \notin DOMAIN e.stacks
    <3>1. kept = Removed(d, s)
      BY <2>2
    <3> HIDE DEF kept
    <3> QED BY <2>2, <3>1, RemovedDoc
  <2> QED BY <2>1, <2>2
<1> HIDE DEF kept
<1>4. /\ IsDoc(placed) /\ DOMAIN placed.stacks = DOMAIN kept.stacks \cup {n}
      /\ placed.stacks[n] = e.stacks[n] /\ \A x \in DOMAIN kept.stacks \ {n} : placed.stacks[x] = kept.stacks[x]
  <2> DEFINE stack == e.stacks[n]
  <2>1. IsDoc(kept) /\ n \in Nat /\ "cards" \in DOMAIN stack /\ stack.cards \in Seq(Nat)
    BY <1>2, <1>3
  <2>2. placed = Placed(kept, n, stack)
    OBVIOUS
  <2> HIDE DEF stack, placed
  <2>3. /\ IsDoc(placed) /\ DOMAIN placed.stacks = DOMAIN kept.stacks \cup {n}
        /\ placed.stacks[n] = stack /\ \A x \in DOMAIN kept.stacks \ {n} : placed.stacks[x] = kept.stacks[x]
    <3>1. IsDoc(placed)
      BY ONLY <2>1, <2>2, PlacedDoc
    <3>2. /\ DOMAIN placed.stacks = DOMAIN kept.stacks \cup {n}
          /\ placed.stacks[n] = stack /\ \A x \in DOMAIN kept.stacks \ {n} : placed.stacks[x] = kept.stacks[x]
      BY ONLY <2>1, <2>2 DEF Placed, IsDoc
    <3> QED BY <3>1, <3>2
  <2> QED BY <2>3 DEF stack
<1> HIDE DEF placed
<1>5. IsDoc(p) /\ p.nextZ = e.nextZ /\ p.stacks = placed.stacks
  BY <1>2, <1>4, CountedDoc
<1> HIDE DEF p
<1>6. DOMAIN p.stacks \ {s, n} = DOMAIN d.stacks \ {s, n}
  BY <1>3, <1>4, <1>5
<1>7. DOMAIN p.stacks \cap {s, n} = DOMAIN e.stacks \cap {s, n}
  BY <1>3, <1>4, <1>5
<1>8. \A x \in DOMAIN d.stacks \ {s, n} : p.stacks[x] = d.stacks[x]
  BY <1>3, <1>4, <1>5
<1>9. \A x \in DOMAIN e.stacks \cap {s, n} : p.stacks[x] = e.stacks[x]
  BY <1>3, <1>4, <1>5
<1> QED BY <1>1, <1>5, <1>6, <1>7, <1>8, <1>9

LEMMA InvHolds == Init => Inv
<1> SUFFICES ASSUME Init PROVE Inv
  OBVIOUS
<1>1. P!Sound(board, {})
  BY SameSound, GestureAssumption DEF Init
<1>2. IsDoc(board) /\ shown = board /\ poll = None /\ ~busy
  BY <1>1, SoundIsDoc DEF Init, busy
<1>3. SameCards(board, board)
  BY DEF SameCards, SameBut
<1> QED BY <1>1, <1>2, <1>3 DEF Inv, Docs, Calls, Steps, Known, InStep, ShownInStep, LoadedInStep, PatchInStep, SentInStep,
                               SplitTakesWhatWasDragged, IsDoc

LEMMA Untouched ==
  ASSUME Inv, UNCHANGED <<board, shown, call, poll, astray>>, busy => drag' = drag
  PROVE  Inv'
<1>1. Docs'
  BY DEF Inv, Docs, Known
<1>2. Calls'
  BY DEF Inv, Calls, Known, busy
<1>3. Steps'
  BY DEF Inv, Steps, InStep, ShownInStep, LoadedInStep, PatchInStep, SentInStep, SplitTakesWhatWasDragged, busy
<1> QED BY <1>1, <1>2, <1>3 DEF Inv

\* A gesture sends a command: nothing but the client has moved.
LEMMA CommandSent ==
  ASSUME Inv, ~busy, UNCHANGED <<board, poll, astray>>, drag' = None,
         NEW cmd \in {"split", "merge", "collect", "move"}, NEW s, NEW t, NEW i, NEW cards, NEW lifts,
         call' = Command(cmd, s, t, i, cards, lifts, shown),
         Known(shown'), cmd \in {"split", "move"} => shown' = shown,
         cmd = "split" /\ SameCards(shown, board) /\ s \in DOMAIN board.stacks
           => IDs(splitCardIDs(board.stacks[s].cards, i).dragged) = cards
  PROVE  Inv'
<1>1. /\ DOMAIN call' = CallFields
      /\ call'.cmd = cmd /\ call'.at = "sent" /\ call'.stack = s /\ call'.index = i /\ call'.cards = cards
      /\ call'.ver = shown.nextZ /\ call'.retried = FALSE /\ call'.astray = astray
  <2> DEFINE c == Command(cmd, s, t, i, cards, lifts, shown)
  <2>1. /\ DOMAIN c = CallFields
        /\ c.cmd = cmd /\ c.at = "sent" /\ c.stack = s /\ c.index = i /\ c.cards = cards
        /\ c.ver = shown.nextZ /\ c.retried = FALSE /\ c.astray = astray
    BY ONLY TRUE DEF Command, CallFields
  <2>2. call' = c
    OBVIOUS
  <2> HIDE DEF c
  <2> QED BY <2>1, <2>2
<1>2. busy'
  BY <1>1, CallIsBusy DEF busy
<1>3. Known(shown) /\ shown.nextZ \in Nat
  BY DEF Inv, Docs, Known, IsDoc
<1>4. Docs'
  BY DEF Inv, Docs, Known
<1>5. Calls'
  BY <1>1, <1>3 DEF Calls, Known
<1>6. astray = {} /\ shown.nextZ = board.nextZ => SameCards(shown, board)
  BY DEF Inv, Steps, ShownInStep, InStep
<1>7. ShownInStep'
  BY <1>1, <1>2, <1>6 DEF ShownInStep, InStep
<1>8. LoadedInStep' /\ PatchInStep' /\ SplitTakesWhatWasDragged'
  BY <1>1 DEF LoadedInStep, PatchInStep, SplitTakesWhatWasDragged
<1>9. SentInStep'
  BY <1>1, <1>6 DEF SentInStep
<1> QED BY <1>4, <1>5, <1>7, <1>8, <1>9 DEF Inv, Steps

LEMMA ReleasedWhileIdle ==
  ASSUME Inv, NEW p \in Pointers, Released(p)
  PROVE  ~busy /\ drag' = None /\ UNCHANGED <<board, poll, astray>>
<1>1. drag # None
  BY GestureAssumption DEF Released, Dragging, Holder
<1> QED BY <1>1 DEF Released, others, Inv, Calls

LEMMA DropSplitHolds ==
  ASSUME Inv, NEW p \in Pointers, DropSplit(p)
  PROVE  Inv'
<1> DEFINE s == drag.stack
           i == drag.index
           t == IF hint = s THEN None ELSE hint
           cards == IF Source = <<>> THEN {} ELSE IDs(splitCardIDs(Source, i).dragged)
<1>1. ~busy /\ drag' = None /\ UNCHANGED <<board, poll, astray>>
  BY ReleasedWhileIdle DEF DropSplit
<1>2. UNCHANGED shown /\ call' = Command("split", s, t, i, cards, s, shown)
  BY DEF DropSplit
<1>3. Known(shown) /\ Known(shown')
  BY <1>1, <1>2 DEF Inv, Docs, Known
<1>4. ASSUME SameCards(shown, board), s \in DOMAIN board.stacks
      PROVE  IDs(splitCardIDs(board.stacks[s].cards, i).dragged) = cards
  <2>1. board.stacks[s].cards # <<>>
    BY <1>4, SoundIsDoc DEF Inv, Docs
  <2>2. Source = board.stacks[s].cards
    BY <1>4 DEF SameCards, SameBut, Source, Cards
  <2> QED BY <2>1, <2>2
<1> HIDE DEF s, i, t, cards
<1> QED BY <1>1, <1>2, <1>3, <1>4, CommandSent

LEMMA DropOnStackHolds ==
  ASSUME Inv, NEW p \in Pointers, DropOnStack(p)
  PROVE  Inv'
<1>1. ~busy /\ drag' = None /\ UNCHANGED <<board, poll, astray>>
  BY ReleasedWhileIdle DEF DropOnStack
<1>2. Known(shown)
  BY DEF Inv, Docs
<1>3. CASE isCollectDeck(hint)
  <2>1. /\ shown' = Removed(shown, drag.stack)
        /\ call' = Command("collect", drag.stack, None, 0, IDs(Source), None, shown)
    BY <1>3 DEF DropOnStack
  <2>2. Known(shown')
    BY <1>2, <2>1, RemovedDoc DEF Known
  <2> QED BY <1>1, <2>1, <2>2, CommandSent
<1>4. CASE ~isCollectDeck(hint)
  <2>1. /\ shown' = Moved(shown, drag.stack, hint)
        /\ call' = Command("merge", drag.stack, hint, 0, IDs(Source), None, shown)
    BY <1>4 DEF DropOnStack
  <2>2. Known(shown')
    BY <1>2, <2>1, MovedDoc DEF Known
  <2> QED BY <1>1, <2>1, <2>2, CommandSent
<1> QED BY <1>3, <1>4

LEMMA DropOnBoardHolds ==
  ASSUME Inv, NEW p \in Pointers, DropOnBoard(p)
  PROVE  Inv'
<1>1. ~busy /\ drag' = None /\ UNCHANGED <<board, poll, astray>>
  BY ReleasedWhileIdle DEF DropOnBoard
<1>2. UNCHANGED shown
  BY DEF DropOnBoard
<1>3. CASE moved
  <2>1. call' = Command("move", drag.stack, None, 0, {}, drag.stack, shown)
    BY <1>3 DEF DropOnBoard
  <2>2. Known(shown')
    BY <1>2 DEF Inv, Docs, Known
  <2> QED BY <1>1, <1>2, <2>1, <2>2, CommandSent
<1>4. CASE ~moved
  BY <1>1, <1>2, <1>4, Untouched DEF DropOnBoard
<1> QED BY <1>3, <1>4

LEMMA PointersHold ==
  ASSUME Inv, NEW p \in Pointers,
         \/ \E s \in DOMAIN shown.stacks, i \in 1..8 : onStackPointerDown(p, s, i)
         \/ onBoardPointerDown(p) \/ onPointerMove(p) \/ onPointerUp(p) \/ EndPan(p) \/ onPointerCancel(p)
  PROVE  Inv'
<1>1. CASE \E s \in DOMAIN shown.stacks, i \in 1..8 : onStackPointerDown(p, s, i)
  <2>1. ~busy /\ UNCHANGED <<board, shown, call, poll, astray>>
    BY <1>1 DEF onStackPointerDown, others
  <2> QED BY <2>1, Untouched
<1>2. CASE onBoardPointerDown(p)
  BY <1>2, Untouched DEF onBoardPointerDown, others
<1>3. CASE onPointerMove(p)
  BY <1>3, Untouched DEF onPointerMove, others
<1>4. CASE EndPan(p)
  BY <1>4, Untouched DEF EndPan, others
<1>5. CASE onPointerCancel(p)
  <2>1. drag # None
    BY <1>5, GestureAssumption DEF onPointerCancel, Holder
  <2>2. ~busy
    BY <2>1 DEF Inv, Calls
  <2> QED BY <1>5, <2>2, Untouched DEF onPointerCancel, others
<1>6. CASE onPointerUp(p)
  <2>1. CASE ClickInside(p)
    <3>1. ~busy /\ UNCHANGED <<board, poll, astray>>
      BY <2>1, ReleasedWhileIdle DEF ClickInside
    <3> QED BY <2>1, <3>1, Untouched DEF ClickInside
  <2> QED BY <1>6, <2>1, DropSplitHolds, DropOnStackHolds, DropOnBoardHolds DEF onPointerUp
<1> QED BY <1>1, <1>2, <1>3, <1>4, <1>5, <1>6

\* A command the server refuses.
LEMMA RefusedHolds ==
  ASSUME Inv, busy, UNCHANGED <<board, shown, poll, astray, drag>>,
         NEW at \in {"conflict", "refused"}, call' = [call EXCEPT !.at = at]
  PROVE  Inv'
<1>1. /\ DOMAIN call = CallFields /\ drag = None
      /\ call.cmd \in {"split", "merge", "collect", "move"} /\ call.ver \in Nat /\ call.ver <= board.nextZ
  BY DEF Inv, Calls
<1>2. /\ DOMAIN call' = CallFields /\ call'.at = at
      /\ call'.cmd = call.cmd /\ call'.ver = call.ver
  BY <1>1 DEF CallFields
<1>3. busy'
  BY <1>2, CallIsBusy DEF busy
<1>4. Docs'
  BY DEF Inv, Docs, Known
<1>5. Calls'
  BY <1>1, <1>2 DEF Calls
<1>6. ShownInStep'
  BY <1>2, <1>3 DEF Inv, Steps, ShownInStep, InStep
<1>7. LoadedInStep' /\ PatchInStep' /\ SplitTakesWhatWasDragged' /\ SentInStep'
  BY <1>2 DEF LoadedInStep, PatchInStep, SplitTakesWhatWasDragged, SentInStep
<1> QED BY <1>4, <1>5, <1>6, <1>7 DEF Inv, Steps

\* A document that was known before a command is older than one that counted up.
LEMMA KnownGrows ==
  ASSUME P!Sound(board, {}), P!Sound(board', {}), board.nextZ <= board'.nextZ
  PROVE  /\ \A d : Known(d) => d.nextZ \in Nat /\ IsDoc(d) /\ d.nextZ <= board'.nextZ
         /\ board.nextZ < board'.nextZ => \A d : Known(d) => d.nextZ # board'.nextZ
<1>1. board.nextZ \in Nat /\ board'.nextZ \in Nat
  BY SoundIsDoc DEF IsDoc
<1>2. \A d : Known(d) => d.nextZ \in Nat /\ IsDoc(d) /\ d.nextZ <= board.nextZ
  BY DEF Known, IsDoc
<1> QED BY <1>1, <1>2

\* A command the server runs: `new` is the stack a split made.
LEMMA AcceptedHolds ==
  ASSUME Inv, busy, call.at = "sent", call.ver = board.nextZ, call.stack \in DOMAIN board.stacks,
         UNCHANGED <<shown, poll, astray, drag>>, P!Sound(board', {}), board.nextZ <= board'.nextZ,
         NEW new, call' = [call EXCEPT !.at = "ok", !.doc = board', !.new = new],
         call.cmd \in {"split", "move"} => board'.nextZ = board.nextZ + 1,
         call.cmd = "move" => SameCards(board, board'),
         call.cmd = "split" => /\ new \in DOMAIN board'.stacks
                               /\ SameBut(board, board', {call.stack, new})
                               /\ IDs(board'.stacks[new].cards)
                                    = IDs(splitCardIDs(board.stacks[call.stack].cards, call.index).dragged)
  PROVE  Inv'
<1>1. /\ DOMAIN call = CallFields /\ drag = None
      /\ call.cmd \in {"split", "merge", "collect", "move"} /\ call.ver \in Nat
  BY DEF Inv, Calls
<1>2. /\ DOMAIN call' = CallFields /\ call'.at = "ok" /\ call'.doc = board' /\ call'.new = new
      /\ call'.cmd = call.cmd /\ call'.ver = call.ver /\ call'.stack = call.stack /\ call'.cards = call.cards
      /\ call'.retried = call.retried /\ call'.astray = call.astray
  BY <1>1 DEF CallFields
<1>3. busy'
  BY <1>2, CallIsBusy DEF busy
<1>4. /\ P!Sound(board, {}) /\ Known(shown) /\ (poll # None => Known(poll))
      /\ board.nextZ \in Nat /\ board'.nextZ \in Nat /\ IsDoc(board')
  BY SoundIsDoc DEF Inv, Docs, IsDoc
<1>5. Docs'
  BY <1>4, KnownGrows DEF Docs, Known
<1>6. Calls'
  BY <1>1, <1>2, <1>4 DEF Calls, Known
<1>7. ASSUME call.cmd \in {"split", "move"}
      PROVE  /\ shown.nextZ # board'.nextZ
             /\ astray = {} => SameCards(shown, board)
  <2>1. board.nextZ < board'.nextZ
    BY <1>4, <1>7
  <2>2. shown.nextZ # board'.nextZ
    BY <1>4, <2>1, KnownGrows
  <2>3. astray = {} => SameCards(shown, board)
    BY <1>7 DEF Inv, Steps, SentInStep
  <2> QED BY <2>2, <2>3
<1>8. ShownInStep'
  BY <1>1, <1>2, <1>3, <1>7 DEF ShownInStep, InStep
<1>9. SameCards(board', board')
  BY DEF SameCards, SameBut
<1>10. LoadedInStep'
  BY <1>2, <1>9 DEF LoadedInStep, InStep
<1>11. PatchInStep'
  <2>1. ASSUME call.cmd = "split", astray = {}
        PROVE  SameBut(shown, board', {call.stack, new})
    BY <1>7, <2>1 DEF SameBut, SameCards
  <2>2. ASSUME call.cmd = "move", astray = {}
        PROVE  SameCards(shown, board')
    BY <1>7, <2>2 DEF SameBut, SameCards
  <2> QED BY <1>2, <2>1, <2>2 DEF PatchInStep
<1>12. SentInStep'
  BY <1>2 DEF SentInStep
<1>13. SplitTakesWhatWasDragged'
  <2>1. ASSUME call.cmd = "split", ~call.retried, call.astray = {}
        PROVE  IDs(board'.stacks[new].cards) = call.cards
    BY <2>1 DEF Inv, Steps, SentInStep
  <2> QED BY <1>2, <2>1 DEF SplitTakesWhatWasDragged
<1> QED BY <1>5, <1>6, <1>8, <1>10, <1>11, <1>12, <1>13 DEF Inv, Steps

LEMMA ServeHolds ==
  ASSUME Inv, Serve
  PROVE  Inv'
<1>1. busy /\ call.at = "sent" /\ UNCHANGED <<shown, poll, astray, drag>>
  BY DEF Serve, gesturing
<1>2. CASE UNCHANGED board /\ call' = [call EXCEPT !.at = "conflict"]
  BY <1>1, <1>2, RefusedHolds
<1>3. CASE UNCHANGED board /\ call' = [call EXCEPT !.at = "refused"]
  BY <1>1, <1>3, RefusedHolds
<1>4. CASE /\ call.ver = board.nextZ /\ call.stack \in DOMAIN board.stacks /\ Runs
           /\ LET new == DOMAIN board'.stacks \ DOMAIN board.stacks IN
              call' = [call EXCEPT !.at = "ok", !.doc = board', !.new = IF new = {} THEN None ELSE CHOOSE n \in new : TRUE]
  <2> DEFINE added == DOMAIN board'.stacks \ DOMAIN board.stacks
             new == IF added = {} THEN None ELSE CHOOSE n \in added : TRUE
  <2>1. call' = [call EXCEPT !.at = "ok", !.doc = board', !.new = new]
    BY <1>4
  <2>2. /\ P!Sound(board, {}) /\ board.nextZ \in Nat
        /\ call.cmd \in {"split", "merge", "collect", "move"}
    BY <1>1, SoundIsDoc DEF Inv, Docs, Calls, IsDoc
  <2>3. CASE call.cmd = "split"
    <3> DEFINE n == board.nextZ + 1
    <3>1. Server!StackSplit(call.stack, call.index)
      BY <1>4, <2>3 DEF Runs
    <3>2. /\ P!Sound(board', {}) /\ board'.nextZ = n /\ added = {n}
          /\ SameBut(board, board', {call.stack, n})
          /\ IDs(board'.stacks[n].cards) = IDs(splitCardIDs(board.stacks[call.stack].cards, call.index).dragged)
      <4>1. call.stack \in DOMAIN board.stacks
        BY <1>4
      <4> QED BY ONLY <2>2, <3>1, <4>1, ServedSplit
    <3>3. new = n /\ n \in DOMAIN board'.stacks
      BY <3>2
    <3> HIDE DEF added, new
    <3>4. /\ P!Sound(board', {}) /\ board.nextZ <= board'.nextZ
          /\ call.cmd \in {"split", "move"} => board'.nextZ = board.nextZ + 1
      BY <2>2, <3>2
    <3>5. call.cmd = "split" => /\ new \in DOMAIN board'.stacks
                                /\ SameBut(board, board', {call.stack, new})
                                /\ IDs(board'.stacks[new].cards)
                                     = IDs(splitCardIDs(board.stacks[call.stack].cards, call.index).dragged)
      BY <3>2, <3>3
    <3> QED BY <1>1, <1>4, <2>1, <2>3, <3>4, <3>5, AcceptedHolds
  <2>4. CASE call.cmd = "merge"
    <3>1. call.target \in DOMAIN board.stacks /\ Server!StackMerge(call.target, call.stack)
      BY <1>4, <2>4 DEF Runs
    <3>2. P!Sound(board', {}) /\ board'.nextZ \in {board.nextZ, board.nextZ + 1}
      <4>1. call.stack \in DOMAIN board.stacks
        BY <1>4
      <4> QED BY ONLY <2>2, <3>1, <4>1, ServedMerge
    <3>3. board.nextZ <= board'.nextZ
      BY <2>2, <3>2
    <3> HIDE DEF new
    <3> QED BY <1>1, <1>4, <2>1, <2>4, <3>2, <3>3, AcceptedHolds
  <2>5. CASE call.cmd = "collect"
    <3>1. Server!LootCollectStack(call.stack)
      BY <1>4, <2>5 DEF Runs
    <3>2. P!Sound(board', {}) /\ board.nextZ <= board'.nextZ
      BY <1>4, <2>2, <3>1, ServedCollect
    <3> HIDE DEF new
    <3> QED BY <1>1, <1>4, <2>1, <2>5, <3>2, AcceptedHolds
  <2>6. CASE call.cmd = "move"
    <3>1. Server!StackBringToFront(call.stack)
      BY <1>4, <2>6 DEF Runs
    <3>2. P!Sound(board', {}) /\ board'.nextZ = board.nextZ + 1 /\ SameCards(board, board')
      BY <1>4, <2>2, <3>1, ServedRaise
    <3>3. board.nextZ <= board'.nextZ
      BY <2>2, <3>2
    <3> HIDE DEF new
    <3> QED BY <1>1, <1>4, <2>1, <2>6, <3>2, <3>3, AcceptedHolds
  <2> QED BY <2>2, <2>3, <2>4, <2>5, <2>6
<1> QED BY <1>1, <1>2, <1>3, <1>4 DEF Serve

\* The gesture's command has ended.
LEMMA EndedHolds ==
  ASSUME Inv, UNCHANGED <<board, poll>>, call' = NoCall, Known(shown'), astray' = {} => InStep(shown')
  PROVE  Inv'
<1>1. ~busy'
  BY DEF busy
<1>2. Docs'
  BY DEF Inv, Docs, Known
<1>3. Steps'
  BY <1>1 DEF Steps, ShownInStep, InStep, LoadedInStep, PatchInStep, SentInStep, SplitTakesWhatWasDragged
<1> QED BY <1>1, <1>2, <1>3 DEF Inv, Calls

\* A merge or a collect goes out in the name of a split that was answered.
LEMMA SecondSent ==
  ASSUME Inv, busy, UNCHANGED <<board, poll, drag>>, Known(shown'),
         NEW cmd \in {"merge", "collect"}, NEW s, NEW t, NEW cards, NEW lifts, NEW doc, Known(doc),
         call' = Command(cmd, s, t, 0, cards, lifts, doc)
  PROVE  Inv'
<1>1. /\ DOMAIN call' = CallFields /\ call'.cmd = cmd /\ call'.at = "sent" /\ call'.ver = doc.nextZ
  <2> DEFINE c == Command(cmd, s, t, 0, cards, lifts, doc)
  <2>1. DOMAIN c = CallFields /\ c.cmd = cmd /\ c.at = "sent" /\ c.ver = doc.nextZ
    BY ONLY TRUE DEF Command, CallFields
  <2>2. call' = c
    OBVIOUS
  <2> HIDE DEF c
  <2> QED BY <2>1, <2>2
<1>2. busy'
  BY <1>1, CallIsBusy DEF busy
<1>3. Docs'
  BY DEF Inv, Docs, Known
<1>4. drag' = None
  BY DEF Inv, Calls
<1>5. Calls'
  BY <1>1, <1>4 DEF Calls, Known, IsDoc
<1>6. Steps'
  BY <1>1, <1>2 DEF Steps, ShownInStep, LoadedInStep, PatchInStep, SentInStep, SplitTakesWhatWasDragged
<1> QED BY <1>3, <1>5, <1>6 DEF Inv

LEMMA SplitAnsweredHolds ==
  ASSUME Inv, SplitAnswered
  PROVE  Inv'
<1> DEFINE s == call.stack
           n == call.new
           doc == call.doc
           patched == Patched(shown, doc, s, n)
           cs == doc.stacks[n].cards
           t == call.target
<1>1. /\ busy /\ call.at = "ok" /\ call.cmd = "split" /\ UNCHANGED <<board, poll, drag>>
      /\ astray' = astray \cup (call.astray \cap {"quiet"})
  BY DEF SplitAnswered, Answered, gesturing
<1>2. IF t \in DOMAIN shown.stacks /\ canMerge(t, cs)
      THEN IF isCollectDeck(t)
           THEN /\ shown' = Removed(patched, n)
                /\ call' = Command("collect", n, None, 0, IDs(cs), call.lifts, patched)
           ELSE /\ shown' = Moved(patched, n, t)
                /\ call' = Command("merge", n, t, 0, IDs(cs), call.lifts, patched)
      ELSE shown' = patched /\ call' = NoCall
  BY DEF SplitAnswered, Ends, Patched
<1>3. IsDoc(shown) /\ IsDoc(doc) /\ doc.nextZ <= board.nextZ /\ n \in DOMAIN doc.stacks
  BY <1>1 DEF Inv, Docs, Calls, Known
<1>4. ASSUME astray = {}, "quiet" \notin call.astray, doc.nextZ = board.nextZ
      PROVE  SameBut(shown, board, {s, n}) /\ SameCards(doc, board)
  BY <1>1, <1>4 DEF Inv, Steps, PatchInStep, LoadedInStep, InStep
<1> HIDE DEF s, n, doc, patched
<1>5. /\ IsDoc(patched) /\ patched.nextZ = doc.nextZ
      /\ DOMAIN patched.stacks \ {s, n} = DOMAIN shown.stacks \ {s, n}
      /\ DOMAIN patched.stacks \cap {s, n} = DOMAIN doc.stacks \cap {s, n}
      /\ \A x \in DOMAIN shown.stacks \ {s, n} : patched.stacks[x] = shown.stacks[x]
      /\ \A x \in DOMAIN doc.stacks \cap {s, n} : patched.stacks[x] = doc.stacks[x]
  BY <1>3, PatchedDoc DEF patched
<1>6. Known(patched)
  BY <1>3, <1>5 DEF Known
<1>7. CASE t \in DOMAIN shown.stacks /\ canMerge(t, cs)
  <2>1. CASE isCollectDeck(t)
    <3>1. shown' = Removed(patched, n) /\ call' = Command("collect", n, None, 0, IDs(cs), call.lifts, patched)
      BY <1>2, <1>7, <2>1
    <3>2. Known(shown')
      BY <1>6, <3>1, RemovedDoc DEF Known
    <3> QED BY <1>1, <1>6, <3>1, <3>2, SecondSent
  <2>2. CASE ~isCollectDeck(t)
    <3>1. shown' = Moved(patched, n, t) /\ call' = Command("merge", n, t, 0, IDs(cs), call.lifts, patched)
      BY <1>2, <1>7, <2>2
    <3>2. Known(shown')
      BY <1>6, <3>1, MovedDoc DEF Known
    <3> QED BY <1>1, <1>6, <3>1, <3>2, SecondSent
  <2> QED BY <2>1, <2>2
<1>8. CASE ~(t \in DOMAIN shown.stacks /\ canMerge(t, cs))
  <2>1. shown' = patched /\ call' = NoCall
    BY <1>2, <1>8
  <2>2. ASSUME astray' = {}, patched.nextZ = board.nextZ
        PROVE  SameCards(patched, board)
    <3>1. astray = {} /\ "quiet" \notin call.astray /\ doc.nextZ = board.nextZ
      BY <1>1, <1>5, <2>2
    <3>2. /\ DOMAIN doc.stacks = DOMAIN board.stacks
          /\ \A x \in DOMAIN board.stacks : doc.stacks[x].cards = board.stacks[x].cards
          /\ DOMAIN shown.stacks \ {s, n} = DOMAIN board.stacks \ {s, n}
          /\ \A x \in DOMAIN board.stacks \ {s, n} : shown.stacks[x].cards = board.stacks[x].cards
      BY <1>4, <3>1 DEF SameCards, SameBut
    <3>3. DOMAIN patched.stacks = DOMAIN board.stacks
      BY <1>5, <3>2
    <3>4. ASSUME NEW x \in DOMAIN board.stacks
          PROVE  patched.stacks[x].cards = board.stacks[x].cards
      BY <1>5, <3>2, <3>4
    <3> QED BY <3>3, <3>4 DEF SameCards, SameBut
  <2> QED BY <1>1, <1>6, <2>1, <2>2, EndedHolds DEF InStep
<1> QED BY <1>7, <1>8

LEMMA MoveAnsweredHolds ==
  ASSUME Inv, MoveAnswered
  PROVE  Inv'
<1>1. /\ busy /\ call.at = "ok" /\ call.cmd = "move" /\ call' = NoCall /\ UNCHANGED <<board, poll, astray>>
      /\ shown' = [shown EXCEPT !.nextZ = call.doc.nextZ]
  BY DEF MoveAnswered, Answered, Ends
<1>2. IsDoc(shown) /\ call.doc.nextZ \in Nat /\ call.doc.nextZ <= board.nextZ
  BY <1>1 DEF Inv, Docs, Calls, Known, IsDoc
<1>3. IsDoc(shown') /\ shown'.nextZ = call.doc.nextZ /\ shown'.stacks = shown.stacks
  BY <1>1, <1>2, CountedDoc
<1>4. astray' = {} => InStep(shown')
  BY <1>1, <1>3 DEF Inv, Steps, PatchInStep, InStep, SameCards, SameBut
<1> QED BY <1>1, <1>2, <1>3, <1>4, EndedHolds DEF Known

LEMMA LoadStartsHolds ==
  ASSUME Inv, LoadStarts
  PROVE  Inv'
<1> DEFINE at == IF call.at = "ok" THEN "refreshing" ELSE "reloading"
<1>1. /\ busy /\ call.at \in {"ok", "conflict"} /\ UNCHANGED <<board, poll, astray, drag>>
      /\ call' = [call EXCEPT !.at = at, !.doc = board, !.astray = {}]
      /\ call.at = "ok" => call.cmd \in {"merge", "collect"} /\ shown' = [shown EXCEPT !.nextZ = call.doc.nextZ]
      /\ call.at = "conflict" => shown' = shown
  BY DEF LoadStarts, Answered, gesturing
<1>2. /\ DOMAIN call = CallFields /\ drag = None /\ call.cmd \in {"split", "merge", "collect", "move"}
      /\ call.ver \in Nat /\ call.ver <= board.nextZ
  BY <1>1 DEF Inv, Calls
<1>3. /\ DOMAIN call' = CallFields /\ call'.at = at /\ call'.doc = board
      /\ call'.cmd = call.cmd /\ call'.ver = call.ver
  BY <1>1, <1>2 DEF CallFields
<1>4. busy'
  BY <1>3, CallIsBusy DEF busy
<1>5. P!Sound(board, {}) /\ Known(shown) /\ Known(board)
  BY SoundIsDoc DEF Inv, Docs, Known, IsDoc
<1>6. Known(shown')
  <2>1. CASE call.at = "ok"
    <3>1. call.doc.nextZ \in Nat /\ call.doc.nextZ <= board.nextZ
      BY <1>1, <2>1 DEF Inv, Calls, Known, IsDoc
    <3>2. shown' = [shown EXCEPT !.nextZ = call.doc.nextZ] /\ IsDoc(shown)
      BY <1>1, <1>5, <2>1 DEF Known
    <3>3. IsDoc(shown') /\ shown'.nextZ = call.doc.nextZ
      BY ONLY <3>1, <3>2, CountedDoc
    <3> QED BY <1>1, <3>1, <3>3 DEF Known
  <2>2. CASE call.at = "conflict"
    BY <1>1, <1>5, <2>2 DEF Known
  <2> QED BY <1>1, <2>1, <2>2
<1>7. Docs'
  BY <1>1, <1>6 DEF Inv, Docs, Known
<1>8. Calls'
  BY <1>1, <1>2, <1>3, <1>5 DEF Calls, Known
<1>9. ShownInStep'
  BY <1>1, <1>2, <1>3, <1>4 DEF Inv, Steps, ShownInStep, InStep
<1>10. SameCards(board, board)
  BY DEF SameCards, SameBut
<1>11. LoadedInStep' /\ PatchInStep' /\ SentInStep' /\ SplitTakesWhatWasDragged'
  BY <1>1, <1>3, <1>10 DEF LoadedInStep, InStep, PatchInStep, SentInStep, SplitTakesWhatWasDragged
<1> QED BY <1>7, <1>8, <1>9, <1>11 DEF Inv, Steps

LEMMA RefreshedHolds ==
  ASSUME Inv, Refreshed
  PROVE  Inv'
<1>1. /\ busy /\ call.at = "refreshing" /\ UNCHANGED <<board, poll>>
      /\ shown' = call.doc /\ astray' = call.astray /\ call' = NoCall
  BY DEF Refreshed, Answered, Ends
<1>2. Known(shown')
  BY <1>1 DEF Inv, Calls
<1>3. astray' = {} => InStep(shown')
  BY <1>1 DEF Inv, Steps, LoadedInStep
<1> QED BY <1>1, <1>2, <1>3, EndedHolds

LEMMA ReloadedHolds ==
  ASSUME Inv, Reloaded
  PROVE  Inv'
<1>1. /\ busy /\ call.at = "reloading" /\ UNCHANGED <<board, poll, drag>>
      /\ shown' = call.doc /\ astray' = call.astray
      /\ call' = [call EXCEPT !.at = "sent", !.ver = call.doc.nextZ, !.retried = TRUE]
  BY DEF Reloaded, Answered, gesturing
<1>2. /\ DOMAIN call = CallFields /\ drag = None /\ call.cmd \in {"split", "merge", "collect", "move"}
      /\ Known(call.doc)
  BY <1>1 DEF Inv, Calls
<1>3. /\ DOMAIN call' = CallFields /\ call'.at = "sent" /\ call'.ver = call.doc.nextZ /\ call'.retried = TRUE
      /\ call'.cmd = call.cmd
  BY <1>1, <1>2 DEF CallFields
<1>4. Docs'
  BY <1>1, <1>2 DEF Inv, Docs, Known
<1>5. Calls'
  BY <1>1, <1>2, <1>3 DEF Calls, Known, IsDoc
<1>6. astray' = {} => InStep(shown')
  BY <1>1 DEF Inv, Steps, LoadedInStep
<1>7. Steps'
  BY <1>1, <1>3, <1>6 DEF Steps, ShownInStep, LoadedInStep, InStep, PatchInStep, SentInStep, SplitTakesWhatWasDragged
<1> QED BY <1>4, <1>5, <1>7 DEF Inv

LEMMA ThrowsHolds ==
  ASSUME Inv, Throws
  PROVE  Inv'
<1>1. /\ busy /\ UNCHANGED <<board, poll, shown>> /\ call' = NoCall
      /\ astray' = IF call.cmd \in {"merge", "collect"} THEN astray \cup {"ghost"} ELSE astray
  BY DEF Throws, Answered, Ends
<1>2. Known(shown')
  BY <1>1 DEF Inv, Docs, Known
<1>3. astray' = {} => InStep(shown')
  BY <1>1 DEF Inv, Steps, ShownInStep, InStep
<1> QED BY <1>1, <1>2, <1>3, EndedHolds

LEMMA PollsHold ==
  ASSUME Inv, PollServed \/ PollShown
  PROVE  Inv'
<1>1. IsDoc(board) /\ board.nextZ \in Nat
  BY SoundIsDoc DEF Inv, Docs, IsDoc
<1>2. UNCHANGED <<board, call, drag>>
  BY DEF PollServed, PollShown, gesturing
<1>3. Docs'
  BY <1>1, <1>2 DEF Inv, Docs, Known, PollServed, PollShown
<1>4. Calls'
  BY <1>2 DEF Inv, Calls, Known, busy
<1>5. CASE PollServed
  <2>1. UNCHANGED <<board, shown, call, astray>>
    BY <1>5 DEF PollServed
  <2>2. Steps'
    BY <2>1 DEF Inv, Steps, InStep, ShownInStep, LoadedInStep, PatchInStep, SentInStep, SplitTakesWhatWasDragged, busy
  <2> QED BY <1>3, <1>4, <2>2 DEF Inv
<1>6. CASE PollShown
  <2>1. astray' = {} => shown' = board
    BY <1>6 DEF PollShown
  <2>2. \A X : SameBut(board, board, X)
    BY DEF SameBut
  <2>3. ShownInStep' /\ PatchInStep'
    BY <1>2, <2>1, <2>2 DEF ShownInStep, InStep, PatchInStep, SameCards
  <2>4. LoadedInStep' /\ SplitTakesWhatWasDragged'
    BY <1>2 DEF Inv, Steps, LoadedInStep, InStep, SplitTakesWhatWasDragged, busy
  <2>5. SentInStep'
    BY <1>2, <2>1, <2>2 DEF Inv, Steps, SentInStep, SameCards, busy
  <2> QED BY <1>3, <1>4, <2>3, <2>4, <2>5 DEF Inv, Steps
<1> QED BY <1>5, <1>6

\* A command of another user counts up, or it marks what it leaves behind.
LEMMA OtherUserHolds ==
  ASSUME Inv, OtherUser
  PROVE  Inv'
<1> DEFINE quiet == IF board'.nextZ = board.nextZ THEN {"quiet"} ELSE {}
<1>1. /\ UNCHANGED <<shown, drag, poll>> /\ astray' = astray \cup quiet
      /\ call' = IF busy THEN [call EXCEPT !.astray = @ \cup quiet] ELSE call
  BY DEF OtherUser
<1>2. P!Sound(board, {}) /\ board.nextZ \in Nat
  BY SoundIsDoc DEF Inv, Docs, IsDoc
<1>3. P!Sound(board', {}) /\ board.nextZ <= board'.nextZ /\ board'.nextZ \in Nat
  <2>1. CASE \E s, t \in DOMAIN board.stacks : s # t /\ Server!StackMerge(t, s)
    <3>1. PICK s \in DOMAIN board.stacks : \E t \in DOMAIN board.stacks : Server!StackMerge(t, s)
      BY <2>1
    <3>2. PICK t \in DOMAIN board.stacks : Server!StackMerge(t, s)
      BY <3>1
    <3>3. P!Sound(board', {}) /\ board'.nextZ \in {board.nextZ, board.nextZ + 1}
      BY <1>2, <3>2, ServedMerge
    <3> QED BY <1>2, <3>3
  <2>2. CASE \E s \in DOMAIN board.stacks, i \in 0..8 : Server!StackSplit(s, i)
    <3>1. PICK s \in DOMAIN board.stacks : \E i \in 0..8 : Server!StackSplit(s, i)
      BY <2>2
    <3>2. PICK i \in 0..8 : Server!StackSplit(s, i)
      BY <3>1
    <3>3. P!Sound(board', {}) /\ board'.nextZ = board.nextZ + 1
      BY <1>2, <3>2, ServedSplit
    <3> QED BY <1>2, <3>3
  <2> QED BY <2>1, <2>2 DEF OtherUser
<1>4. /\ \A d : Known(d) => d.nextZ \in Nat /\ IsDoc(d) /\ d.nextZ <= board'.nextZ
      /\ board.nextZ < board'.nextZ => \A d : Known(d) => d.nextZ # board'.nextZ
  BY <1>2, <1>3, KnownGrows
<1>5. Docs'
  BY <1>1, <1>3, <1>4 DEF Inv, Docs, Known
<1>6. CASE ~busy
  <2>1. ~busy' /\ call' = call
    BY <1>1, <1>6 DEF busy
  <2>2. ShownInStep'
    BY <1>1, <1>2, <1>3, <1>4 DEF Inv, Docs, ShownInStep, InStep
  <2>3. Steps'
    BY <2>1, <2>2 DEF Steps, LoadedInStep, PatchInStep, SentInStep, SplitTakesWhatWasDragged
  <2> QED BY <1>5, <2>1, <2>3 DEF Inv, Calls
<1>7. CASE busy
  <2>1. /\ DOMAIN call = CallFields /\ drag = None /\ call.cmd \in {"split", "merge", "collect", "move"}
        /\ call.at \in {"sent", "ok", "conflict", "refused", "refreshing", "reloading"}
        /\ call.at = "refreshing" => call.cmd \in {"merge", "collect"}
        /\ call.ver \in Nat /\ call.ver <= board.nextZ
        /\ call.at \in {"ok", "refreshing", "reloading"} => Known(call.doc)
        /\ call.at = "ok" /\ call.cmd = "split" => call.new \in DOMAIN call.doc.stacks
    BY <1>7 DEF Inv, Calls
  <2>2. /\ DOMAIN call' = CallFields /\ call'.astray = call.astray \cup quiet
        /\ call'.cmd = call.cmd /\ call'.at = call.at /\ call'.ver = call.ver /\ call'.doc = call.doc
        /\ call'.new = call.new /\ call'.cards = call.cards /\ call'.retried = call.retried
    BY <1>1, <1>7, <2>1 DEF CallFields
  <2>3. busy'
    BY <2>2, CallIsBusy DEF busy
  <2>4. call.ver <= board'.nextZ /\ (board.nextZ < board'.nextZ => call.ver # board'.nextZ)
    BY <1>2, <1>3, <2>1
  <2>5. Calls'
    BY <1>1, <1>4, <2>1, <2>2, <2>4 DEF Calls, Known
  <2>6. board'.nextZ = board.nextZ => astray' # {} /\ call'.astray # {} /\ "quiet" \in call'.astray
    BY <1>1, <2>2
  <2>7. board'.nextZ # board.nextZ => board.nextZ < board'.nextZ
    BY <1>2, <1>3
  <2> HIDE DEF quiet
  <2>8. ShownInStep'
    BY <1>1, <1>4, <2>6, <2>7 DEF Inv, Docs, ShownInStep, InStep
  <2>9. LoadedInStep' /\ PatchInStep'
    BY <1>4, <2>1, <2>2, <2>6, <2>7 DEF LoadedInStep, InStep, PatchInStep
  <2>10. SentInStep'
    BY <2>2, <2>4, <2>6, <2>7 DEF SentInStep
  <2>11. SplitTakesWhatWasDragged'
    BY <1>7, <2>2 DEF Inv, Steps, SplitTakesWhatWasDragged
  <2> QED BY <1>5, <2>5, <2>8, <2>9, <2>10, <2>11 DEF Inv, Steps
<1> QED BY <1>6, <1>7

LEMMA InvKept ==
  ASSUME Inv, [Next]_vars
  PROVE  Inv'
<1>1. CASE UNCHANGED vars
  BY <1>1, Untouched DEF vars
<1>2. CASE \E p \in Pointers, s \in DOMAIN shown.stacks, i \in 1..8 : onStackPointerDown(p, s, i)
  BY <1>2, PointersHold
<1>3. CASE \E p \in Pointers : onBoardPointerDown(p) \/ onPointerMove(p) \/ onPointerUp(p) \/ EndPan(p) \/ onPointerCancel(p)
  BY <1>3, PointersHold
<1>4. CASE Serve \/ SplitAnswered \/ MoveAnswered \/ LoadStarts \/ Refreshed \/ Reloaded \/ Throws
  BY <1>4, ServeHolds, SplitAnsweredHolds, MoveAnsweredHolds, LoadStartsHolds, RefreshedHolds, ReloadedHolds, ThrowsHolds
<1>5. CASE PollServed \/ PollShown \/ OtherUser
  BY <1>5, PollsHold, OtherUserHolds
<1> QED BY <1>1, <1>2, <1>3, <1>4, <1>5 DEF Next

(* A split accepted at the first attempt moves the cards the user dragged,   *)
(* for every board to begin with, any pointers and any number of refusals    *)
(* and of commands of other users (Spatial:212-285, service.go's split).     *)
THEOREM SplitsTakeTheDragged == Spec => []SplitTakesWhatWasDragged
<1>1. Inv /\ [Next]_vars => Inv'
  BY InvKept
<1>2. Inv => SplitTakesWhatWasDragged
  BY DEF Inv, Steps
<1> QED BY InvHolds, <1>1, <1>2, PTL DEF Spec

---------------------------------------------------------------------------
(* What is drawn away from its place is the stack pressed or the stack of    *)
(* the command under way.                                                    *)

Pressed == IF drag = None THEN {} ELSE {drag.stack}
Underway == IF busy THEN {call.lifts} ELSE {}
Lifted == (drag # None => drag \in Press) /\ positions \subseteq Pressed \cup Underway

LEMMA DraggedCount ==
  ASSUME NEW S, NEW cs \in Seq(S), NEW i \in DOMAIN cs
  PROVE  Len(splitCardIDs(cs, i - 1).dragged) \in Nat
<1>1. Len(cs) \in Nat /\ DOMAIN cs = 1..Len(cs) /\ Clamp(cs, i - 1) = i - 1
  BY DEF Clamp
<1>2. CASE i - 1 = 0
  BY <1>1, <1>2 DEF splitCardIDs
<1>3. CASE i - 1 # 0
  <2>1. splitCardIDs(cs, i - 1).dragged = SubSeq(cs, (i - 1) + 1, Len(cs))
    BY <1>1, <1>3 DEF splitCardIDs, CutAt
  <2>2. SubSeq(cs, (i - 1) + 1, Len(cs)) \in Seq(S)
    BY <1>1
  <2> QED BY <2>1, <2>2
<1> QED BY <1>2, <1>3

\* With one pointer a press begins with nothing lifted.
LEMMA PressLifts ==
  ASSUME Inv, Lifted, NEW p, Pointers = {p},
         NEW s \in DOMAIN shown.stacks, NEW i \in 1..8, onStackPointerDown(p, s, i)
  PROVE  Lifted'
<1>1. ~busy /\ drag = None
  BY DEF onStackPointerDown, Up, Holder, Lifted, Press
<1>2. positions = {} /\ UNCHANGED call
  BY <1>1 DEF onStackPointerDown, Lifted, Pressed, Underway
<1>3. CASE isDeckLike(TopDef(Cards(s)))
  BY <1>2, <1>3 DEF onStackPointerDown, Lifted
<1>4. CASE ~isDeckLike(TopDef(Cards(s)))
  <2> DEFINE split == i < Len(Cards(s))
             count == IF split THEN Len(splitCardIDs(Cards(s), i - 1).dragged) ELSE Len(Cards(s))
  <2>1. /\ positions' = positions \cup {s}
        /\ drag' = [stack |-> s, pointer |-> p, split |-> split, index |-> i - 1, count |-> count]
    BY <1>4 DEF onStackPointerDown
  <2>2. s \in Nat /\ Cards(s) \in Seq(Nat) /\ i \in DOMAIN Cards(s)
    BY DEF Inv, Docs, Known, IsDoc, Cards, onStackPointerDown
  <2>3. count \in Nat /\ split \in BOOLEAN /\ i - 1 \in Nat
    BY <2>2, DraggedCount
  <2> HIDE DEF split, count
  <2>4. drag' \in Press /\ drag'.stack = s
    BY <2>1, <2>2, <2>3 DEF Press
  <2>5. drag' # None
    BY <2>4, GestureAssumption
  <2> QED BY <1>2, <2>1, <2>4, <2>5 DEF Lifted, Pressed
<1> QED BY <1>3, <1>4

LEMMA ReleaseLowers ==
  ASSUME Inv, Lifted, NEW p \in Pointers, onPointerUp(p)
  PROVE  Lifted'
<1>1. Released(p)
  BY DEF onPointerUp, ClickInside, DropSplit, DropOnStack, DropOnBoard
<1>2. ~busy /\ drag' = None
  BY <1>1, ReleasedWhileIdle
<1>3. positions \ {drag.stack} = {} /\ positions \subseteq {drag.stack}
  BY <1>2 DEF Lifted, Pressed, Underway
<1>4. CASE positions' = positions \ {drag.stack}
  BY <1>2, <1>3, <1>4 DEF Lifted
<1>5. CASE /\ UNCHANGED positions
           /\ \E cmd, t, i, cards : call' = Command(cmd, drag.stack, t, i, cards, drag.stack, shown)
  <2>1. PICK cmd, t, i, cards : call' = Command(cmd, drag.stack, t, i, cards, drag.stack, shown)
    BY <1>5
  <2> DEFINE c == Command(cmd, drag.stack, t, i, cards, drag.stack, shown)
  <2>2. DOMAIN c = CallFields /\ c.lifts = drag.stack
    BY ONLY TRUE DEF Command, CallFields
  <2> HIDE DEF c
  <2>3. call' = c
    BY <2>1 DEF c
  <2>4. busy' /\ call'.lifts = drag.stack
    BY <2>2, <2>3, CallIsBusy DEF busy
  <2> QED BY <1>2, <1>3, <1>5, <2>4 DEF Lifted, Underway
<1>6. CASE ClickInside(p)
  BY <1>4, <1>6 DEF ClickInside
<1>7. CASE DropSplit(p)
  BY <1>5, <1>7 DEF DropSplit
<1>8. CASE DropOnStack(p)
  BY <1>4, <1>8 DEF DropOnStack
<1>9. CASE DropOnBoard(p)
  BY <1>4, <1>5, <1>9 DEF DropOnBoard
<1> QED BY <1>6, <1>7, <1>8, <1>9 DEF onPointerUp

\* A command keeps its lift until it ends.
LEMMA LiftKept ==
  ASSUME Inv, Lifted, UNCHANGED <<drag, positions>>,
         busy => /\ DOMAIN call' = CallFields
                 /\ call'.lifts = call.lifts,
         ~busy => call' = call
  PROVE  Lifted'
<1>1. busy => busy'
  BY CallIsBusy DEF busy
<1> QED BY <1>1 DEF Lifted, Pressed, Underway, busy

LEMMA LiftEnds ==
  ASSUME Inv, Lifted, busy, UNCHANGED drag, Ends
  PROVE  Lifted'
<1>1. drag = None
  BY DEF Inv, Calls
<1>2. positions' = {}
  BY <1>1 DEF Lifted, Pressed, Underway, Ends
<1> QED BY <1>1, <1>2 DEF Lifted

LEMMA SplitAnsweredLifts ==
  ASSUME Inv, Lifted, SplitAnswered
  PROVE  Lifted'
<1>1. busy /\ UNCHANGED drag
  BY DEF SplitAnswered, Answered, gesturing
<1>2. CASE Ends
  BY <1>1, <1>2, LiftEnds
<1>3. CASE /\ UNCHANGED positions
           /\ \E cmd, s, t, cards, doc : call' = Command(cmd, s, t, 0, cards, call.lifts, doc)
  <2>1. PICK cmd, s, t, cards, doc : call' = Command(cmd, s, t, 0, cards, call.lifts, doc)
    BY <1>3
  <2> DEFINE c == Command(cmd, s, t, 0, cards, call.lifts, doc)
  <2>2. DOMAIN c = CallFields /\ c.lifts = call.lifts
    BY ONLY TRUE DEF Command, CallFields
  <2> HIDE DEF c
  <2>3. call' = c
    BY <2>1 DEF c
  <2> QED BY <1>1, <1>3, <2>2, <2>3, LiftKept
<1>4. Ends \/ (/\ UNCHANGED positions
              /\ \E cmd, s, t, cards, doc : call' = Command(cmd, s, t, 0, cards, call.lifts, doc))
  BY DEF SplitAnswered
<1> QED BY <1>2, <1>3, <1>4

LEMMA LiftedKept ==
  ASSUME Inv, Lifted, NEW p, Pointers = {p}, [Next]_vars
  PROVE  Lifted'
<1>0. busy => DOMAIN call = CallFields
  BY DEF Inv, Calls
<1>1. CASE UNCHANGED vars
  BY <1>1, <1>0, LiftKept DEF vars
<1>2. CASE \E s \in DOMAIN shown.stacks, i \in 1..8 : onStackPointerDown(p, s, i)
  BY <1>2, PressLifts
<1>3. CASE onBoardPointerDown(p) \/ EndPan(p)
  BY <1>0, <1>3, LiftKept DEF onBoardPointerDown, EndPan
<1>4. CASE onPointerMove(p)
  <2>1. drag # None
    BY <1>4, GestureAssumption DEF onPointerMove, Dragging, Holder
  <2> QED BY <1>4, <2>1 DEF onPointerMove, Lifted, Pressed, Underway, busy
<1>5. CASE onPointerCancel(p)
  <2>1. drag # None
    BY <1>5, GestureAssumption DEF onPointerCancel, Holder
  <2> QED BY <1>5, <2>1 DEF onPointerCancel, Lifted, Pressed, Underway, busy
<1>6. CASE onPointerUp(p)
  BY <1>6, ReleaseLowers
<1>7. CASE Serve
  <2>1. busy /\ UNCHANGED <<drag, positions>>
    BY <1>7 DEF Serve, gesturing
  <2>2. DOMAIN call' = DOMAIN call /\ call'.lifts = call.lifts
    BY <1>0, <1>7, <2>1 DEF Serve, CallFields
  <2> QED BY <1>0, <2>1, <2>2, LiftKept
<1>8. CASE SplitAnswered
  BY <1>8, SplitAnsweredLifts
<1>9. CASE MoveAnswered \/ Refreshed \/ Throws
  BY <1>9, LiftEnds DEF MoveAnswered, Refreshed, Throws, Answered, gesturing
<1>10. CASE LoadStarts \/ Reloaded
  <2>1. busy /\ UNCHANGED <<drag, positions>>
    BY <1>10 DEF LoadStarts, Reloaded, Answered, gesturing
  <2>2. DOMAIN call' = DOMAIN call /\ call'.lifts = call.lifts
    BY <1>0, <1>10, <2>1 DEF LoadStarts, Reloaded, CallFields
  <2> QED BY <1>0, <2>1, <2>2, LiftKept
<1>11. CASE PollServed \/ PollShown
  BY <1>0, <1>11, LiftKept DEF PollServed, PollShown, gesturing
<1>12. CASE OtherUser
  <2>1. UNCHANGED <<drag, positions>>
    BY <1>12 DEF OtherUser
  <2>2. busy => DOMAIN call' = DOMAIN call /\ call'.lifts = call.lifts
    BY <1>0, <1>12 DEF OtherUser, CallFields
  <2>3. ~busy => call' = call
    BY <1>12 DEF OtherUser
  <2> QED BY <1>0, <2>1, <2>2, <2>3, LiftKept
<1>13. \A q \in Pointers : q = p
  OBVIOUS
<1> QED BY <1>1, <1>2, <1>3, <1>4, <1>5, <1>6, <1>7, <1>8, <1>9, <1>10, <1>11, <1>12, <1>13 DEF Next

(* With one pointer nothing stays drawn away from its place once the press   *)
(* and its command have ended, whatever was refused, retried or changed by   *)
(* another user meanwhile (Spatial:212, Lifecycle:386, 486).                 *)
THEOREM NothingStaysLifted ==
  ASSUME NEW p, Pointers = {p}
  PROVE  Spec => []NothingLeftLifted
<1>1. Init => Inv /\ Lifted
  BY InvHolds DEF Init, Lifted
<1>2. Inv /\ Lifted /\ [Next]_vars => Inv' /\ Lifted'
  BY InvKept, LiftedKept
<1>3. Lifted => NothingLeftLifted
  BY DEF Lifted, Pressed, Underway, NothingLeftLifted
<1> QED BY <1>1, <1>2, <1>3, PTL DEF Spec

---------------------------------------------------------------------------
(* Documents that show a card once.                                          *)

Inj(cs) == \A i, j \in DOMAIN cs : cs[i] = cs[j] => i = j
Lies(d, x) == IDs(d.stacks[x].cards)

Once(d) ==
  \A x \in DOMAIN d.stacks :
    /\ Inj(d.stacks[x].cards)
    /\ \A y \in DOMAIN d.stacks : x # y => Lies(d, x) \cap Lies(d, y) = {}

\* What d shows outside of X shares no card with what b holds in another of d's
\* stacks or in one of X.
Asunder(d, b, X) ==
  \A x \in DOMAIN d.stacks \ X, y \in (DOMAIN d.stacks \cup X) \cap DOMAIN b.stacks :
    x # y => Lies(d, x) \cap Lies(b, y) = {}

LEMMA SoundOnce ==
  ASSUME NEW b, P!Sound(b, {})
  PROVE  Once(b) /\ \A X : Asunder(b, b, X)
<1>1. /\ \A s \in DOMAIN b.stacks : P!IsInjective(b.stacks[s].cards)
      /\ \A s, t \in DOMAIN b.stacks : s # t => P!CardsOf(b, s) \cap P!CardsOf(b, t) = {}
  BY DEF P!Sound, P!PlacedBut
<1>2. \A s : P!CardsOf(b, s) = Lies(b, s)
  BY DEF P!CardsOf, P!Range, Lies, IDs
<1>3. \A s \in DOMAIN b.stacks : Inj(b.stacks[s].cards)
  BY <1>1 DEF P!IsInjective, Inj
<1> QED BY <1>1, <1>2, <1>3 DEF Once, Asunder

\* Only the stacks of a document count.
LEMMA SameOnce ==
  ASSUME NEW d, NEW e, d.stacks = e.stacks
  PROVE  /\ Once(d) <=> Once(e)
         /\ \A b, X : Asunder(d, b, X) <=> Asunder(e, b, X)
BY DEF Once, Asunder, Lies

LEMMA RemovedOnce ==
  ASSUME NEW d, IsDoc(d), NEW b, NEW s, Once(d), Asunder(d, b, {})
  PROVE  Once(Removed(d, s)) /\ Asunder(Removed(d, s), b, {})
<1> DEFINE e == Removed(d, s)
<1>1. DOMAIN e.stacks = DOMAIN d.stacks \ {s} /\ \A x \in DOMAIN d.stacks \ {s} : e.stacks[x] = d.stacks[x]
  BY RemovedDoc
<1> HIDE DEF e
<1>2. Once(e) /\ Asunder(e, b, {})
  BY <1>1 DEF Once, Asunder, Lies
<1> QED BY <1>2 DEF e

LEMMA Concatenation ==
  ASSUME NEW p \in Seq(Nat), NEW q \in Seq(Nat)
  PROVE  /\ IDs(p \o q) = IDs(p) \cup IDs(q)
         /\ Inj(p) /\ Inj(q) /\ IDs(p) \cap IDs(q) = {} => Inj(p \o q)
         /\ p # <<>> => p \o q # <<>>
<1>1. /\ P!Range(p \o q) = P!Range(p) \cup P!Range(q)
      /\ P!IsInjective(p) /\ P!IsInjective(q) /\ P!Range(p) \cap P!Range(q) = {} => P!IsInjective(p \o q)
  BY P!ConcatInjective, ServerBounds
<1>2. /\ P!Range(p) = IDs(p) /\ P!Range(q) = IDs(q) /\ P!Range(p \o q) = IDs(p \o q)
  BY DEF P!Range, IDs
<1>3. /\ P!IsInjective(p) <=> Inj(p)
      /\ P!IsInjective(q) <=> Inj(q)
      /\ P!IsInjective(p \o q) <=> Inj(p \o q)
  BY DEF P!IsInjective, Inj
<1>4. p # <<>> => p \o q # <<>>
  OBVIOUS
<1> QED BY <1>1, <1>2, <1>3, <1>4

\* A moved stack lies on its target, and is gone from its own place.
LEMMA MovedStacks ==
  ASSUME NEW d, IsDoc(d), NEW s \in DOMAIN d.stacks, NEW t \in DOMAIN d.stacks
  PROVE  LET e == Moved(d, s, t)
         IN  /\ DOMAIN e.stacks = DOMAIN d.stacks \ {s}
             /\ \A x \in DOMAIN e.stacks \ {t} : e.stacks[x] = d.stacks[x]
             /\ t \in DOMAIN e.stacks => e.stacks[t].cards = d.stacks[t].cards \o d.stacks[s].cards
<1> DEFINE stack == [d.stacks[t] EXCEPT !.cards = @ \o d.stacks[s].cards]
           f == Placed(d, t, stack)
           e == Removed(f, s)
<1>1. Moved(d, s, t) = e
  BY DEF Moved
<1>2. /\ t \in Nat /\ "cards" \in DOMAIN d.stacks[t]
      /\ d.stacks[t].cards \in Seq(Nat) /\ d.stacks[s].cards \in Seq(Nat)
  BY DEF IsDoc
<1>3. "cards" \in DOMAIN stack /\ stack.cards = d.stacks[t].cards \o d.stacks[s].cards /\ stack.cards \in Seq(Nat)
  <2>1. d.stacks[t].cards \o d.stacks[s].cards \in Seq(Nat)
    BY <1>2
  <2>2. "cards" \in DOMAIN stack /\ stack.cards = d.stacks[t].cards \o d.stacks[s].cards
    BY <1>2
  <2> HIDE DEF stack
  <2> QED BY <2>1, <2>2
<1> HIDE DEF stack
<1>4. /\ IsDoc(f) /\ DOMAIN f.stacks = DOMAIN d.stacks
      /\ f.stacks[t] = stack /\ \A x \in DOMAIN d.stacks \ {t} : f.stacks[x] = d.stacks[x]
  <2>1. IsDoc(d) /\ t \in Nat /\ "cards" \in DOMAIN stack /\ stack.cards \in Seq(Nat)
    BY <1>2, <1>3
  <2>2. /\ IsDoc(f) /\ DOMAIN f.stacks = DOMAIN d.stacks \cup {t}
        /\ f.stacks[t] = stack /\ \A x \in DOMAIN d.stacks \ {t} : f.stacks[x] = d.stacks[x]
    <3>1. IsDoc(f)
      BY ONLY <2>1, PlacedDoc
    <3>2. /\ DOMAIN f.stacks = DOMAIN d.stacks \cup {t}
          /\ f.stacks[t] = stack /\ \A x \in DOMAIN d.stacks \ {t} : f.stacks[x] = d.stacks[x]
      BY ONLY <2>1 DEF IsDoc, Placed
    <3> QED BY <3>1, <3>2
  <2> HIDE DEF f
  <2> QED BY <2>2
<1> HIDE DEF f
<1>5. DOMAIN e.stacks = DOMAIN f.stacks \ {s} /\ \A x \in DOMAIN f.stacks \ {s} : e.stacks[x] = f.stacks[x]
  BY <1>4, RemovedDoc
<1> HIDE DEF e
<1> QED BY <1>1, <1>3, <1>4, <1>5

LEMMA MovedOnce ==
  ASSUME NEW d, IsDoc(d), NEW b, NEW s, NEW t, Once(d), Asunder(d, b, {})
  PROVE  Once(Moved(d, s, t)) /\ Asunder(Moved(d, s, t), b, {})
<1> DEFINE e == Moved(d, s, t)
<1>1. CASE ~({s, t} \subseteq DOMAIN d.stacks)
  BY <1>1 DEF Moved
<1>2. CASE {s, t} \subseteq DOMAIN d.stacks
  <2>1. /\ DOMAIN e.stacks = DOMAIN d.stacks \ {s}
        /\ \A x \in DOMAIN e.stacks \ {t} : e.stacks[x] = d.stacks[x]
        /\ t \in DOMAIN e.stacks => e.stacks[t].cards = d.stacks[t].cards \o d.stacks[s].cards
    BY <1>2, MovedStacks
  <2>2. s \in DOMAIN d.stacks /\ t \in DOMAIN d.stacks /\ d.stacks[t].cards \in Seq(Nat) /\ d.stacks[s].cards \in Seq(Nat)
    BY <1>2 DEF IsDoc
  <2>3. /\ \A x \in DOMAIN e.stacks \ {t} : Lies(e, x) = Lies(d, x)
        /\ t \in DOMAIN e.stacks => Lies(e, t) = Lies(d, t) \cup Lies(d, s)
    BY <2>1, <2>2, Concatenation DEF Lies
  <2>4. t \in DOMAIN e.stacks => t # s /\ Inj(e.stacks[t].cards)
    <3> SUFFICES ASSUME t \in DOMAIN e.stacks PROVE t # s /\ Inj(e.stacks[t].cards)
      OBVIOUS
    <3> HIDE DEF e
    <3>1. t # s
      BY <2>1
    <3>2. Inj(d.stacks[t].cards) /\ Inj(d.stacks[s].cards) /\ IDs(d.stacks[t].cards) \cap IDs(d.stacks[s].cards) = {}
      BY <2>2, <3>1 DEF Once, Lies
    <3>3. Inj(d.stacks[t].cards \o d.stacks[s].cards)
      BY <2>2, <3>2, Concatenation
    <3> QED BY <2>1, <3>1, <3>3
  <2>5. \A x \in DOMAIN e.stacks \ {t} : Inj(e.stacks[x].cards)
    BY <2>1 DEF Once
  <2> HIDE DEF e
  <2>6. Once(e)
    <3>1. ASSUME NEW x \in DOMAIN e.stacks, NEW y \in DOMAIN e.stacks, x # y
          PROVE  Lies(e, x) \cap Lies(e, y) = {}
      <4>1. /\ x \in DOMAIN d.stacks /\ y \in DOMAIN d.stacks /\ x # s /\ y # s
            /\ Lies(d, x) \cap Lies(d, y) = {} /\ Lies(d, x) \cap Lies(d, s) = {} /\ Lies(d, s) \cap Lies(d, y) = {}
        BY <2>1, <2>2, <3>1 DEF Once
      <4> QED BY <2>3, <3>1, <4>1
    <3> QED BY <2>4, <2>5, <3>1 DEF Once
  <2>7. Asunder(e, b, {})
    <3> SUFFICES ASSUME NEW x \in DOMAIN e.stacks, NEW y \in DOMAIN e.stacks \cap DOMAIN b.stacks, x # y
                 PROVE  Lies(e, x) \cap Lies(b, y) = {}
      BY DEF Asunder
    <3>1. /\ x \in DOMAIN d.stacks /\ y \in DOMAIN d.stacks \cap DOMAIN b.stacks /\ y # s
          /\ Lies(d, x) \cap Lies(b, y) = {} /\ Lies(d, s) \cap Lies(b, y) = {}
      BY <2>1, <2>2 DEF Asunder
    <3> QED BY <2>3, <3>1
  <2> QED BY <2>6, <2>7 DEF e
<1> QED BY <1>1, <1>2

\* The answer of a split, patched in.
LEMMA PatchedOnce ==
  ASSUME NEW d, NEW b, NEW e, NEW s, NEW n \in DOMAIN b.stacks, Once(b), Once(d), Asunder(d, b, {s, n}),
         DOMAIN e.stacks \ {s, n} = DOMAIN d.stacks \ {s, n},
         DOMAIN e.stacks \cap {s, n} \subseteq DOMAIN b.stacks,
         \A x \in DOMAIN d.stacks \ {s, n} : e.stacks[x] = d.stacks[x],
         \A x \in DOMAIN e.stacks \cap {s, n} : e.stacks[x] = b.stacks[x]
  PROVE  Once(e) /\ Asunder(e, b, {})
<1>1. ASSUME NEW x \in DOMAIN e.stacks, NEW y \in DOMAIN b.stacks, y \in DOMAIN e.stacks, x # y
      PROVE  Lies(e, x) \cap Lies(b, y) = {}
  <2>1. CASE x \in {s, n}
    BY <1>1, <2>1 DEF Once, Lies
  <2>2. CASE x \notin {s, n}
    <3>1. x \in DOMAIN d.stacks \ {s, n} /\ y \in (DOMAIN d.stacks \cup {s, n}) \cap DOMAIN b.stacks
      BY <1>1, <2>2
    <3>2. Lies(d, x) \cap Lies(b, y) = {}
      BY <1>1, <3>1 DEF Asunder
    <3> QED BY <3>1, <3>2 DEF Lies
  <2> QED BY <2>1, <2>2
<1>2. ASSUME NEW x \in DOMAIN e.stacks, NEW y \in DOMAIN e.stacks, x # y
      PROVE  Lies(e, x) \cap Lies(e, y) = {}
  <2>1. CASE y \in {s, n}
    <3>1. y \in DOMAIN b.stacks /\ Lies(e, y) = Lies(b, y)
      BY <2>1 DEF Lies
    <3> QED BY <1>1, <1>2, <3>1
  <2>2. CASE x \in {s, n}
    <3>1. x \in DOMAIN b.stacks /\ Lies(e, x) = Lies(b, x)
      BY <2>2 DEF Lies
    <3>2. Lies(e, y) \cap Lies(b, x) = {}
      BY <1>1, <1>2, <3>1
    <3> QED BY <3>1, <3>2
  <2>3. CASE x \notin {s, n} /\ y \notin {s, n}
    BY <1>2, <2>3 DEF Once, Lies
  <2> QED BY <2>1, <2>2, <2>3
<1>3. ASSUME NEW x \in DOMAIN e.stacks
      PROVE  Inj(e.stacks[x].cards)
  BY DEF Once
<1> QED BY <1>1, <1>2, <1>3 DEF Once, Asunder

---------------------------------------------------------------------------
(* What keeps a card from being shown twice.  With one user the document     *)
(* shown may be behind the server's, but each card lies in it where the      *)
(* server has it or in a stack the server has no longer.                     *)

Undisturbed == foreign = 0 /\ "late" \notin astray
Settled == busy => call.at \in {"sent", "conflict", "refused"} \/ (call.at = "ok" /\ call.cmd = "move")

Loaded == foreign = 0 /\ busy /\ call.at \in {"ok", "refreshing", "reloading"} => call.doc = board
ShownOnce == Undisturbed => Once(shown)
Kept == Undisturbed /\ Settled => Asunder(shown, board, {})
Halves ==
  Undisturbed /\ busy /\ call.at = "ok" /\ call.cmd = "split" => Asunder(shown, board, {call.stack, call.new})
Held ==
  /\ Undisturbed /\ drag # None /\ drag.stack \in DOMAIN board.stacks => drag.stack \in DOMAIN shown.stacks
  /\ Undisturbed /\ busy /\ call.at = "sent" /\ call.cmd = "split" /\ call.stack \in DOMAIN board.stacks
       => call.stack \in DOMAIN shown.stacks

Sight == foreign \in Nat /\ Loaded /\ ShownOnce /\ Kept /\ Halves /\ Held

LEMMA SightHolds == Init => Sight
<1> SUFFICES ASSUME Init PROVE Sight
  OBVIOUS
<1>1. P!Sound(board, {})
  BY InvHolds DEF Inv, Docs
<1>2. Once(board) /\ Asunder(board, board, {})
  BY <1>1, SoundOnce
<1>3. shown = board /\ drag = None /\ ~busy /\ foreign = 0
  BY DEF Init, busy
<1> QED BY <1>2, <1>3 DEF Sight, Loaded, ShownOnce, Kept, Halves, Held

\* A step that leaves both documents and the command alone.
LEMMA SightKept ==
  ASSUME Sight, UNCHANGED <<board, shown, call, foreign, astray>>,
         drag' = drag \/ drag' = None \/ drag'.stack \in DOMAIN shown.stacks
  PROVE  Sight'
<1>1. Undisturbed' <=> Undisturbed
  BY DEF Undisturbed
<1>2. Loaded' /\ ShownOnce' /\ Kept' /\ Halves'
  BY <1>1 DEF Sight, Loaded, ShownOnce, Kept, Halves, Settled, busy
<1>3. Held'
  BY <1>1 DEF Sight, Held, busy
<1> QED BY <1>2, <1>3 DEF Sight

\* Nothing is under way any more, or a command has just been sent.
LEMMA SightSent ==
  ASSUME foreign' \in Nat, drag' = None, busy' => DOMAIN call' = CallFields /\ call'.at = "sent",
         Undisturbed' => Once(shown') /\ Asunder(shown', board', {}),
         Undisturbed' /\ busy' /\ call'.cmd = "split" /\ call'.stack \in DOMAIN board'.stacks
           => call'.stack \in DOMAIN shown'.stacks
  PROVE  Sight'
BY DEF Sight, Loaded, ShownOnce, Kept, Halves, Held

\* The board is shown as the server has it.
LEMMA SightAfresh ==
  ASSUME Inv', foreign' \in Nat, Undisturbed' => shown' = board', Loaded'
  PROVE  Sight'
<1>1. P!Sound(board, {})'
  BY DEF Inv, Docs
<1>2. Once(board') /\ \A X : Asunder(board', board', X)
  BY <1>1, SoundOnce
<1> QED BY <1>2 DEF Sight, ShownOnce, Kept, Halves, Held

LEMMA PressSight ==
  ASSUME Sight, NEW p \in Pointers, NEW s \in DOMAIN shown.stacks, NEW i \in 1..8, onStackPointerDown(p, s, i)
  PROVE  Sight'
<1>1. UNCHANGED <<board, shown, call, foreign, astray>>
  BY DEF onStackPointerDown, others
<1>2. drag' = None \/ drag'.stack = s
  BY DEF onStackPointerDown
<1> QED BY <1>1, <1>2, SightKept

LEMMA CommandFields ==
  ASSUME NEW cmd, NEW s, NEW t, NEW i, NEW cards, NEW lifts, NEW doc,
         call' = Command(cmd, s, t, i, cards, lifts, doc)
  PROVE  DOMAIN call' = CallFields /\ call'.at = "sent" /\ call'.cmd = cmd /\ call'.stack = s
<1> DEFINE c == Command(cmd, s, t, i, cards, lifts, doc)
<1>1. DOMAIN c = CallFields /\ c.at = "sent" /\ c.cmd = cmd /\ c.stack = s
  BY ONLY TRUE DEF Command, CallFields
<1>2. call' = c
  OBVIOUS
<1> HIDE DEF c
<1> QED BY <1>1, <1>2

LEMMA ReleaseSight ==
  ASSUME Inv, Sight, NEW p \in Pointers, onPointerUp(p)
  PROVE  Sight'
<1>1. Released(p)
  BY DEF onPointerUp, ClickInside, DropSplit, DropOnStack, DropOnBoard
<1>2. /\ ~busy /\ drag # None /\ drag' = None /\ UNCHANGED <<board, foreign, astray>>
      /\ foreign' \in Nat
  BY <1>1, ReleasedWhileIdle, GestureAssumption DEF Released, others, Sight, Dragging, Holder
<1>3. Undisturbed' <=> Undisturbed
  BY <1>2 DEF Undisturbed
<1>4. Undisturbed => Once(shown) /\ Asunder(shown, board, {})
  BY <1>2 DEF Sight, ShownOnce, Kept, Settled
<1>5. IsDoc(shown)
  BY DEF Inv, Docs, Known
<1>6. Undisturbed /\ drag.stack \in DOMAIN board.stacks => drag.stack \in DOMAIN shown.stacks
  BY <1>2 DEF Sight, Held
<1>7. CASE ClickInside(p) \/ (DropOnBoard(p) /\ ~moved)
  <2>1. UNCHANGED <<shown, call>>
    BY <1>7 DEF ClickInside, DropOnBoard
  <2> QED BY <1>2, <2>1, SightKept
<1>8. CASE DropSplit(p)
  <2> DEFINE t == IF hint = drag.stack THEN None ELSE hint
             cards == IF Source = <<>> THEN {} ELSE IDs(splitCardIDs(Source, drag.index).dragged)
  <2>1. shown' = shown /\ call' = Command("split", drag.stack, t, drag.index, cards, drag.stack, shown)
    BY <1>8 DEF DropSplit
  <2> HIDE DEF t, cards
  <2>2. DOMAIN call' = CallFields /\ call'.at = "sent" /\ call'.cmd = "split" /\ call'.stack = drag.stack
    BY <2>1, CommandFields
  <2> QED BY <1>2, <1>3, <1>4, <1>6, <2>1, <2>2, SightSent
<1>9. CASE DropOnBoard(p) /\ moved
  <2>1. shown' = shown /\ call' = Command("move", drag.stack, None, 0, {}, drag.stack, shown)
    BY <1>9 DEF DropOnBoard
  <2>2. DOMAIN call' = CallFields /\ call'.at = "sent" /\ call'.cmd = "move"
    BY <2>1, CommandFields
  <2> QED BY <1>2, <1>3, <1>4, <2>1, <2>2, SightSent
<1>10. CASE DropOnStack(p)
  <2>1. CASE isCollectDeck(hint)
    <3>1. /\ shown' = Removed(shown, drag.stack)
          /\ call' = Command("collect", drag.stack, None, 0, IDs(Source), None, shown)
      BY <1>10, <2>1 DEF DropOnStack
    <3>2. DOMAIN call' = CallFields /\ call'.at = "sent" /\ call'.cmd = "collect"
      BY <3>1, CommandFields
    <3>3. Undisturbed => Once(shown') /\ Asunder(shown', board, {})
      BY <1>4, <1>5, <3>1, RemovedOnce
    <3> QED BY <1>2, <1>3, <3>2, <3>3, SightSent
  <2>2. CASE ~isCollectDeck(hint)
    <3>1. /\ shown' = Moved(shown, drag.stack, hint)
          /\ call' = Command("merge", drag.stack, hint, 0, IDs(Source), None, shown)
      BY <1>10, <2>2 DEF DropOnStack
    <3>2. DOMAIN call' = CallFields /\ call'.at = "sent" /\ call'.cmd = "merge"
      BY <3>1, CommandFields
    <3>3. Undisturbed => Once(shown') /\ Asunder(shown', board, {})
      BY <1>4, <1>5, <3>1, MovedOnce
    <3> QED BY <1>2, <1>3, <3>2, <3>3, SightSent
  <2> QED BY <2>1, <2>2
<1> QED BY <1>7, <1>8, <1>9, <1>10 DEF onPointerUp

LEMMA ServeSight ==
  ASSUME Inv, Sight, Serve
  PROVE  Sight'
<1>1. /\ busy /\ call.at = "sent" /\ drag = None /\ DOMAIN call = CallFields
      /\ UNCHANGED <<shown, astray, drag, foreign>> /\ foreign' \in Nat
      /\ call.cmd \in {"split", "merge", "collect", "move"} /\ P!Sound(board, {})
  BY DEF Serve, gesturing, Inv, Docs, Calls, Sight
<1>2. Undisturbed' <=> Undisturbed
  BY <1>1 DEF Undisturbed
<1>3. Undisturbed => Once(shown) /\ Asunder(shown, board, {})
  BY <1>1 DEF Sight, ShownOnce, Kept, Settled
<1>4. ASSUME NEW at \in {"conflict", "refused"}, call' = [call EXCEPT !.at = at], UNCHANGED board
      PROVE  Sight'
  <2>1. DOMAIN call' = CallFields /\ call'.at = at
    BY <1>1, <1>4 DEF CallFields
  <2> QED BY <1>1, <1>2, <1>3, <1>4, <2>1 DEF Sight, Loaded, ShownOnce, Kept, Halves, Held
<1>5. CASE /\ call.ver = board.nextZ /\ call.stack \in DOMAIN board.stacks /\ Runs
           /\ LET new == DOMAIN board'.stacks \ DOMAIN board.stacks IN
              call' = [call EXCEPT !.at = "ok", !.doc = board', !.new = IF new = {} THEN None ELSE CHOOSE n \in new : TRUE]
  <2> DEFINE added == DOMAIN board'.stacks \ DOMAIN board.stacks
             new == IF added = {} THEN None ELSE CHOOSE n \in added : TRUE
             s == call.stack
  <2>1. /\ DOMAIN call' = CallFields /\ call'.at = "ok" /\ call'.doc = board' /\ call'.new = new
        /\ call'.cmd = call.cmd /\ call'.stack = s
    BY <1>1, <1>5 DEF CallFields
  <2>2. Loaded' /\ ShownOnce' /\ Held'
    BY <1>1, <1>2, <1>3, <2>1 DEF Loaded, ShownOnce, Held
  <2>3. CASE call.cmd = "split"
    <3> DEFINE n == board.nextZ + 1
    <3>1. Server!StackSplit(s, call.index)
      BY <1>5, <2>3 DEF Runs
    <3>2. /\ added = {n} /\ SameBut(board, board', {s, n})
          /\ \A x \in {s, n} \cap DOMAIN board'.stacks : IDs(board'.stacks[x].cards) \subseteq IDs(board.stacks[s].cards)
      BY <1>1, <1>5, <3>1, ServedSplit
    <3>3. new = n
      BY <3>2
    <3> HIDE DEF added, new, n
    <3>4. ASSUME Undisturbed
          PROVE  Asunder(shown, board', {s, n})
      <4> SUFFICES ASSUME NEW x \in DOMAIN shown.stacks \ {s, n},
                          NEW y \in (DOMAIN shown.stacks \cup {s, n}) \cap DOMAIN board'.stacks, x # y
                   PROVE  Lies(shown, x) \cap Lies(board', y) = {}
        BY DEF Asunder
      <4>1. s \in DOMAIN shown.stacks /\ s \in DOMAIN board.stacks
        BY <1>1, <1>5, <2>3, <3>4 DEF Sight, Held
      <4>2. \A z \in DOMAIN shown.stacks \cap DOMAIN board.stacks : x # z => Lies(shown, x) \cap Lies(board, z) = {}
        BY <1>3, <3>4 DEF Asunder
      <4>3. CASE y \in {s, n}
        <5>1. Lies(board', y) \subseteq Lies(board, s)
          BY <3>2, <4>3 DEF Lies
        <5>2. Lies(shown, x) \cap Lies(board, s) = {}
          BY <4>1, <4>2
        <5> QED BY <5>1, <5>2
      <4>4. CASE y \notin {s, n}
        <5>1. y \in DOMAIN board.stacks /\ board'.stacks[y].cards = board.stacks[y].cards
          BY <3>2, <4>4 DEF SameBut
        <5> QED BY <4>2, <4>4, <5>1 DEF Lies
      <4> QED BY <4>3, <4>4
    <3>5. Halves'
      BY <1>1, <1>2, <2>1, <3>3, <3>4 DEF Halves
    <3>6. Kept'
      <4>1. busy'
        BY <2>1, CallIsBusy DEF busy
      <4> QED BY <2>1, <2>3, <4>1 DEF Kept, Settled
    <3> QED BY <1>1, <2>2, <3>5, <3>6 DEF Sight
  <2>4. CASE call.cmd = "move"
    <3>1. Server!StackBringToFront(s)
      BY <1>5, <2>4 DEF Runs
    <3>2. SameCards(board, board')
      BY <1>1, <1>5, <3>1, ServedRaise
    <3>3. Undisturbed => Asunder(shown, board', {})
      <4>1. /\ DOMAIN board'.stacks = DOMAIN board.stacks
            /\ \A y \in DOMAIN board'.stacks : Lies(board', y) = Lies(board, y)
        BY <3>2 DEF SameCards, SameBut, Lies
      <4> QED BY <1>3, <4>1 DEF Asunder
    <3> QED BY <1>1, <1>2, <2>1, <2>2, <2>4, <3>3 DEF Sight, Halves, Kept
  <2>5. CASE call.cmd \in {"merge", "collect"}
    <3>1. busy'
      BY <2>1, CallIsBusy DEF busy
    <3> QED BY <1>1, <2>1, <2>2, <2>5, <3>1 DEF Sight, Halves, Kept, Settled
  <2> QED BY <1>1, <2>3, <2>4, <2>5
<1> QED BY <1>4, <1>5 DEF Serve

LEMMA SplitAnsweredSight ==
  ASSUME Inv, Sight, SplitAnswered
  PROVE  Sight'
<1> DEFINE s == call.stack
           n == call.new
           doc == call.doc
           patched == Patched(shown, doc, s, n)
           cs == doc.stacks[n].cards
           t == call.target
<1>1. /\ busy /\ call.at = "ok" /\ call.cmd = "split" /\ UNCHANGED <<board, drag, foreign>>
      /\ astray' = astray \cup (call.astray \cap {"quiet"})
  BY DEF SplitAnswered, Answered, gesturing
<1>2. IF t \in DOMAIN shown.stacks /\ canMerge(t, cs)
      THEN IF isCollectDeck(t)
           THEN /\ shown' = Removed(patched, n)
                /\ call' = Command("collect", n, None, 0, IDs(cs), call.lifts, patched)
           ELSE /\ shown' = Moved(patched, n, t)
                /\ call' = Command("merge", n, t, 0, IDs(cs), call.lifts, patched)
      ELSE shown' = patched /\ call' = NoCall
  BY DEF SplitAnswered, Ends, Patched
<1>3. IsDoc(shown) /\ IsDoc(doc) /\ n \in DOMAIN doc.stacks
  BY <1>1 DEF Inv, Docs, Calls, Known
<1>4. drag' = None /\ foreign' \in Nat
  BY <1>1 DEF Inv, Calls, Sight
<1>5. Undisturbed' => Undisturbed
  BY <1>1 DEF Undisturbed
<1>6. Undisturbed => doc = board /\ Once(shown) /\ Once(board) /\ Asunder(shown, board, {s, n})
  BY <1>1, SoundOnce DEF Sight, Loaded, ShownOnce, Halves, Undisturbed, Inv, Docs
<1> HIDE DEF s, n, doc, patched
<1>7. /\ IsDoc(patched)
      /\ DOMAIN patched.stacks \ {s, n} = DOMAIN shown.stacks \ {s, n}
      /\ DOMAIN patched.stacks \cap {s, n} = DOMAIN doc.stacks \cap {s, n}
      /\ \A x \in DOMAIN shown.stacks \ {s, n} : patched.stacks[x] = shown.stacks[x]
      /\ \A x \in DOMAIN doc.stacks \cap {s, n} : patched.stacks[x] = doc.stacks[x]
  BY <1>3, PatchedDoc DEF patched
<1>8. ASSUME Undisturbed
      PROVE  Once(patched) /\ Asunder(patched, board, {})
  BY <1>3, <1>6, <1>7, <1>8, PatchedOnce
<1>9. CASE t \in DOMAIN shown.stacks /\ canMerge(t, cs)
  <2>1. CASE isCollectDeck(t)
    <3>1. shown' = Removed(patched, n) /\ call' = Command("collect", n, None, 0, IDs(cs), call.lifts, patched)
      BY <1>2, <1>9, <2>1
    <3>2. DOMAIN call' = CallFields /\ call'.at = "sent" /\ call'.cmd = "collect"
      BY <3>1, CommandFields
    <3>3. Undisturbed' => Once(shown') /\ Asunder(shown', board', {})
      BY <1>1, <1>5, <1>7, <1>8, <3>1, RemovedOnce
    <3> QED BY <1>4, <3>2, <3>3, SightSent
  <2>2. CASE ~isCollectDeck(t)
    <3>1. shown' = Moved(patched, n, t) /\ call' = Command("merge", n, t, 0, IDs(cs), call.lifts, patched)
      BY <1>2, <1>9, <2>2
    <3>2. DOMAIN call' = CallFields /\ call'.at = "sent" /\ call'.cmd = "merge"
      BY <3>1, CommandFields
    <3>3. Undisturbed' => Once(shown') /\ Asunder(shown', board', {})
      BY <1>1, <1>5, <1>7, <1>8, <3>1, MovedOnce
    <3> QED BY <1>4, <3>2, <3>3, SightSent
  <2> QED BY <2>1, <2>2
<1>10. CASE ~(t \in DOMAIN shown.stacks /\ canMerge(t, cs))
  <2>1. shown' = patched /\ call' = NoCall
    BY <1>2, <1>10
  <2>2. ~busy'
    BY <2>1 DEF busy
  <2>3. Undisturbed' => Once(shown') /\ Asunder(shown', board', {})
    BY <1>1, <1>5, <1>8, <2>1
  <2> QED BY <1>4, <2>2, <2>3, SightSent
<1> QED BY <1>9, <1>10

LEMMA AnswersSight ==
  ASSUME Inv, Inv', Sight, MoveAnswered \/ LoadStarts \/ Refreshed \/ Reloaded \/ Throws
  PROVE  Sight'
<1>1. /\ busy /\ drag = None /\ DOMAIN call = CallFields /\ UNCHANGED <<board, drag, foreign>>
      /\ foreign' \in Nat /\ IsDoc(shown)
  BY DEF Inv, Docs, Calls, Known, Sight, MoveAnswered, LoadStarts, Refreshed, Reloaded, Throws, Answered, gesturing
<1>2. CASE MoveAnswered \/ Throws
  <2>1. ~busy'
    BY <1>2 DEF MoveAnswered, Throws, Ends, busy
  <2>2. Undisturbed' => Undisturbed
    BY <1>1, <1>2 DEF Undisturbed, MoveAnswered, Throws
  <2>3. Undisturbed => Once(shown) /\ Asunder(shown, board, {})
    BY <1>1, <1>2 DEF Sight, ShownOnce, Kept, Settled, MoveAnswered, Throws, Answered
  <2>4. shown'.stacks = shown.stacks
    BY <1>1, <1>2 DEF MoveAnswered, Throws, IsDoc
  <2>5. Undisturbed' => Once(shown') /\ Asunder(shown', board', {})
    BY <1>1, <2>2, <2>3, <2>4, SameOnce
  <2> QED BY <1>1, <2>1, <2>5, SightSent
<1>3. CASE LoadStarts
  <2> DEFINE at == IF call.at = "ok" THEN "refreshing" ELSE "reloading"
  <2>1. /\ UNCHANGED astray /\ call' = [call EXCEPT !.at = at, !.doc = board, !.astray = {}]
        /\ shown' = shown \/ shown' = [shown EXCEPT !.nextZ = call.doc.nextZ]
    BY <1>3 DEF LoadStarts, Answered
  <2>2. DOMAIN call' = CallFields /\ call'.at = at /\ call'.doc = board
    BY <1>1, <2>1 DEF CallFields
  <2>3. busy'
    BY <2>2, CallIsBusy DEF busy
  <2>4. shown'.stacks = shown.stacks
    BY <1>1, <2>1 DEF IsDoc
  <2>5. Undisturbed' => Once(shown')
    BY <1>1, <2>1, <2>4, SameOnce DEF Undisturbed, Sight, ShownOnce
  <2> QED BY <1>1, <2>2, <2>3, <2>5 DEF Sight, Loaded, ShownOnce, Kept, Settled, Halves, Held
<1>4. CASE Refreshed \/ Reloaded
  <2>1. call.at \in {"refreshing", "reloading"} /\ shown' = call.doc
    BY <1>4 DEF Refreshed, Reloaded, Answered
  <2>2. Undisturbed' => shown' = board'
    BY <1>1, <2>1 DEF Undisturbed, Sight, Loaded
  <2>3. busy' => call'.at = "sent"
    BY <1>1, <1>4 DEF Refreshed, Reloaded, Ends, busy, CallFields
  <2>4. Loaded'
    BY <2>3 DEF Loaded
  <2> QED BY <1>1, <2>2, <2>4, SightAfresh
<1> QED BY <1>2, <1>3, <1>4

LEMMA PollsSight ==
  ASSUME Inv, Inv', Sight, PollServed \/ PollShown
  PROVE  Sight'
<1>1. CASE PollServed
  BY <1>1, SightKept DEF PollServed, gesturing
<1>2. CASE PollShown
  <2>1. UNCHANGED <<board, call, foreign>> /\ (Undisturbed' => shown' = board')
    BY <1>2 DEF PollShown, gesturing, Undisturbed
  <2>2. Loaded'
    BY <2>1 DEF Sight, Loaded, busy
  <2> QED BY <2>1, <2>2, SightAfresh DEF Sight
<1> QED BY <1>1, <1>2

LEMMA SightStep ==
  ASSUME Inv, Inv', Sight, [Next]_vars
  PROVE  Sight'
<1>1. CASE UNCHANGED vars
  BY <1>1, SightKept DEF vars
<1>2. CASE \E p \in Pointers, s \in DOMAIN shown.stacks, i \in 1..8 : onStackPointerDown(p, s, i)
  BY <1>2, PressSight
<1>3. ASSUME NEW p \in Pointers, onBoardPointerDown(p) \/ onPointerMove(p) \/ EndPan(p) \/ onPointerCancel(p)
      PROVE  Sight'
  BY <1>3, SightKept DEF onBoardPointerDown, onPointerMove, EndPan, onPointerCancel, others
<1>4. CASE \E p \in Pointers : onPointerUp(p)
  BY <1>4, ReleaseSight
<1>5. CASE Serve \/ SplitAnswered \/ MoveAnswered \/ LoadStarts \/ Refreshed \/ Reloaded \/ Throws
  BY <1>5, ServeSight, SplitAnsweredSight, AnswersSight
<1>6. CASE PollServed \/ PollShown
  BY <1>6, PollsSight
<1>7. CASE OtherUser
  <2>1. foreign' \in Nat /\ foreign' # 0
    BY <1>7 DEF OtherUser, Sight
  <2> QED BY <2>1 DEF Sight, Loaded, ShownOnce, Kept, Halves, Held, Undisturbed
<1> QED BY <1>1, <1>2, <1>3, <1>4, <1>5, <1>6, <1>7 DEF Next

---------------------------------------------------------------------------
(* Documents within the bounds of the first board, and what is drawn.        *)

Full(d) ==
  /\ DOMAIN d.stacks \subseteq 0..MaxZ
  /\ \A s \in DOMAIN d.stacks : d.stacks[s].cards # <<>> /\ IDs(d.stacks[s].cards) \subseteq DOMAIN FirstBoard.cards

Within == board.nextZ <= MaxZ /\ DOMAIN board.cards \subseteq DOMAIN FirstBoard.cards
FullDocs ==
  /\ Full(shown) /\ (poll # None => Full(poll))
  /\ busy /\ call.at \in {"ok", "refreshing", "reloading"} => Full(call.doc)
Drawn ==
  /\ moved \in BOOLEAN /\ pan \in Pointers \cup {None}
  /\ positions \subseteq 0..MaxZ /\ hint \in 0..MaxZ \cup {None}
  /\ drag # None => drag.stack \in 0..MaxZ

Fits == Within /\ FullDocs /\ Drawn

LEMMA SoundFull ==
  ASSUME NEW b, P!Sound(b, {}), b.nextZ <= MaxZ, DOMAIN b.cards \subseteq DOMAIN FirstBoard.cards
  PROVE  Full(b)
<1>1. P!WellFormed(b) /\ \A s \in DOMAIN b.stacks : b.stacks[s].cards # <<>>
  BY DEF P!Sound, P!PlacedBut
<1>2. DOMAIN b.stacks \subseteq 11..b.nextZ /\ b.nextZ \in Nat /\ MaxZ \in Nat
  BY <1>1, GestureAssumption DEF P!WellFormed
<1>3. DOMAIN b.stacks \subseteq 0..MaxZ
  BY <1>2
<1>4. ASSUME NEW s \in DOMAIN b.stacks
      PROVE  IDs(b.stacks[s].cards) \subseteq DOMAIN FirstBoard.cards
  <2>1. P!CardsOf(b, s) \subseteq DOMAIN b.cards
    BY <1>1, P!CardsInTable, ServerBounds
  <2>2. P!CardsOf(b, s) = IDs(b.stacks[s].cards)
    BY DEF P!CardsOf, P!Range, IDs
  <2> QED BY <2>1, <2>2
<1> QED BY <1>1, <1>3, <1>4 DEF Full

LEMMA FitsHolds == Init => Fits
<1> SUFFICES ASSUME Init PROVE Fits
  OBVIOUS
<1>1. P!Sound(board, {}) /\ board = FirstBoard /\ shown = board /\ poll = None /\ ~busy
  BY InvHolds DEF Init, Inv, Docs, busy
<1>2. Within
  BY <1>1, GestureAssumption DEF Within
<1>3. Full(shown)
  BY <1>1, <1>2, SoundFull DEF Within
<1>4. Drawn
  BY DEF Init, Drawn
<1> QED BY <1>1, <1>2, <1>3, <1>4 DEF Fits, FullDocs

LEMMA RemovedFull ==
  ASSUME NEW d, IsDoc(d), Full(d), NEW s
  PROVE  Full(Removed(d, s))
<1> DEFINE e == Removed(d, s)
<1>1. DOMAIN e.stacks = DOMAIN d.stacks \ {s} /\ \A x \in DOMAIN d.stacks \ {s} : e.stacks[x] = d.stacks[x]
  BY RemovedDoc
<1> HIDE DEF e
<1>2. Full(e)
  BY <1>1 DEF Full
<1> QED BY <1>2 DEF e

LEMMA MovedFull ==
  ASSUME NEW d, IsDoc(d), Full(d), NEW s, NEW t
  PROVE  Full(Moved(d, s, t))
<1> DEFINE e == Moved(d, s, t)
<1>1. CASE ~({s, t} \subseteq DOMAIN d.stacks)
  BY <1>1 DEF Moved
<1>2. CASE {s, t} \subseteq DOMAIN d.stacks
  <2>1. /\ DOMAIN e.stacks = DOMAIN d.stacks \ {s}
        /\ \A x \in DOMAIN e.stacks \ {t} : e.stacks[x] = d.stacks[x]
        /\ t \in DOMAIN e.stacks => e.stacks[t].cards = d.stacks[t].cards \o d.stacks[s].cards
    BY <1>2, MovedStacks
  <2>2. s \in DOMAIN d.stacks /\ t \in DOMAIN d.stacks /\ d.stacks[t].cards \in Seq(Nat) /\ d.stacks[s].cards \in Seq(Nat)
    BY <1>2 DEF IsDoc
  <2> HIDE DEF e
  <2>3. t \in DOMAIN e.stacks => e.stacks[t].cards # <<>> /\ IDs(e.stacks[t].cards) \subseteq DOMAIN FirstBoard.cards
    <3>1. /\ IDs(d.stacks[t].cards) \subseteq DOMAIN FirstBoard.cards /\ d.stacks[t].cards # <<>>
          /\ IDs(d.stacks[s].cards) \subseteq DOMAIN FirstBoard.cards
      BY <2>2 DEF Full
    <3>2. LET cs == d.stacks[t].cards \o d.stacks[s].cards
          IN  cs # <<>> /\ IDs(cs) = IDs(d.stacks[t].cards) \cup IDs(d.stacks[s].cards)
      BY <2>2, <3>1, Concatenation
    <3> QED BY <2>1, <3>1, <3>2
  <2>4. Full(e)
    BY <2>1, <2>3 DEF Full
  <2> QED BY <2>4 DEF e
<1> QED BY <1>1, <1>2

LEMMA PatchedFull ==
  ASSUME NEW d, IsDoc(d), Full(d), NEW e, IsDoc(e), Full(e), NEW s, NEW n \in DOMAIN e.stacks
  PROVE  Full(Patched(d, e, s, n))
<1> DEFINE p == Patched(d, e, s, n)
<1>1. /\ DOMAIN p.stacks \ {s, n} = DOMAIN d.stacks \ {s, n}
      /\ DOMAIN p.stacks \cap {s, n} = DOMAIN e.stacks \cap {s, n}
      /\ \A x \in DOMAIN d.stacks \ {s, n} : p.stacks[x] = d.stacks[x]
      /\ \A x \in DOMAIN e.stacks \cap {s, n} : p.stacks[x] = e.stacks[x]
  BY PatchedDoc
<1> HIDE DEF p
<1>2. ASSUME NEW x \in DOMAIN p.stacks
      PROVE  (x \in DOMAIN d.stacks /\ p.stacks[x] = d.stacks[x]) \/ (x \in DOMAIN e.stacks /\ p.stacks[x] = e.stacks[x])
  BY <1>1
<1>3. Full(p)
  BY <1>2 DEF Full
<1> QED BY <1>3 DEF p

LEMMA SameFull ==
  ASSUME NEW d, NEW e, d.stacks = e.stacks
  PROVE  Full(d) <=> Full(e)
BY DEF Full

\* What is drawn after a step that only puts stacks back in their places.
LEMMA DrawnKept ==
  ASSUME Drawn, UNCHANGED moved, pan' \in {pan, None}, positions' \subseteq positions,
         hint' \in {hint, None}, drag' \in {drag, None}
  PROVE  Drawn'
BY DEF Drawn

LEMMA PointersDrawn ==
  ASSUME Fits, NEW p \in Pointers,
         \/ \E s \in DOMAIN shown.stacks, i \in 1..8 : onStackPointerDown(p, s, i)
         \/ onBoardPointerDown(p) \/ onPointerMove(p) \/ onPointerUp(p) \/ EndPan(p) \/ onPointerCancel(p)
  PROVE  Drawn'
<1>1. CASE \E s \in DOMAIN shown.stacks, i \in 1..8 : onStackPointerDown(p, s, i)
  <2>1. PICK s \in DOMAIN shown.stacks, i \in 1..8 : onStackPointerDown(p, s, i)
    BY <1>1
  <2>2. s \in 0..MaxZ
    BY DEF Fits, FullDocs, Full
  <2>3. CASE isDeckLike(TopDef(Cards(s)))
    BY <2>1, <2>3 DEF onStackPointerDown, Fits, Drawn
  <2>4. CASE ~isDeckLike(TopDef(Cards(s)))
    <3>1. pan' = None /\ moved' = FALSE /\ hint' = None /\ positions' = positions \cup {s} /\ drag'.stack = s
      BY <2>1, <2>4 DEF onStackPointerDown
    <3> QED BY <2>2, <3>1 DEF Fits, Drawn
  <2> QED BY <2>3, <2>4
<1>2. CASE onBoardPointerDown(p)
  BY <1>2 DEF onBoardPointerDown, Fits, Drawn
<1>3. CASE onPointerMove(p)
  <2>1. drag # None
    BY <1>3, GestureAssumption DEF onPointerMove, Dragging, Holder
  <2>2. Targets \subseteq 0..MaxZ
    BY DEF Targets, Fits, FullDocs, Full
  <2>3. /\ positions' = positions \cup {drag.stack} /\ moved' \in {moved, TRUE} /\ hint' \in Targets \cup {None}
        /\ UNCHANGED <<drag, pan>>
    BY <1>3 DEF onPointerMove
  <2> QED BY <2>1, <2>2, <2>3 DEF Fits, Drawn
<1>4. CASE onPointerUp(p)
  <2>1. Released(p) /\ positions' \subseteq positions
    BY <1>4 DEF onPointerUp, ClickInside, DropSplit, DropOnStack, DropOnBoard
  <2> QED BY <2>1, DrawnKept DEF Released, Fits
<1>5. CASE EndPan(p)
  BY <1>5, DrawnKept DEF EndPan, Fits
<1>6. CASE onPointerCancel(p)
  BY <1>6 DEF onPointerCancel, Fits, Drawn
<1> QED BY <1>1, <1>2, <1>3, <1>4, <1>5, <1>6

LEMMA ReleaseFits ==
  ASSUME Inv, Fits, NEW p \in Pointers, onPointerUp(p)
  PROVE  Within' /\ FullDocs'
<1>1. Released(p)
  BY DEF onPointerUp, ClickInside, DropSplit, DropOnStack, DropOnBoard
<1>2. ~busy /\ UNCHANGED <<board, poll>>
  BY <1>1, ReleasedWhileIdle
<1>3. IsDoc(shown) /\ Full(shown)
  BY DEF Inv, Docs, Known, Fits, FullDocs
<1>4. busy' => call'.at = "sent"
  <2>1. UNCHANGED call \/ \E cmd, t, i, cards, lifts : call' = Command(cmd, drag.stack, t, i, cards, lifts, shown)
    BY DEF onPointerUp, ClickInside, DropSplit, DropOnStack, DropOnBoard
  <2>2. ASSUME NEW cmd, NEW t, NEW i, NEW cards, NEW lifts, call' = Command(cmd, drag.stack, t, i, cards, lifts, shown)
        PROVE  call'.at = "sent"
    BY <2>2, CommandFields
  <2> QED BY <1>2, <2>1, <2>2 DEF busy
<1>5. shown' = shown \/ shown' = Removed(shown, drag.stack) \/ shown' = Moved(shown, drag.stack, hint)
  BY DEF onPointerUp, ClickInside, DropSplit, DropOnStack, DropOnBoard
<1>6. Full(shown')
  BY <1>3, <1>5, RemovedFull, MovedFull
<1> QED BY <1>2, <1>4, <1>6 DEF Fits, Within, FullDocs

LEMMA ServeFits ==
  ASSUME Inv, Inv', Fits, Serve
  PROVE  Within' /\ FullDocs'
<1>1. /\ busy /\ DOMAIN call = CallFields /\ UNCHANGED <<shown, poll>> /\ P!Sound(board, {}) /\ P!Sound(board', {})
      /\ call.cmd \in {"split", "merge", "collect", "move"}
  BY DEF Serve, Inv, Docs, Calls
<1>2. ASSUME NEW at \in {"conflict", "refused"}, call' = [call EXCEPT !.at = at], UNCHANGED board
      PROVE  Within' /\ FullDocs'
  <2>1. call'.at = at
    BY <1>1, <1>2 DEF CallFields
  <2> QED BY <1>1, <1>2, <2>1 DEF Fits, Within, FullDocs
<1>3. CASE /\ call.stack \in DOMAIN board.stacks /\ Runs
           /\ LET new == DOMAIN board'.stacks \ DOMAIN board.stacks IN
              call' = [call EXCEPT !.at = "ok", !.doc = board', !.new = IF new = {} THEN None ELSE CHOOSE n \in new : TRUE]
  <2>1. Spent
    BY <1>1, <1>3, ServedSplit, ServedMerge, ServedCollect, ServedRaise DEF Runs
  <2>2. Within'
    BY <2>1 DEF Spent, Fits, Within
  <2>3. Full(board')
    BY <1>1, <2>2, SoundFull DEF Within
  <2>4. call'.doc = board'
    BY <1>1, <1>3 DEF CallFields
  <2> QED BY <1>1, <2>2, <2>3, <2>4 DEF Fits, FullDocs
<1> QED BY <1>2, <1>3 DEF Serve

LEMMA SplitAnsweredFits ==
  ASSUME Inv, Fits, SplitAnswered
  PROVE  Within' /\ FullDocs'
<1> DEFINE s == call.stack
           n == call.new
           doc == call.doc
           patched == Patched(shown, doc, s, n)
           cs == doc.stacks[n].cards
           t == call.target
<1>1. busy /\ call.at = "ok" /\ call.cmd = "split" /\ UNCHANGED <<board, poll>>
  BY DEF SplitAnswered, Answered
<1>2. \/ /\ shown' = Removed(patched, n)
         /\ call' = Command("collect", n, None, 0, IDs(cs), call.lifts, patched)
      \/ /\ shown' = Moved(patched, n, t)
         /\ call' = Command("merge", n, t, 0, IDs(cs), call.lifts, patched)
      \/ shown' = patched /\ call' = NoCall
  BY DEF SplitAnswered, Ends, Patched
<1>3. IsDoc(shown) /\ IsDoc(doc) /\ n \in DOMAIN doc.stacks /\ Full(shown) /\ Full(doc)
  BY <1>1 DEF Inv, Docs, Calls, Known, Fits, FullDocs
<1> HIDE DEF s, n, doc, patched
<1>4. IsDoc(patched) /\ Full(patched)
  BY <1>3, PatchedDoc, PatchedFull DEF patched
<1>5. Full(shown')
  BY <1>2, <1>4, RemovedFull, MovedFull
<1>6. busy' => call'.at = "sent"
  BY <1>2, CommandFields DEF busy
<1> QED BY <1>1, <1>5, <1>6 DEF Fits, Within, FullDocs

LEMMA AnswersFit ==
  ASSUME Inv, Fits, MoveAnswered \/ LoadStarts \/ Refreshed \/ Reloaded \/ Throws
  PROVE  Within' /\ FullDocs'
<1>1. busy /\ DOMAIN call = CallFields /\ UNCHANGED <<board, poll>> /\ IsDoc(shown) /\ P!Sound(board, {})
  BY DEF Inv, Docs, Calls, Known, MoveAnswered, LoadStarts, Refreshed, Reloaded, Throws, Answered
<1>2. Full(board)
  BY <1>1, SoundFull DEF Fits, Within
<1>3. Full(shown')
  <2>1. CASE MoveAnswered \/ LoadStarts \/ Throws
    <3>1. shown'.stacks = shown.stacks
      BY <1>1, <2>1 DEF MoveAnswered, LoadStarts, Throws, IsDoc
    <3> QED BY <3>1, SameFull DEF Fits, FullDocs
  <2>2. CASE Refreshed \/ Reloaded
    BY <1>1, <2>2 DEF Refreshed, Reloaded, Answered, Fits, FullDocs
  <2> QED BY <2>1, <2>2
<1>4. busy' => call'.at = "sent" \/ call'.doc = board
  BY <1>1 DEF MoveAnswered, LoadStarts, Refreshed, Reloaded, Throws, Ends, busy, CallFields
<1> QED BY <1>1, <1>2, <1>3, <1>4 DEF Fits, Within, FullDocs

LEMMA OtherUserFits ==
  ASSUME Inv, Fits, OtherUser
  PROVE  Within' /\ FullDocs'
<1>1. P!Sound(board, {}) /\ UNCHANGED <<shown, poll>>
  BY DEF Inv, Docs, OtherUser
<1>2. Spent
  <2>1. CASE \E s, t \in DOMAIN board.stacks : s # t /\ Server!StackMerge(t, s)
    <3>1. PICK s \in DOMAIN board.stacks : \E t \in DOMAIN board.stacks : Server!StackMerge(t, s)
      BY <2>1
    <3>2. PICK t \in DOMAIN board.stacks : Server!StackMerge(t, s)
      BY <3>1
    <3> QED BY <1>1, <3>2, ServedMerge
  <2>2. CASE \E s \in DOMAIN board.stacks, i \in 0..8 : Server!StackSplit(s, i)
    <3>1. PICK s \in DOMAIN board.stacks : \E i \in 0..8 : Server!StackSplit(s, i)
      BY <2>2
    <3>2. PICK i \in 0..8 : Server!StackSplit(s, i)
      BY <3>1
    <3> QED BY <1>1, <3>2, ServedSplit
  <2> QED BY <2>1, <2>2 DEF OtherUser
<1>3. busy' => busy /\ call'.at = call.at /\ call'.doc = call.doc
  BY DEF OtherUser, Inv, Calls, CallFields, busy
<1> QED BY <1>1, <1>2, <1>3 DEF Fits, Within, Spent, FullDocs

LEMMA FitsStep ==
  ASSUME Inv, Inv', Fits, [Next]_vars
  PROVE  Fits'
<1>1. CASE UNCHANGED vars
  BY <1>1 DEF vars, Fits, Within, FullDocs, Drawn, busy
<1>2. ASSUME NEW p \in Pointers,
             \/ \E s \in DOMAIN shown.stacks, i \in 1..8 : onStackPointerDown(p, s, i)
             \/ onBoardPointerDown(p) \/ onPointerMove(p) \/ onPointerUp(p) \/ EndPan(p) \/ onPointerCancel(p)
      PROVE  Fits'
  <2>1. Drawn'
    BY <1>2, PointersDrawn
  <2>2. CASE onPointerUp(p)
    BY <2>1, <2>2, ReleaseFits DEF Fits
  <2>3. CASE ~onPointerUp(p)
    <3>1. UNCHANGED <<board, shown, call, poll>>
      BY <1>2, <2>3 DEF onStackPointerDown, onBoardPointerDown, onPointerMove, EndPan, onPointerCancel, others
    <3> QED BY <2>1, <3>1 DEF Fits, Within, FullDocs, busy
  <2> QED BY <2>2, <2>3
<1>3. CASE Serve \/ SplitAnswered \/ MoveAnswered \/ LoadStarts \/ Refreshed \/ Reloaded \/ Throws
  <2>1. Within' /\ FullDocs'
    BY <1>3, ServeFits, SplitAnsweredFits, AnswersFit
  <2>2. UNCHANGED <<drag, hint, moved, pan>> /\ positions' \subseteq positions
    BY <1>3 DEF Serve, SplitAnswered, MoveAnswered, LoadStarts, Refreshed, Reloaded, Throws, Answered, Ends, gesturing
  <2> QED BY <2>1, <2>2, DrawnKept DEF Fits
<1>4. CASE PollServed \/ PollShown
  <2>1. Full(board)
    BY SoundFull DEF Inv, Docs, Fits, Within
  <2>2. Drawn'
    BY <1>4, DrawnKept DEF PollServed, PollShown, gesturing, Fits
  <2> QED BY <1>4, <2>1, <2>2 DEF PollServed, PollShown, Fits, Within, FullDocs, busy
<1>5. CASE OtherUser
  <2>1. Drawn'
    BY <1>5, DrawnKept DEF OtherUser, Fits
  <2> QED BY <1>5, <2>1, OtherUserFits DEF Fits
<1> QED BY <1>1, <1>2, <1>3, <1>4, <1>5 DEF Next

---------------------------------------------------------------------------
\* As many cards as places.
LEMMA OnceCounted ==
  ASSUME NEW cs \in Seq(Nat), Inj(cs)
  PROVE  Cardinality(IDs(cs)) = Len(cs)
<1> DEFINE n == Len(cs)
           S == IDs(cs)
<1>1. n \in Nat /\ DOMAIN cs = 1..n /\ cs = [i \in 1..n |-> cs[i]]
  OBVIOUS
<1>2. cs \in [1..n -> S]
  BY <1>1 DEF IDs
<1>3. \A c \in S : \E i \in 1..n : cs[i] = c
  BY <1>1 DEF IDs
<1>4. cs \in P!Bijection(1..n, S)
  BY <1>1, <1>2, <1>3 DEF Inj, P!Bijection, P!Injection, P!Surjection, P!IsInjective
<1>5. P!ExistsBijection(1..n, S)
  BY <1>4 DEF P!ExistsBijection
<1> HIDE DEF n, S
<1>6. P!Cardinality(S) = n
  BY <1>1, <1>5, P!FS_CountingElements, ServerBounds
<1>7. P!Cardinality(S) = Cardinality(S)
  BY DEF P!Cardinality, Cardinality
<1> QED BY <1>6, <1>7 DEF n, S

(* With one user a card is never shown in two places, for every board to     *)
(* begin with, any pointers and any number of refusals, unless the answer of *)
(* a load was overtaken by a command (Data:613, Spatial:212-285).            *)
THEOREM CardsAreShownOnce == Spec => []CardsShownOnce
<1>1. Init => Inv /\ Sight /\ Fits
  BY InvHolds, SightHolds, FitsHolds
<1>2. Inv /\ Sight /\ Fits /\ [Next]_vars => Inv' /\ Sight' /\ Fits'
  BY InvKept, SightStep, FitsStep
<1>3. Inv /\ Sight /\ Fits => CardsShownOnce
  <2> SUFFICES ASSUME Inv, Sight, Fits PROVE CardsShownOnce
    OBVIOUS
  <2>1. Full(board) /\ Full(shown)
    BY SoundFull DEF Inv, Docs, Fits, Within, FullDocs
  <2>2. TypeOK
    BY <2>1 DEF TypeOK, Full, Fits, Drawn
  <2>3. ASSUME foreign = 0 /\ "late" \notin astray, NEW s \in DOMAIN shown.stacks
        PROVE  /\ Cardinality(IDs(Cards(s))) = Len(Cards(s))
               /\ \A t \in DOMAIN shown.stacks : s # t => IDs(Cards(s)) \cap IDs(Cards(t)) = {}
    <3>1. Once(shown)
      BY <2>3 DEF Sight, ShownOnce, Undisturbed
    <3>2. Cards(s) \in Seq(Nat) /\ Inj(Cards(s))
      BY <3>1 DEF Inv, Docs, Known, IsDoc, Once, Cards
    <3>3. Cardinality(IDs(Cards(s))) = Len(Cards(s))
      BY <3>2, OnceCounted
    <3>4. \A t \in DOMAIN shown.stacks : s # t => IDs(Cards(s)) \cap IDs(Cards(t)) = {}
      BY <3>1 DEF Once, Lies, Cards
    <3> QED BY <3>3, <3>4
  <2> QED BY <2>2, <2>3 DEF CardsShownOnce
<1> QED BY <1>1, <1>2, <1>3, PTL DEF Spec
===========================================================================
