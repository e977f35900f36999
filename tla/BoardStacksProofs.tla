------------------------- MODULE BoardStacksProofs -------------------------
(***************************************************************************)
(* The invariants of BoardStacks, for every set of commands and bound.     *)
(***************************************************************************)
EXTENDS BoardStacks, FiniteSetTheorems, SequenceTheorems, TLAPS

-----------------------------------------------------------------------------
(* Positions of a sequence *)

\* A nonempty set of naturals has a least element.
LEMMA LeastExists ==
  ASSUME NEW S \in SUBSET Nat, S # {}
  PROVE  \E m \in S : \A n \in S : m <= n
<1>1. IsWellFoundedOn(OpToRel(<, Nat), Nat)
  BY NatLessThanWellFounded
<1>2. \E m \in S : \A n \in S : ~(<<n, m>> \in OpToRel(<, Nat))
  BY <1>1, WFMin, Zenon
<1>3. \A n, m \in Nat : n < m => <<n, m>> \in OpToRel(<, Nat)
  BY DEF OpToRel
<1>4. PICK m \in S : \A n \in S : ~(<<n, m>> \in OpToRel(<, Nat))
  BY <1>2
<1>5. \A n \in S : ~(n < m)
  BY <1>3, <1>4, Zenon
<1> QED BY <1>5

\* So a nonempty set of positions has a last one.
LEMMA LastExists ==
  ASSUME NEW n \in Nat, NEW S \in SUBSET (1..n), S # {}
  PROVE  \E m \in S : \A i \in S : i <= m
<1> DEFINE D == {n - i : i \in S}
<1>1. D \in SUBSET Nat /\ D # {}
  <2>1. \A i \in S : n - i \in Nat
    OBVIOUS
  <2>2. D \in SUBSET Nat
    BY <2>1
  <2>3. PICK i \in S : TRUE
    OBVIOUS
  <2>4. n - i \in D
    BY <2>3
  <2> QED BY <2>2, <2>4
<1>2. PICK d \in D : \A e \in D : d <= e
  BY <1>1, LeastExists
<1>3. PICK m \in S : d = n - m
  BY <1>2
<1>4. \A i \in S : n - i \in D
  OBVIOUS
<1>5. ASSUME NEW i \in S PROVE i <= m
  <2>1. d <= n - i
    BY <1>2, <1>4
  <2> QED BY <1>3, <2>1
<1> QED BY <1>5

\* The place of a position among the positions kept.
Place(I, i) == Cardinality({j \in I : j <= i})

LEMMA PlaceBijective ==
  ASSUME NEW n \in Nat, NEW I \in SUBSET (1..n)
  PROVE  /\ Cardinality(I) \in Nat
         /\ \A i \in I : Place(I, i) \in 1..Cardinality(I)
         /\ \A i, j \in I : Place(I, i) = Place(I, j) => i = j
         /\ \A k \in 1..Cardinality(I) : \E i \in I : Place(I, i) = k
<1> DEFINE Upto(i) == {j \in I : j <= i}
<1>1. IsFiniteSet(I) /\ Cardinality(I) \in Nat
  <2>1. IsFiniteSet(1..n)
    BY FS_Interval
  <2>2. IsFiniteSet(I)
    BY <2>1, FS_Subset, Zenon
  <2> QED BY <2>2, FS_CardinalityType, Zenon
<1>2. ASSUME NEW i \in I
      PROVE  /\ IsFiniteSet(Upto(i))
             /\ Cardinality(Upto(i)) \in 1..Cardinality(I)
  <2>1. Upto(i) \in SUBSET I /\ i \in Upto(i)
    OBVIOUS
  <2>2. IsFiniteSet(Upto(i)) /\ Cardinality(Upto(i)) <= Cardinality(I)
    BY <1>1, <2>1, FS_Subset
  <2>3. Cardinality(Upto(i)) \in Nat /\ Cardinality(Upto(i)) # 0
    BY <2>1, <2>2, FS_CardinalityType, FS_EmptySet
  <2> QED BY <1>1, <2>2, <2>3
<1>3. ASSUME NEW i \in I, NEW j \in I, i < j
      PROVE  Cardinality(Upto(i)) < Cardinality(Upto(j))
  <2>0. \A k \in I : k \in Int
    OBVIOUS
  <2>1. /\ Upto(i) \in SUBSET Upto(j)
        /\ j \in Upto(j)
        /\ j \notin Upto(i)
    <3>1. \A k \in I : k <= i => k <= j
      BY <1>3, <2>0
    <3>2. j <= j /\ ~(j <= i)
      BY <1>3, <2>0
    <3> QED BY <3>1, <3>2, Zenon
  <2>2. IsFiniteSet(Upto(j)) /\ Upto(j) # Upto(i)
    BY <1>2, <2>1
  <2>3. /\ Cardinality(Upto(i)) <= Cardinality(Upto(j))
        /\ Cardinality(Upto(i)) # Cardinality(Upto(j))
    BY <2>1, <2>2, FS_Subset
  <2>4. Cardinality(Upto(i)) \in Nat /\ Cardinality(Upto(j)) \in Nat
    BY <1>2
  <2> QED BY <2>3, <2>4
<1> DEFINE f == [i \in I |-> Cardinality(Upto(i))]
<1>4. f \in Injection(I, 1..Cardinality(I))
  <2>1. f \in [I -> 1..Cardinality(I)]
    BY <1>2
  <2>2. ASSUME NEW i \in I, NEW j \in I, f[i] = f[j] PROVE i = j
    <3>1. Cardinality(Upto(i)) = Cardinality(Upto(j)) /\ Cardinality(Upto(i)) \in Nat
      BY <1>2, <2>2
    <3>2. ~(i < j) /\ ~(j < i)
      BY <1>3, <3>1
    <3> QED BY <3>2
  <2> QED BY <2>1, <2>2 DEF Injection, IsInjective
<1>5. f \in Surjection(I, 1..Cardinality(I))
  BY <1>1, <1>4, FS_Injection, FS_Interval
<1>6. \A k \in 1..Cardinality(I) : \E i \in I : f[i] = k
  BY <1>5 DEF Surjection
<1> QED BY <1>1, <1>2, <1>3, <1>6 DEF Place

\* What a filter loop returns.
LEMMA KeepProperties ==
  ASSUME NEW S, NEW cs \in Seq(S), NEW I \in SUBSET (DOMAIN cs)
  PROVE  /\ Keep(cs, I) \in Seq(S)
         /\ Range(Keep(cs, I)) = {cs[i] : i \in I}
         /\ IsInjective(cs) => IsInjective(Keep(cs, I))
<1> DEFINE n == Cardinality(I)
           At(k) == CHOOSE i \in I : Place(I, i) = k
<1>1. Len(cs) \in Nat /\ I \in SUBSET (1..Len(cs))
  OBVIOUS
<1>2. /\ n \in Nat
      /\ \A i \in I : Place(I, i) \in 1..n
      /\ \A i, j \in I : Place(I, i) = Place(I, j) => i = j
      /\ \A k \in 1..n : \E i \in I : Place(I, i) = k
  BY <1>1, PlaceBijective
<1>3. Keep(cs, I) = [k \in 1..n |-> cs[At(k)]]
  BY DEF Keep, Place
<1>4. \A k \in 1..n : At(k) \in I /\ Place(I, At(k)) = k
  BY <1>2
<1>5. \A i \in I : At(Place(I, i)) = i
  BY <1>2
<1> HIDE DEF n, At
<1>6. \A k \in 1..n : cs[At(k)] \in S
  BY <1>4
<1>7. Keep(cs, I) \in Seq(S)
  BY <1>2, <1>3, <1>6
<1>8. Range(Keep(cs, I)) = {cs[i] : i \in I}
  <2>1. \A k \in 1..n : Keep(cs, I)[k] = cs[At(k)]
    BY <1>3
  <2>2. DOMAIN Keep(cs, I) = 1..n
    BY <1>3
  <2> QED BY <1>2, <1>4, <1>5, <2>1, <2>2 DEF Range
<1>9. ASSUME IsInjective(cs) PROVE IsInjective(Keep(cs, I))
  <2>1. ASSUME NEW k \in 1..n, NEW l \in 1..n, cs[At(k)] = cs[At(l)]
        PROVE  k = l
    <3>1. At(k) = At(l)
      BY <1>4, <1>9, <2>1 DEF IsInjective
    <3> QED BY <1>4, <3>1
  <2> QED BY <1>3, <2>1 DEF IsInjective
<1> QED BY <1>7, <1>8, <1>9

\* Concatenating sequences that share no element keeps them injective.
LEMMA ConcatRange ==
  ASSUME NEW S, NEW p \in Seq(S), NEW q \in Seq(S)
  PROVE  /\ p \o q \in Seq(S)
         /\ Range(p \o q) = Range(p) \cup Range(q)
BY RangeConcatenation

LEMMA ConcatInjective ==
  ASSUME NEW S, NEW p \in Seq(S), NEW q \in Seq(S)
  PROVE  /\ p \o q \in Seq(S)
         /\ Range(p \o q) = Range(p) \cup Range(q)
         /\ (IsInjective(p) /\ IsInjective(q) /\ Range(p) \cap Range(q) = {})
              => IsInjective(p \o q)
<1>1. p \o q \in Seq(S) /\ Range(p \o q) = Range(p) \cup Range(q)
  BY RangeConcatenation
<1>2. ASSUME IsInjective(p), IsInjective(q), Range(p) \cap Range(q) = {},
             NEW i \in DOMAIN (p \o q), NEW j \in DOMAIN (p \o q), (p \o q)[i] = (p \o q)[j]
      PROVE  i = j
  <2>1. CASE i <= Len(p) /\ j <= Len(p)
    BY <1>2, <2>1 DEF IsInjective
  <2>2. CASE i > Len(p) /\ j > Len(p)
    <3>1. q[i - Len(p)] = q[j - Len(p)] /\ i - Len(p) \in DOMAIN q /\ j - Len(p) \in DOMAIN q
      BY <1>2, <2>2
    <3>2. i - Len(p) = j - Len(p)
      BY <1>2, <3>1 DEF IsInjective
    <3> QED BY <3>2
  <2>3. ASSUME NEW k \in DOMAIN (p \o q), NEW l \in DOMAIN (p \o q),
               k <= Len(p), l > Len(p), (p \o q)[k] = (p \o q)[l]
        PROVE  FALSE
    <3>1. p[k] = q[l - Len(p)] /\ k \in DOMAIN p /\ l - Len(p) \in DOMAIN q
      BY <2>3
    <3> QED BY <1>2, <3>1 DEF Range
  <2> QED BY <1>2, <2>1, <2>2, <2>3
<1> QED BY <1>1, <1>2 DEF IsInjective

LEMMA EmptyRange ==
  ASSUME NEW S, NEW cs \in Seq(S)
  PROVE  cs = <<>> <=> Range(cs) = {}
<1>1. cs # <<>> => Len(cs) \in Nat \ {0}
  BY EmptySeq
<1>2. cs # <<>> => cs[1] \in Range(cs)
  BY <1>1 DEF Range
<1>3. cs = <<>> => Range(cs) = {}
  BY DEF Range
<1> QED BY <1>2, <1>3

\* ds holds the cards of cs in another order.
Rearranges(cs, ds, S) ==
  /\ ds \in Seq(S)
  /\ Range(ds) = Range(cs)
  /\ IsInjective(cs) => IsInjective(ds)

LEMMA OneElement ==
  ASSUME NEW x
  PROVE  /\ <<x>> \in Seq({x})
         /\ Range(<<x>>) = {x}
         /\ IsInjective(<<x>>)
         /\ <<x>> # <<>>
BY DEF Range, IsInjective

LEMMA SingleSeq ==
  ASSUME NEW S, NEW x \in S
  PROVE  <<x>> \in Seq(S)
OBVIOUS

LEMMA AppendOne ==
  ASSUME NEW S, NEW p \in Seq(S), NEW e \in S
  PROVE  /\ p \o <<e>> \in Seq(S)
         /\ Range(p \o <<e>>) = Range(p) \cup Range(<<e>>)
<1> DEFINE q == <<e>>
<1>1. q \in Seq(S)
  BY SingleSeq
<1> HIDE DEF q
<1>2. /\ p \o q \in Seq(S)
      /\ Range(p \o q) = Range(p) \cup Range(q)
  BY <1>1, ConcatRange
<1> QED BY <1>2 DEF q

LEMMA TupleSeq ==
  ASSUME NEW S, NEW n \in Nat, NEW f, \A i \in 1..n : f[i] \in S
  PROVE  [i \in 1..n |-> f[i]] \in Seq(S)
OBVIOUS

LEMMA FaceRearranges ==
  ASSUME NEW S, NEW cs \in Seq(S), NEW b
  PROVE  Rearranges(cs, PriorityFace(b, cs), S)
<1> DEFINE At(p) == {i \in DOMAIN cs : KindOf(b, cs[i]) = FaceKinds[p]}
           present == {p \in 1..3 : At(p) # {}}
           p0 == CHOOSE x \in present : \A y \in present : x <= y
           i0 == CHOOSE x \in At(p0) : \A y \in At(p0) : y <= x
<1>1. CASE present = {}
  BY <1>1 DEF PriorityFace, Rearranges
<1>2. CASE present # {}
  <2>1. p0 \in present
    <3>1. present \in SUBSET Nat
      OBVIOUS
    <3>2. \E x \in present : \A y \in present : x <= y
      BY <1>2, <3>1, LeastExists
    <3> QED BY <3>2
  <2>2. i0 \in DOMAIN cs
    <3>1. At(p0) \in SUBSET (1..Len(cs)) /\ Len(cs) \in Nat
      OBVIOUS
    <3>2. At(p0) # {}
      BY <2>1
    <3>3. \E x \in At(p0) : \A y \in At(p0) : y <= x
      BY <3>1, <3>2, LastExists
    <3> QED BY <3>3
  <2> DEFINE I == DOMAIN cs \ {i0}
             ks == Keep(cs, I)
  <2>3. PriorityFace(b, cs) = ks \o <<cs[i0]>>
    BY <1>2 DEF PriorityFace
  <2> HIDE DEF i0, p0, present, At
  <2>4. cs[i0] \in S /\ <<cs[i0]>> \in Seq(S)
    BY <2>2
  <2>5. /\ ks \in Seq(S)
        /\ Range(ks) = {cs[i] : i \in I}
        /\ IsInjective(cs) => IsInjective(ks)
    BY KeepProperties
  <2>6. Range(<<cs[i0]>>) = {cs[i0]} /\ IsInjective(<<cs[i0]>>)
    BY OneElement
  <2>7. Range(cs) = {cs[i] : i \in I} \cup {cs[i0]}
    BY <2>2 DEF Range
  <2>8. IsInjective(cs) => {cs[i] : i \in I} \cap {cs[i0]} = {}
    BY <2>2 DEF IsInjective
  <2> HIDE DEF I, ks
  <2>9. /\ ks \o <<cs[i0]>> \in Seq(S)
        /\ Range(ks \o <<cs[i0]>>) = Range(cs)
    <3>1. /\ ks \o <<cs[i0]>> \in Seq(S)
          /\ Range(ks \o <<cs[i0]>>) = Range(ks) \cup Range(<<cs[i0]>>)
      BY <2>4, <2>5, AppendOne
    <3> QED BY <3>1, <2>5, <2>6, <2>7
  <2>10. IsInjective(cs) => IsInjective(ks \o <<cs[i0]>>)
    BY <2>4, <2>5, <2>6, <2>8, ConcatInjective
  <2> QED BY <2>3, <2>9, <2>10 DEF Rearranges
<1> QED BY <1>1, <1>2

LEMMA VillagerLeadsRearranges ==
  ASSUME NEW S, NEW cs \in Seq(S), NEW b
  PROVE  Rearranges(cs, VillagerLeads(b, cs), S)
<1> DEFINE At(k) == {i \in DOMAIN cs : KindOf(b, cs[i]) = k}
           V == At("villager")
           face == CHOOSE x \in At("resource") : \A y \in At("resource") : y <= x
           M == DOMAIN cs \ (V \cup {face})
           vs == Keep(cs, V)
           ms == Keep(cs, M)
<1>1. CASE V = {} \/ At("resource") = {}
  BY <1>1 DEF VillagerLeads, Rearranges
<1>2. CASE V # {} /\ At("resource") # {}
  <2>1. face \in At("resource")
    <3>1. At("resource") \in SUBSET (1..Len(cs)) /\ Len(cs) \in Nat
      OBVIOUS
    <3>2. \E x \in At("resource") : \A y \in At("resource") : y <= x
      BY <1>2, <3>1, LastExists
    <3> QED BY <3>2
  <2>2. face \in DOMAIN cs /\ face \notin V
    BY <2>1
  <2>3. VillagerLeads(b, cs) = vs \o ms \o <<cs[face]>>
    BY <1>2 DEF VillagerLeads
  <2>4. V \in SUBSET (DOMAIN cs)
    OBVIOUS
  <2> HIDE DEF face, V, At
  <2>5. M \in SUBSET (DOMAIN cs) /\ DOMAIN cs = V \cup M \cup {face}
    BY <2>2, <2>4
  <2>6. V \cap M = {} /\ face \notin M
    OBVIOUS
  <2>7. cs[face] \in S /\ <<cs[face]>> \in Seq(S)
    BY <2>2
  <2> DEFINE Img(I) == {cs[i] : i \in I}
  <2> HIDE DEF M
  <2>8. /\ vs \in Seq(S) /\ Range(vs) = Img(V)
        /\ IsInjective(cs) => IsInjective(vs)
    BY <2>4, KeepProperties
  <2>9. /\ ms \in Seq(S) /\ Range(ms) = Img(M)
        /\ IsInjective(cs) => IsInjective(ms)
    BY <2>5, KeepProperties
  <2>10. Range(<<cs[face]>>) = {cs[face]} /\ IsInjective(<<cs[face]>>)
    BY OneElement
  <2>11. Range(cs) = Img(V) \cup Img(M) \cup {cs[face]}
    BY <2>5 DEF Range
  <2>12. IsInjective(cs) => /\ Img(V) \cap Img(M) = {}
                            /\ cs[face] \notin Img(V) \cup Img(M)
    BY <2>2, <2>4, <2>5, <2>6 DEF IsInjective
  <2> HIDE DEF vs, ms, Img
  <2>13. /\ vs \o ms \in Seq(S)
         /\ Range(vs \o ms) = Img(V) \cup Img(M)
    BY <2>8, <2>9, ConcatInjective
  <2>14. IsInjective(cs) => IsInjective(vs \o ms)
    BY <2>8, <2>9, <2>12, ConcatInjective
  <2>15. /\ vs \o ms \o <<cs[face]>> \in Seq(S)
         /\ Range(vs \o ms \o <<cs[face]>>) = Range(vs \o ms) \cup Range(<<cs[face]>>)
    <3> DEFINE p == vs \o ms
    <3>1. p \in Seq(S)
      BY <2>13
    <3> HIDE DEF p
    <3>2. p \o <<cs[face]>> \in Seq(S)
          /\ Range(p \o <<cs[face]>>) = Range(p) \cup Range(<<cs[face]>>)
      BY <2>7, <3>1, AppendOne
    <3> QED BY <3>2 DEF p
  <2>16. IsInjective(cs) => IsInjective(vs \o ms \o <<cs[face]>>)
    <3>1. IsInjective(cs) => Range(vs \o ms) \cap Range(<<cs[face]>>) = {}
      BY <2>10, <2>12, <2>13
    <3>2. (IsInjective(vs \o ms) /\ IsInjective(<<cs[face]>>)
            /\ Range(vs \o ms) \cap Range(<<cs[face]>>) = {})
           => IsInjective(vs \o ms \o <<cs[face]>>)
      BY <2>7, <2>13, ConcatInjective
    <3> QED BY <2>10, <2>14, <3>1, <3>2
  <2>17. Range(vs \o ms \o <<cs[face]>>) = Range(cs)
    BY <2>10, <2>11, <2>13, <2>15
  <2> QED BY <2>3, <2>15, <2>16, <2>17 DEF Rearranges
<1> QED BY <1>1, <1>2

-----------------------------------------------------------------------------
(* Documents *)

\* A document in the middle of a command: the cards of out lie in no stack,
\* every other card in exactly one.
PlacedBut(b, out) ==
  /\ out \subseteq DOMAIN b.cards
  /\ \A s \in DOMAIN b.stacks : /\ b.stacks[s].cards # <<>>
                               /\ IsInjective(b.stacks[s].cards)
  /\ \A s, t \in DOMAIN b.stacks : s # t => CardsOf(b, s) \cap CardsOf(b, t) = {}
  /\ \A c \in DOMAIN b.cards :
       c \in out <=> \A s \in DOMAIN b.stacks : c \notin CardsOf(b, s)

Sound(b, out) == WellFormed(b) /\ Ordered(b) /\ PlacedBut(b, out)

LEMMA SoundIsPlaced ==
  ASSUME NEW b
  PROVE  Sound(b, {}) <=> WellFormed(b) /\ Ordered(b) /\ Placed(b)
BY DEF Sound, PlacedBut, Placed

\* The cards of a stack are cards of the table.
LEMMA CardsInTable ==
  ASSUME NEW b, WellFormed(b), NEW s \in DOMAIN b.stacks
  PROVE  /\ b.stacks[s].cards \in Seq(DOMAIN b.cards)
         /\ CardsOf(b, s) \subseteq DOMAIN b.cards
         /\ b.stacks[s].z \in 11..b.nextZ
         /\ b.stacks[s] = [cards |-> b.stacks[s].cards, z |-> b.stacks[s].z]
<1>1. b.stacks[s] \in [cards : Seq(DOMAIN b.cards), z : 11..b.nextZ]
  BY DEF WellFormed
<1>2. b.stacks[s].cards \in Seq(DOMAIN b.cards)
  BY <1>1
<1> QED BY <1>1, <1>2, RangeOfSeq DEF CardsOf

\* Reordering a stack, with or without a new Z of its own.
LEMMA ReorderSound ==
  ASSUME NEW b, NEW out, Sound(b, out), NEW s \in DOMAIN b.stacks, NEW ds,
         Rearranges(b.stacks[s].cards, ds, DOMAIN b.cards)
  PROVE  /\ Sound(SetStack(b, s, ds, b.stacks[s].z), out)
         /\ DOMAIN SetStack(b, s, ds, b.stacks[s].z).stacks = DOMAIN b.stacks
         /\ SetStack(b, s, ds, b.stacks[s].z).cards = b.cards
         /\ \A t \in DOMAIN b.stacks :
              CardsOf(SetStack(b, s, ds, b.stacks[s].z), t) = CardsOf(b, t)
<1> DEFINE n == SetStack(b, s, ds, b.stacks[s].z)
<1>0. WellFormed(b) /\ Ordered(b) /\ PlacedBut(b, out)
  BY DEF Sound
<1>1. /\ DOMAIN n = {"cards", "stacks", "nextZ", "nextCard"}
      /\ n.cards = b.cards /\ n.nextZ = b.nextZ /\ n.nextCard = b.nextCard
      /\ n.stacks = [b.stacks EXCEPT ![s] = [cards |-> ds, z |-> b.stacks[s].z]]
  BY <1>0 DEF SetStack, WellFormed
<1> HIDE DEF n
<1>2. \A t \in DOMAIN b.stacks :
        n.stacks[t] = IF t = s THEN [cards |-> ds, z |-> b.stacks[s].z] ELSE b.stacks[t]
  BY <1>1
<1>3. \A t \in DOMAIN b.stacks : CardsOf(n, t) = CardsOf(b, t)
  BY <1>2 DEF CardsOf, Rearranges
<1>4. WellFormed(n)
  BY <1>0, <1>1, <1>2, CardsInTable DEF WellFormed, Rearranges
<1>5. Ordered(n)
  BY <1>0, <1>1, <1>2 DEF Ordered
<1>6. ds # <<>>
  <2>1. b.stacks[s].cards # <<>> /\ b.stacks[s].cards \in Seq(DOMAIN b.cards)
    BY <1>0, CardsInTable DEF PlacedBut
  <2>2. Range(ds) # {} /\ ds \in Seq(DOMAIN b.cards)
    BY <2>1, EmptyRange DEF Rearranges
  <2> QED BY <2>2, EmptyRange
<1>7. PlacedBut(n, out)
  BY <1>0, <1>1, <1>2, <1>3, <1>6 DEF PlacedBut, Rearranges
<1> QED BY <1>1, <1>3, <1>4, <1>5, <1>7 DEF Sound, n

LEMMA FacePrioritySound ==
  ASSUME NEW b, NEW out, Sound(b, out), NEW s
  PROVE  /\ Sound(FacePriority(b, s), out)
         /\ DOMAIN FacePriority(b, s).stacks = DOMAIN b.stacks
         /\ FacePriority(b, s).cards = b.cards
         /\ \A t \in DOMAIN b.stacks : CardsOf(FacePriority(b, s), t) = CardsOf(b, t)
<1>1. CASE s \in DOMAIN b.stacks
  <2>1. Rearranges(b.stacks[s].cards, PriorityFace(b, b.stacks[s].cards), DOMAIN b.cards)
    BY <1>1, CardsInTable, FaceRearranges DEF Sound
  <2> QED BY <1>1, <2>1, ReorderSound DEF FacePriority
<1>2. CASE s \notin DOMAIN b.stacks
  BY <1>2 DEF FacePriority
<1> QED BY <1>1, <1>2

LEMMA LeadVillagerSound ==
  ASSUME NEW b, NEW out, Sound(b, out), NEW s \in DOMAIN b.stacks
  PROVE  /\ Sound(LeadVillager(b, s), out)
         /\ DOMAIN LeadVillager(b, s).stacks = DOMAIN b.stacks
         /\ LeadVillager(b, s).cards = b.cards
         /\ \A t \in DOMAIN b.stacks : CardsOf(LeadVillager(b, s), t) = CardsOf(b, t)
<1>1. Rearranges(b.stacks[s].cards, VillagerLeads(b, b.stacks[s].cards), DOMAIN b.cards)
  BY CardsInTable, VillagerLeadsRearranges DEF Sound
<1> QED BY <1>1, ReorderSound DEF LeadVillager

LEMMA BringToFrontSound ==
  ASSUME NEW b, Sound(b, {}), NEW s \in DOMAIN b.stacks
  PROVE  /\ Sound(BringToFront(b, s), {})
         /\ BringToFront(b, s).cards = b.cards
         /\ DOMAIN BringToFront(b, s).stacks = DOMAIN b.stacks
         /\ \A t \in DOMAIN b.stacks : CardsOf(BringToFront(b, s), t) = CardsOf(b, t)
<1> DEFINE n == BringToFront(b, s)
<1>0. WellFormed(b) /\ Ordered(b) /\ PlacedBut(b, {})
  BY DEF Sound
<1>1. /\ DOMAIN n = {"cards", "stacks", "nextZ", "nextCard"}
      /\ n.cards = b.cards /\ n.nextZ = b.nextZ + 1 /\ n.nextCard = b.nextCard
      /\ n.stacks = [b.stacks EXCEPT ![s] = [cards |-> b.stacks[s].cards, z |-> b.nextZ + 1]]
  BY <1>0 DEF BringToFront, SetStack, WellFormed
<1> HIDE DEF n
<1>2. \A t \in DOMAIN b.stacks :
        /\ n.stacks[t] = IF t = s THEN [cards |-> b.stacks[s].cards, z |-> b.nextZ + 1]
                                  ELSE b.stacks[t]
        /\ n.stacks[t].cards = b.stacks[t].cards
  BY <1>1
<1>3. \A t \in DOMAIN b.stacks : CardsOf(n, t) = CardsOf(b, t)
  BY <1>2 DEF CardsOf
<1>4. \A t \in DOMAIN b.stacks : b.stacks[t].z \in 11..b.nextZ
  BY <1>0, CardsInTable
<1>5. WellFormed(n)
  BY <1>0, <1>1, <1>2, CardsInTable DEF WellFormed
<1>6. Ordered(n)
  BY <1>0, <1>1, <1>2, <1>4 DEF Ordered, WellFormed
<1>7. PlacedBut(n, {})
  BY <1>0, <1>1, <1>2, <1>3 DEF PlacedBut
<1> QED BY <1>1, <1>3, <1>5, <1>6, <1>7 DEF Sound, n

\* Merging moves the cards of s onto t and loses none.
LEMMA MergeSound ==
  ASSUME NEW b, NEW out, Sound(b, out),
         NEW t \in DOMAIN b.stacks, NEW s \in DOMAIN b.stacks
  PROVE  /\ Sound(MergeStacks(b, t, s), out)
         /\ t \in DOMAIN MergeStacks(b, t, s).stacks
         /\ MergeStacks(b, t, s).cards = b.cards
         /\ t # s => DOMAIN MergeStacks(b, t, s).stacks = DOMAIN b.stacks \ {s}
         /\ \A x \in DOMAIN MergeStacks(b, t, s).stacks :
              CardsOf(MergeStacks(b, t, s), x)
                = IF x = t THEN CardsOf(b, t) \cup CardsOf(b, s) ELSE CardsOf(b, x)
<1>1. CASE t = s
  BY <1>1 DEF MergeStacks
<1>2. CASE t # s
  <2> DEFINE n == MergeStacks(b, t, s)
             both == b.stacks[t].cards \o b.stacks[s].cards
  <2>0. WellFormed(b) /\ Ordered(b) /\ PlacedBut(b, out)
    BY DEF Sound
  <2>1. /\ DOMAIN n = {"cards", "stacks", "nextZ", "nextCard"}
        /\ n.cards = b.cards /\ n.nextZ = b.nextZ + 1 /\ n.nextCard = b.nextCard
        /\ n.stacks = [x \in DOMAIN b.stacks \ {s} |->
                         IF x = t THEN [cards |-> both, z |-> b.nextZ + 1] ELSE b.stacks[x]]
    BY <1>2 DEF MergeStacks
  <2>2. /\ both \in Seq(DOMAIN b.cards)
        /\ Range(both) = CardsOf(b, t) \cup CardsOf(b, s)
        /\ IsInjective(both)
    <3> DEFINE p == b.stacks[t].cards
               q == b.stacks[s].cards
    <3>1. /\ p \in Seq(DOMAIN b.cards) /\ IsInjective(p)
          /\ q \in Seq(DOMAIN b.cards) /\ IsInjective(q)
          /\ Range(p) \cap Range(q) = {}
      BY <1>2, <2>0, CardsInTable DEF PlacedBut, CardsOf
    <3>2. both = p \o q /\ CardsOf(b, t) = Range(p) /\ CardsOf(b, s) = Range(q)
      BY DEF CardsOf
    <3> HIDE DEF p, q, both
    <3>3. p \o q \in Seq(DOMAIN b.cards) /\ Range(p \o q) = Range(p) \cup Range(q)
          /\ IsInjective(p \o q)
      BY <3>1, ConcatInjective
    <3> QED BY <3>2, <3>3
  <2> HIDE DEF n, both
  <2>3. \A x \in DOMAIN n.stacks :
          n.stacks[x] = IF x = t THEN [cards |-> both, z |-> b.nextZ + 1] ELSE b.stacks[x]
    BY <2>1
  <2>4. \A x \in DOMAIN n.stacks :
          CardsOf(n, x) = IF x = t THEN CardsOf(b, t) \cup CardsOf(b, s) ELSE CardsOf(b, x)
    <3>1. \A x \in DOMAIN n.stacks :
            n.stacks[x].cards = IF x = t THEN both ELSE b.stacks[x].cards
      BY <2>3
    <3>2. \A x \in DOMAIN n.stacks :
            CardsOf(n, x) = IF x = t THEN Range(both) ELSE CardsOf(b, x)
      BY <3>1 DEF CardsOf
    <3> QED BY <2>2, <3>2
  <2>5. \A x \in DOMAIN b.stacks : b.stacks[x].z \in 11..b.nextZ
    BY <2>0, CardsInTable
  <2>6. DOMAIN n.stacks = DOMAIN b.stacks \ {s}
    BY <2>1
  <2>7. WellFormed(n)
    BY <2>0, <2>1, <2>2, <2>3, <2>6, CardsInTable, SMTT(30) DEF WellFormed
  <2>8. Ordered(n)
    <3>1. \A x \in DOMAIN n.stacks :
            n.stacks[x].z = IF x = t THEN b.nextZ + 1 ELSE b.stacks[x].z
      BY <2>3
    <3>2. b.nextZ \in Nat /\ \A x \in DOMAIN n.stacks : x # t => n.stacks[x].z # b.nextZ + 1
      <4>1. b.nextZ \in Nat
        BY <2>0 DEF WellFormed
      <4>2. \A x \in DOMAIN n.stacks : x # t => n.stacks[x].z \in 11..b.nextZ
        BY <2>5, <2>6, <3>1
      <4> QED BY <4>1, <4>2
    <3>3. \A x, y \in DOMAIN b.stacks : b.stacks[x].z = b.stacks[y].z => x = y
      BY <2>0 DEF Ordered
    <3> QED BY <2>6, <3>1, <3>2, <3>3 DEF Ordered
  <2>9. PlacedBut(n, out)
    <3>1. both # <<>>
      <4>1. b.stacks[t].cards # <<>> /\ b.stacks[t].cards \in Seq(DOMAIN b.cards)
        BY <2>0, CardsInTable DEF PlacedBut
      <4>2. CardsOf(b, t) # {}
        BY <4>1, EmptyRange DEF CardsOf
      <4> QED BY <2>2, <4>2, EmptyRange
    <3>2. \A x \in DOMAIN n.stacks :
            n.stacks[x].cards # <<>> /\ IsInjective(n.stacks[x].cards)
      BY <2>0, <2>2, <2>3, <2>6, <3>1 DEF PlacedBut
    <3>3. \A x, y \in DOMAIN n.stacks : x # y => CardsOf(n, x) \cap CardsOf(n, y) = {}
      BY <2>0, <2>4, <2>6 DEF PlacedBut
    <3>4. \A c : (\A x \in DOMAIN n.stacks : c \notin CardsOf(n, x))
                  <=> (\A x \in DOMAIN b.stacks : c \notin CardsOf(b, x))
      BY <1>2, <2>4, <2>6
    <3> QED BY <2>0, <2>1, <3>2, <3>3, <3>4 DEF PlacedBut
  <2> QED BY <1>2, <2>1, <2>4, <2>6, <2>7, <2>8, <2>9 DEF Sound, n
<1> QED BY <1>1, <1>2

\* n is b with the cards ds in its table and in no stack yet.
CardsAdded(b, out, ds, n) ==
  LET new == (b.nextCard + 1)..(b.nextCard + Len(ds))
  IN  /\ Sound(n, out \cup new)
      /\ n.stacks = b.stacks /\ n.nextZ = b.nextZ
      /\ n.nextCard = b.nextCard + Len(ds)
      /\ DOMAIN n.cards = DOMAIN b.cards \cup new
      /\ \A c \in DOMAIN b.cards : n.cards[c] = b.cards[c]
      /\ \A i \in 1..Len(ds) : n.cards[b.nextCard + i] = ds[i]
      /\ new \cap DOMAIN b.cards = {}

LEMMA CreateCardsSound ==
  ASSUME NEW b, NEW out, Sound(b, out), NEW ds \in Seq(Card)
  PROVE  CardsAdded(b, out, ds, CreateCards(b, ds))
<1> DEFINE n == CreateCards(b, ds)
           new == (b.nextCard + 1)..(b.nextCard + Len(ds))
<1>0. /\ WellFormed(b) /\ Ordered(b) /\ PlacedBut(b, out)
      /\ b.nextCard \in Nat /\ Len(ds) \in Nat
      /\ DOMAIN b.cards \subseteq 1..b.nextCard
  BY DEF Sound, WellFormed
<1>1. /\ DOMAIN n = {"cards", "stacks", "nextZ", "nextCard"}
      /\ n.stacks = b.stacks /\ n.nextZ = b.nextZ /\ n.nextCard = b.nextCard + Len(ds)
      /\ n.cards = [c \in DOMAIN b.cards \cup new |->
                      IF c > b.nextCard THEN ds[c - b.nextCard] ELSE b.cards[c]]
  BY DEF CreateCards
<1> HIDE DEF n
<1>2. new \cap DOMAIN b.cards = {}
  BY <1>0
<1>3. DOMAIN n.cards = DOMAIN b.cards \cup new
  BY <1>1
<1>4. \A c \in DOMAIN b.cards : n.cards[c] = b.cards[c]
  BY <1>0, <1>1
<1>5. \A i \in 1..Len(ds) : n.cards[b.nextCard + i] = ds[i]
  BY <1>0, <1>1
<1>6. \A c \in new : n.cards[c] \in Card
  BY <1>0, <1>1
<1>7. \A s \in DOMAIN b.stacks : CardsOf(n, s) = CardsOf(b, s)
  BY <1>1 DEF CardsOf
<1>8. WellFormed(n)
  <2>1. DOMAIN n.cards \subseteq 1..n.nextCard
    BY <1>0, <1>1, <1>3
  <2>2. \A c \in DOMAIN n.cards : n.cards[c] \in Card
    BY <1>0, <1>3, <1>4, <1>6 DEF WellFormed
  <2>3. \A s \in DOMAIN n.stacks :
          n.stacks[s] \in [cards : Seq(DOMAIN n.cards), z : 11..n.nextZ]
    <3> SUFFICES ASSUME NEW s \in DOMAIN b.stacks
                 PROVE  b.stacks[s] \in [cards : Seq(DOMAIN n.cards), z : 11..b.nextZ]
      BY <1>1
    <3>1. b.stacks[s].cards \in Seq(DOMAIN n.cards)
      BY <1>0, <1>3, CardsInTable, SeqMonotonic
    <3>2. /\ b.stacks[s] = [cards |-> b.stacks[s].cards, z |-> b.stacks[s].z]
          /\ b.stacks[s].z \in 11..b.nextZ
      BY <1>0, CardsInTable, Zenon
    <3>3. [cards |-> b.stacks[s].cards, z |-> b.stacks[s].z]
            \in [cards : Seq(DOMAIN n.cards), z : 11..b.nextZ]
      BY <3>1, <3>2
    <3> QED BY <3>2, <3>3, Zenon
  <2> QED BY <1>0, <1>1, <2>1, <2>2, <2>3 DEF WellFormed
<1>9. Ordered(n)
  BY <1>0, <1>1 DEF Ordered
<1>10. PlacedBut(n, out \cup new)
  <2>1. \A c \in new : \A s \in DOMAIN n.stacks : c \notin CardsOf(n, s)
    BY <1>0, <1>1, <1>2, <1>7, CardsInTable
  <2>2. \A c \in DOMAIN b.cards :
          c \in out \cup new <=> \A s \in DOMAIN n.stacks : c \notin CardsOf(n, s)
    BY <1>0, <1>1, <1>2, <1>7 DEF PlacedBut
  <2>3. \A s, t \in DOMAIN n.stacks : s # t => CardsOf(n, s) \cap CardsOf(n, t) = {}
    BY <1>0, <1>1, <1>7 DEF PlacedBut
  <2> QED BY <1>0, <1>1, <1>3, <2>1, <2>2, <2>3 DEF PlacedBut
<1>11. Sound(n, out \cup new)
  BY <1>8, <1>9, <1>10 DEF Sound
<1> QED BY <1>1, <1>2, <1>3, <1>4, <1>5, <1>11 DEF CardsAdded, n

\* The stacks css are made of different cards that lie in no stack.
Fits(b, out, css) ==
  /\ css \in Seq(Seq(DOMAIN b.cards))
  /\ \A i \in DOMAIN css : css[i] # <<>> /\ IsInjective(css[i]) /\ Range(css[i]) \subseteq out
  /\ \A i, j \in DOMAIN css : i # j => Range(css[i]) \cap Range(css[j]) = {}

\* n is b with the stacks css.
StacksAdded(b, out, css, n) ==
  /\ Sound(n, {c \in out : \A i \in DOMAIN css : c \notin Range(css[i])})
  /\ n.cards = b.cards /\ n.nextCard = b.nextCard /\ n.nextZ = b.nextZ + Len(css)
  /\ DOMAIN n.stacks = DOMAIN b.stacks \cup (b.nextZ + 1)..(b.nextZ + Len(css))
  /\ \A s \in DOMAIN b.stacks : n.stacks[s] = b.stacks[s]
  /\ \A i \in DOMAIN css : CardsOf(n, b.nextZ + i) = Range(css[i])
  /\ \A i \in DOMAIN css : n.stacks[b.nextZ + i].cards = css[i]

LEMMA CreateStacksSound ==
  ASSUME NEW b, NEW out, Sound(b, out), NEW css, Fits(b, out, css)
  PROVE  StacksAdded(b, out, css, CreateStacks(b, css))
<1> DEFINE n == CreateStacks(b, css)
           new == (b.nextZ + 1)..(b.nextZ + Len(css))
           rest == {c \in out : \A i \in DOMAIN css : c \notin Range(css[i])}
<1>0. /\ WellFormed(b) /\ Ordered(b) /\ PlacedBut(b, out)
      /\ b.nextZ \in Nat /\ b.nextZ >= 10 /\ Len(css) \in Nat
      /\ DOMAIN b.stacks \subseteq 11..b.nextZ
      /\ DOMAIN css = 1..Len(css)
      /\ css \in Seq(Seq(DOMAIN b.cards))
      /\ \A i \in DOMAIN css : css[i] # <<>> /\ IsInjective(css[i]) /\ Range(css[i]) \subseteq out
      /\ \A i, j \in DOMAIN css : i # j => Range(css[i]) \cap Range(css[j]) = {}
  BY DEF Sound, WellFormed, Fits
<1>1. /\ DOMAIN n = {"cards", "stacks", "nextZ", "nextCard"}
      /\ n.cards = b.cards /\ n.nextZ = b.nextZ + Len(css) /\ n.nextCard = b.nextCard
      /\ n.stacks = [s \in DOMAIN b.stacks \cup new |->
                       IF s > b.nextZ THEN [cards |-> css[s - b.nextZ], z |-> s]
                                      ELSE b.stacks[s]]
  BY DEF CreateStacks
<1>15. \A s : s \in new => s \in Int /\ s > b.nextZ /\ s <= b.nextZ + Len(css)
  BY <1>0
<1>16. new \subseteq 11..(b.nextZ + Len(css))
  BY <1>0
<1>17. \A s \in new : s - b.nextZ \in DOMAIN css
  BY <1>0
<1>18. \A s, t \in new : s - b.nextZ = t - b.nextZ => s = t
  BY <1>0
<1>5. \A i \in DOMAIN css : b.nextZ + i \in new /\ (b.nextZ + i) - b.nextZ = i
  BY <1>0
<1> HIDE DEF n, new
<1>2. DOMAIN n.stacks = DOMAIN b.stacks \cup new
  BY <1>1
<1>3. \A s \in DOMAIN b.stacks : n.stacks[s] = b.stacks[s]
  BY <1>0, <1>1
<1>4. \A s \in new : /\ s - b.nextZ \in DOMAIN css
                     /\ n.stacks[s] = [cards |-> css[s - b.nextZ], z |-> s]
  BY <1>1, <1>15, <1>17
<1>19. ASSUME NEW s \in new
       PROVE  n.stacks[s].cards = css[s - b.nextZ] /\ n.stacks[s].z = s
  <2>1. n.stacks[s] = [cards |-> css[s - b.nextZ], z |-> s]
    BY <1>4
  <2> QED BY <2>1
<1>6. ASSUME NEW i \in DOMAIN css PROVE n.stacks[b.nextZ + i].cards = css[i]
  <2>1. n.stacks[b.nextZ + i] = [cards |-> css[(b.nextZ + i) - b.nextZ], z |-> b.nextZ + i]
    BY <1>4, <1>5
  <2> QED BY <1>5, <2>1
<1>7. \A i \in DOMAIN css : CardsOf(n, b.nextZ + i) = Range(css[i])
  BY <1>6 DEF CardsOf
<1>8. /\ \A s \in DOMAIN b.stacks : CardsOf(n, s) = CardsOf(b, s)
      /\ \A s \in new : CardsOf(n, s) = Range(css[s - b.nextZ])
  BY <1>3, <1>19 DEF CardsOf
<1>9. WellFormed(n)
  <2>1. \A s \in DOMAIN n.stacks : n.stacks[s] \in [cards : Seq(DOMAIN n.cards), z : 11..n.nextZ]
    <3>1. ASSUME NEW s \in DOMAIN b.stacks
          PROVE  n.stacks[s] \in [cards : Seq(DOMAIN n.cards), z : 11..n.nextZ]
      <4>1. /\ b.stacks[s] = [cards |-> b.stacks[s].cards, z |-> b.stacks[s].z]
            /\ b.stacks[s].z \in 11..b.nextZ
            /\ b.stacks[s].cards \in Seq(DOMAIN b.cards)
        BY <1>0, CardsInTable, Zenon
      <4>2. b.stacks[s].z \in 11..n.nextZ /\ b.stacks[s].cards \in Seq(DOMAIN n.cards)
        BY <1>0, <1>1, <4>1
      <4>3. [cards |-> b.stacks[s].cards, z |-> b.stacks[s].z]
              \in [cards : Seq(DOMAIN n.cards), z : 11..n.nextZ]
        BY <4>2
      <4> QED BY <1>3, <4>1, <4>3, Zenon
    <3>2. ASSUME NEW s \in new
          PROVE  n.stacks[s] \in [cards : Seq(DOMAIN n.cards), z : 11..n.nextZ]
      <4>1. css[s - b.nextZ] \in Seq(DOMAIN n.cards)
        BY <1>0, <1>1, <1>17
      <4>2. s \in 11..n.nextZ
        BY <1>1, <1>16
      <4>3. [cards |-> css[s - b.nextZ], z |-> s]
              \in [cards : Seq(DOMAIN n.cards), z : 11..n.nextZ]
        BY <4>1, <4>2
      <4> QED BY <1>4, <4>3, Zenon
    <3> QED BY <1>2, <3>1, <3>2
  <2>2. DOMAIN n.stacks \subseteq 11..n.nextZ
    <3>1. DOMAIN b.stacks \subseteq 11..(b.nextZ + Len(css))
      BY <1>0
    <3> QED BY <1>1, <1>2, <1>16, <3>1, Zenon
  <2>3. n.nextZ \in Nat /\ n.nextZ >= 10
    BY <1>0, <1>1
  <2> QED BY <1>0, <1>1, <2>1, <2>2, <2>3 DEF WellFormed
<1>10. Ordered(n)
  <2>1. \A s \in DOMAIN b.stacks : n.stacks[s].z = b.stacks[s].z /\ b.stacks[s].z \in 11..b.nextZ
    BY <1>0, <1>3, CardsInTable
  <2>2. \A s \in new : n.stacks[s].z = s /\ s > b.nextZ
    BY <1>15, <1>19
  <2>3. \A s, t \in DOMAIN b.stacks : n.stacks[s].z = n.stacks[t].z => s = t
    BY <1>0, <1>3 DEF Ordered
  <2>4. \A s \in DOMAIN b.stacks, t \in new : n.stacks[s].z # n.stacks[t].z
    BY <1>0, <1>15, <2>1, <2>2
  <2>5. \A s, t \in new : n.stacks[s].z = n.stacks[t].z => s = t
    BY <2>2
  <2> QED BY <1>2, <2>3, <2>4, <2>5 DEF Ordered
<1>11. PlacedBut(n, rest)
  <2>1. \A s \in DOMAIN n.stacks : n.stacks[s].cards # <<>> /\ IsInjective(n.stacks[s].cards)
    <3>2. \A s \in new : n.stacks[s].cards # <<>> /\ IsInjective(n.stacks[s].cards)
      BY <1>0, <1>17, <1>19
    <3>3. \A s \in DOMAIN b.stacks : n.stacks[s].cards # <<>> /\ IsInjective(n.stacks[s].cards)
      BY <1>0, <1>3 DEF PlacedBut
    <3> QED BY <1>2, <3>2, <3>3
  <2>2. ASSUME NEW s \in DOMAIN b.stacks, NEW t \in new PROVE CardsOf(n, s) \cap CardsOf(n, t) = {}
    <3>1. CardsOf(n, t) \subseteq out
      BY <1>0, <1>8, <1>17, Zenon
    <3>2. CardsOf(n, s) \cap out = {}
      BY <1>0, <1>8, CardsInTable DEF PlacedBut
    <3> QED BY <3>1, <3>2
  <2>3. ASSUME NEW s \in new, NEW t \in new, s # t PROVE CardsOf(n, s) \cap CardsOf(n, t) = {}
    <3>1. s - b.nextZ # t - b.nextZ
      BY <1>18, <2>3
    <3>2. Range(css[s - b.nextZ]) \cap Range(css[t - b.nextZ]) = {}
      BY <1>0, <1>17, <3>1, Zenon
    <3> QED BY <1>8, <3>2
  <2>4. \A s, t \in DOMAIN n.stacks : s # t => CardsOf(n, s) \cap CardsOf(n, t) = {}
    BY <1>0, <1>2, <1>8, <2>2, <2>3 DEF PlacedBut
  <2>5. ASSUME NEW c \in DOMAIN b.cards
        PROVE  c \in rest <=> \A s \in DOMAIN n.stacks : c \notin CardsOf(n, s)
    <3>1. (\A s \in DOMAIN b.stacks : c \notin CardsOf(n, s)) <=> c \in out
      BY <1>0, <1>8 DEF PlacedBut
    <3>2. (\A s \in new : c \notin CardsOf(n, s)) <=> (\A i \in DOMAIN css : c \notin Range(css[i]))
      <4>1. ASSUME \A s \in new : c \notin CardsOf(n, s), NEW i \in DOMAIN css
            PROVE  c \notin Range(css[i])
        BY <1>5, <1>7, <4>1
      <4>2. ASSUME \A i \in DOMAIN css : c \notin Range(css[i]), NEW s \in new
            PROVE  c \notin CardsOf(n, s)
        BY <1>8, <1>17, <4>2
      <4> QED BY <4>1, <4>2
    <3> QED BY <1>2, <3>1, <3>2
  <2>6. rest \subseteq DOMAIN n.cards
    BY <1>0, <1>1 DEF PlacedBut
  <2> QED BY <1>1, <2>1, <2>4, <2>5, <2>6 DEF PlacedBut
<1>12. Sound(n, rest)
  BY <1>9, <1>10, <1>11 DEF Sound
<1> HIDE DEF rest
<1> QED BY <1>1, <1>2, <1>3, <1>6, <1>7, <1>12, Zenon DEF StacksAdded, n, new, rest

\* A sequence over S whose elements lie in T is a sequence over T.
LEMMA SeqNarrow ==
  ASSUME NEW S, NEW T, NEW cs \in Seq(S), Range(cs) \subseteq T
  PROVE  cs \in Seq(T)
<1>1. \A i \in 1..Len(cs) : cs[i] \in T
  BY DEF Range
<1> QED BY <1>1

\* Detaching takes exactly the cards of gone out of the stacks.
LEMMA DetachSound ==
  ASSUME NEW b, NEW out, Sound(b, out), NEW gone, gone \subseteq DOMAIN b.cards
  PROVE  /\ Sound(Detach(b, gone), out \cup gone)
         /\ Detach(b, gone).cards = b.cards /\ Detach(b, gone).nextZ = b.nextZ
         /\ Detach(b, gone).nextCard = b.nextCard
         /\ DOMAIN Detach(b, gone).stacks \subseteq DOMAIN b.stacks
         /\ \A s \in DOMAIN Detach(b, gone).stacks :
              CardsOf(Detach(b, gone), s) = CardsOf(b, s) \ gone
         /\ \A s \in DOMAIN b.stacks \ DOMAIN Detach(b, gone).stacks :
              CardsOf(b, s) \subseteq gone
<1> DEFINE n == Detach(b, gone)
           Left(s) == {i \in DOMAIN b.stacks[s].cards : b.stacks[s].cards[i] \notin gone}
           ks(s) == Keep(b.stacks[s].cards, Left(s))
<1>0. /\ WellFormed(b) /\ Ordered(b) /\ PlacedBut(b, out)
      /\ b.nextZ \in Nat /\ b.nextZ >= 10 /\ b.nextCard \in Nat
      /\ DOMAIN b.cards \subseteq 1..b.nextCard
      /\ \A c \in DOMAIN b.cards : b.cards[c] \in Card
      /\ DOMAIN b.stacks \subseteq 11..b.nextZ
  BY DEF Sound, WellFormed
<1>1. /\ DOMAIN n = {"cards", "stacks", "nextZ", "nextCard"}
      /\ n.cards = b.cards /\ n.nextZ = b.nextZ /\ n.nextCard = b.nextCard
      /\ n.stacks = [s \in {x \in DOMAIN b.stacks : Left(x) # {}} |->
                       [cards |-> ks(s), z |-> b.stacks[s].z]]
  BY DEF Detach
<1>2. ASSUME NEW s \in DOMAIN b.stacks
      PROVE  /\ ks(s) \in Seq(DOMAIN b.cards)
             /\ Range(ks(s)) = CardsOf(b, s) \ gone
             /\ IsInjective(ks(s))
             /\ Left(s) = {} <=> CardsOf(b, s) \ gone = {}
             /\ ks(s) = <<>> <=> CardsOf(b, s) \ gone = {}
  <2> DEFINE cs == b.stacks[s].cards
  <2>1. cs \in Seq(DOMAIN b.cards) /\ IsInjective(cs)
    BY <1>0, CardsInTable DEF PlacedBut
  <2>2. Left(s) \in SUBSET DOMAIN cs
    OBVIOUS
  <2>3. CardsOf(b, s) \ gone = {cs[i] : i \in Left(s)}
    BY DEF CardsOf, Range
  <2> HIDE DEF cs, Left
  <2>4. /\ Keep(cs, Left(s)) \in Seq(DOMAIN b.cards)
        /\ Range(Keep(cs, Left(s))) = {cs[i] : i \in Left(s)}
        /\ IsInjective(Keep(cs, Left(s)))
    BY <2>1, <2>2, KeepProperties
  <2>5. ks(s) = Keep(cs, Left(s))
    BY DEF cs
  <2>6. Left(s) = {} <=> CardsOf(b, s) \ gone = {}
    BY <2>3
  <2>7. ks(s) = <<>> <=> CardsOf(b, s) \ gone = {}
    BY <2>3, <2>4, <2>5, EmptyRange
  <2> QED BY <2>3, <2>4, <2>5, <2>6, <2>7
<1> HIDE DEF n, Left, ks
<1>3. DOMAIN n.stacks = {x \in DOMAIN b.stacks : CardsOf(b, x) \ gone # {}}
  BY <1>1, <1>2
<1>4. ASSUME NEW s \in DOMAIN n.stacks
      PROVE  /\ n.stacks[s] = [cards |-> ks(s), z |-> b.stacks[s].z]
             /\ n.stacks[s].cards = ks(s) /\ n.stacks[s].z = b.stacks[s].z
             /\ CardsOf(n, s) = CardsOf(b, s) \ gone
             /\ s \in DOMAIN b.stacks
  <2>1. s \in DOMAIN b.stacks
    BY <1>3
  <2>2. n.stacks[s] = [cards |-> ks(s), z |-> b.stacks[s].z]
    BY <1>1, <1>2
  <2>3. n.stacks[s].cards = ks(s) /\ n.stacks[s].z = b.stacks[s].z
    BY <2>2
  <2> QED BY <1>2, <2>1, <2>2, <2>3 DEF CardsOf
<1>5. WellFormed(n)
  <2>1. ASSUME NEW s \in DOMAIN n.stacks
        PROVE  n.stacks[s] \in [cards : Seq(DOMAIN n.cards), z : 11..n.nextZ]
    <3>1. ks(s) \in Seq(DOMAIN n.cards) /\ b.stacks[s].z \in 11..n.nextZ
      BY <1>0, <1>1, <1>2, <1>4, CardsInTable
    <3>2. [cards |-> ks(s), z |-> b.stacks[s].z] \in [cards : Seq(DOMAIN n.cards), z : 11..n.nextZ]
      BY <3>1
    <3> QED BY <1>4, <3>2, Zenon
  <2>2. DOMAIN n.stacks \subseteq 11..n.nextZ
    BY <1>0, <1>1, <1>3
  <2> QED BY <1>0, <1>1, <2>1, <2>2 DEF WellFormed
<1>6. Ordered(n)
  BY <1>0, <1>4 DEF Ordered
<1>7. PlacedBut(n, out \cup gone)
  <2>1. \A s \in DOMAIN n.stacks : n.stacks[s].cards # <<>> /\ IsInjective(n.stacks[s].cards)
    <3> SUFFICES ASSUME NEW s \in DOMAIN n.stacks
                 PROVE  n.stacks[s].cards # <<>> /\ IsInjective(n.stacks[s].cards)
      OBVIOUS
    <3>1. CardsOf(b, s) \ gone # {}
      BY <1>3
    <3>2. s \in DOMAIN b.stacks /\ n.stacks[s].cards = ks(s)
      BY <1>4
    <3> QED BY <1>2, <3>1, <3>2
  <2>2. \A s, t \in DOMAIN n.stacks : s # t => CardsOf(n, s) \cap CardsOf(n, t) = {}
    <3>1. \A s, t \in DOMAIN b.stacks : s # t => CardsOf(b, s) \cap CardsOf(b, t) = {}
      BY <1>0 DEF PlacedBut
    <3> QED BY <1>4, <3>1
  <2>3. ASSUME NEW c \in DOMAIN b.cards
        PROVE  c \in out \cup gone <=> \A s \in DOMAIN n.stacks : c \notin CardsOf(n, s)
    <3>1. c \in out <=> \A s \in DOMAIN b.stacks : c \notin CardsOf(b, s)
      BY <1>0 DEF PlacedBut
    <3>2. \A s \in DOMAIN b.stacks : c \in CardsOf(b, s) /\ c \notin gone
            => s \in DOMAIN n.stacks /\ c \in CardsOf(n, s)
      BY <1>3, <1>4
    <3>3. \A s \in DOMAIN n.stacks : c \in CardsOf(n, s)
            => s \in DOMAIN b.stacks /\ c \in CardsOf(b, s) /\ c \notin gone
      BY <1>4
    <3> QED BY <3>1, <3>2, <3>3
  <2>4. out \subseteq DOMAIN b.cards
    BY <1>0 DEF PlacedBut
  <2> QED BY <1>1, <2>1, <2>2, <2>3, <2>4 DEF PlacedBut
<1>8. Sound(n, out \cup gone)
  BY <1>5, <1>6, <1>7 DEF Sound
<1>9. DOMAIN n.stacks \subseteq DOMAIN b.stacks
  BY <1>3
<1>10. \A s \in DOMAIN n.stacks : CardsOf(n, s) = CardsOf(b, s) \ gone
  BY <1>4
<1>11. \A s \in DOMAIN b.stacks \ DOMAIN n.stacks : CardsOf(b, s) \subseteq gone
  BY <1>3
<1> QED BY <1>1, <1>8, <1>9, <1>10, <1>11 DEF n

\* Removing cards leaves neither them nor a trace of them.
LEMMA RemoveSound ==
  ASSUME NEW b, Sound(b, {}), NEW gone, gone \subseteq DOMAIN b.cards
  PROVE  /\ Sound(Remove(b, gone), {})
         /\ Remove(b, gone).nextZ = b.nextZ /\ Remove(b, gone).nextCard = b.nextCard
         /\ DOMAIN Remove(b, gone).cards = DOMAIN b.cards \ gone
         /\ \A c \in DOMAIN b.cards \ gone : Remove(b, gone).cards[c] = b.cards[c]
         /\ DOMAIN Remove(b, gone).stacks \subseteq DOMAIN b.stacks
         /\ \A s \in DOMAIN Remove(b, gone).stacks :
              CardsOf(Remove(b, gone), s) = CardsOf(b, s) \ gone
         /\ \A s \in DOMAIN b.stacks \ DOMAIN Remove(b, gone).stacks :
              CardsOf(b, s) \subseteq gone
<1> DEFINE d == Detach(b, gone)
           n == Remove(b, gone)
<1>1. /\ DOMAIN n = {"cards", "stacks", "nextZ", "nextCard"}
      /\ n.cards = [c \in DOMAIN b.cards \ gone |-> b.cards[c]]
      /\ n.stacks = d.stacks /\ n.nextZ = d.nextZ /\ n.nextCard = d.nextCard
  BY DEF Remove
<1>2. /\ Sound(d, {} \cup gone)
      /\ d.cards = b.cards /\ d.nextZ = b.nextZ /\ d.nextCard = b.nextCard
      /\ DOMAIN d.stacks \subseteq DOMAIN b.stacks
      /\ \A s \in DOMAIN d.stacks : CardsOf(d, s) = CardsOf(b, s) \ gone
      /\ \A s \in DOMAIN b.stacks \ DOMAIN d.stacks : CardsOf(b, s) \subseteq gone
  BY DetachSound
<1> HIDE DEF n, d
<1>3. WellFormed(d) /\ Ordered(d) /\ PlacedBut(d, gone) /\ {} \cup gone = gone
  BY <1>2 DEF Sound
<1>4. \A s \in DOMAIN d.stacks : CardsOf(n, s) = CardsOf(d, s)
  BY <1>1 DEF CardsOf
<1>5. DOMAIN n.cards = DOMAIN d.cards \ gone
  BY <1>1, <1>2
<1>6. \A c \in DOMAIN b.cards \ gone : n.cards[c] = b.cards[c]
  BY <1>1
<1>7. WellFormed(n)
  <2>1. ASSUME NEW s \in DOMAIN d.stacks
        PROVE  d.stacks[s] \in [cards : Seq(DOMAIN n.cards), z : 11..d.nextZ]
    <3>1. /\ d.stacks[s] = [cards |-> d.stacks[s].cards, z |-> d.stacks[s].z]
          /\ d.stacks[s].z \in 11..d.nextZ
          /\ d.stacks[s].cards \in Seq(DOMAIN d.cards)
          /\ CardsOf(d, s) \subseteq DOMAIN d.cards
      BY <1>3, CardsInTable, Zenon
    <3>2. Range(d.stacks[s].cards) \subseteq DOMAIN n.cards
      BY <1>2, <1>5, <3>1 DEF CardsOf
    <3>3. d.stacks[s].cards \in Seq(DOMAIN n.cards)
      BY <3>1, <3>2, SeqNarrow
    <3>4. [cards |-> d.stacks[s].cards, z |-> d.stacks[s].z]
            \in [cards : Seq(DOMAIN n.cards), z : 11..d.nextZ]
      BY <3>1, <3>3
    <3> QED BY <3>1, <3>4, Zenon
  <2>2. \A c \in DOMAIN n.cards : n.cards[c] \in Card
    BY <1>2, <1>3, <1>5, <1>6 DEF WellFormed
  <2>3. DOMAIN n.cards \subseteq 1..n.nextCard
    BY <1>1, <1>3, <1>5 DEF WellFormed
  <2> QED BY <1>1, <1>3, <2>1, <2>2, <2>3 DEF WellFormed
<1>8. Ordered(n)
  BY <1>1, <1>3 DEF Ordered
<1>9. PlacedBut(n, {})
  <2>1. \A c \in DOMAIN n.cards : ~ \A s \in DOMAIN n.stacks : c \notin CardsOf(n, s)
    BY <1>1, <1>3, <1>4, <1>5 DEF PlacedBut
  <2> QED BY <1>1, <1>3, <1>4, <2>1 DEF PlacedBut
<1>10. Sound(n, {})
  BY <1>7, <1>8, <1>9 DEF Sound
<1> QED BY <1>1, <1>2, <1>4, <1>5, <1>6, <1>10 DEF n

\* n is b with the cards ds, each in a stack of its own.
SinglesAdded(b, ds, n) ==
  /\ Sound(n, {})
  /\ n.nextZ = b.nextZ + Len(ds) /\ n.nextCard = b.nextCard + Len(ds)
  /\ DOMAIN n.cards = DOMAIN b.cards \cup (b.nextCard + 1)..(b.nextCard + Len(ds))
  /\ \A c \in DOMAIN b.cards : n.cards[c] = b.cards[c]
  /\ DOMAIN n.stacks = DOMAIN b.stacks \cup (b.nextZ + 1)..(b.nextZ + Len(ds))
  /\ \A s \in DOMAIN b.stacks : n.stacks[s] = b.stacks[s]
  /\ \A i \in 1..Len(ds) : /\ n.stacks[b.nextZ + i].cards = <<b.nextCard + i>>
                           /\ n.cards[b.nextCard + i] = ds[i]

LEMMA SpawnSinglesSound ==
  ASSUME NEW b, Sound(b, {}), NEW ds \in Seq(Card)
  PROVE  SinglesAdded(b, ds, SpawnSingles(b, ds))
<1> DEFINE m == CreateCards(b, ds)
           css == [i \in 1..Len(ds) |-> <<b.nextCard + i>>]
           n == SpawnSingles(b, ds)
           new == (b.nextCard + 1)..(b.nextCard + Len(ds))
<1>1. b.nextCard \in Nat /\ Len(ds) \in Nat /\ DOMAIN ds = 1..Len(ds)
  BY DEF Sound, WellFormed
<1>2. /\ Sound(m, {} \cup new) /\ m.stacks = b.stacks /\ m.nextZ = b.nextZ
      /\ m.nextCard = b.nextCard + Len(ds)
      /\ DOMAIN m.cards = DOMAIN b.cards \cup new
      /\ \A c \in DOMAIN b.cards : m.cards[c] = b.cards[c]
      /\ \A i \in 1..Len(ds) : m.cards[b.nextCard + i] = ds[i]
  <2>1. CardsAdded(b, {}, ds, m)
    BY CreateCardsSound
  <2> HIDE DEF m
  <2> QED BY <2>1 DEF CardsAdded
<1>3. n = CreateStacks(m, css)
  BY DEF SpawnSingles
<1>4. \A i \in 1..Len(ds) : b.nextCard + i \in new
  BY <1>1
<1>5. \A c \in new : c - b.nextCard \in 1..Len(ds) /\ b.nextCard + (c - b.nextCard) = c
  BY <1>1
<1>6. Len(css) = Len(ds) /\ DOMAIN css = 1..Len(ds)
  BY <1>1
<1> HIDE DEF new, m
<1>7. ASSUME NEW i \in DOMAIN css
      PROVE  /\ css[i] = <<b.nextCard + i>>
             /\ css[i] \in Seq(DOMAIN m.cards)
             /\ css[i] # <<>> /\ IsInjective(css[i])
             /\ Range(css[i]) = {b.nextCard + i}
             /\ b.nextCard + i \in new
  <2>1. css[i] = <<b.nextCard + i>>
    BY <1>6
  <2>2. b.nextCard + i \in new
    BY <1>4, <1>6
  <2>3. <<b.nextCard + i>> \in Seq(DOMAIN m.cards)
    BY <1>2, <2>2
  <2> QED BY <2>1, <2>2, <2>3, OneElement
<1>8. css \in Seq(Seq(DOMAIN m.cards))
  <2>1. css = [i \in 1..Len(ds) |-> css[i]]
    OBVIOUS
  <2> HIDE DEF css
  <2>2. [i \in 1..Len(ds) |-> css[i]] \in Seq(Seq(DOMAIN m.cards))
    BY <1>1, <1>6, <1>7
  <2> QED BY <2>1, <2>2
<1>9. \A i, j \in DOMAIN css : i # j => Range(css[i]) \cap Range(css[j]) = {}
  <2>1. \A i, j \in DOMAIN css : i # j => b.nextCard + i # b.nextCard + j
    BY <1>1, <1>6
  <2> QED BY <1>7, <2>1
<1> HIDE DEF css, n
<1>10. StacksAdded(m, {} \cup new, css, n)
  <2>1. \A i \in DOMAIN css : css[i] # <<>> /\ IsInjective(css[i]) /\ Range(css[i]) \subseteq {} \cup new
    BY <1>7
  <2>2. Fits(m, {} \cup new, css)
    BY <1>8, <1>9, <2>1 DEF Fits
  <2> QED BY <1>2, <1>3, <2>2, CreateStacksSound
<1>11. {c \in {} \cup new : \A i \in DOMAIN css : c \notin Range(css[i])} = {}
  BY <1>5, <1>6, <1>7
<1>12. /\ Sound(n, {}) /\ n.cards = m.cards
       /\ n.nextCard = b.nextCard + Len(ds) /\ n.nextZ = b.nextZ + Len(ds)
       /\ DOMAIN n.stacks = DOMAIN b.stacks \cup (b.nextZ + 1)..(b.nextZ + Len(ds))
       /\ \A s \in DOMAIN b.stacks : n.stacks[s] = b.stacks[s]
  BY <1>2, <1>6, <1>10, <1>11 DEF StacksAdded
<1>13. ASSUME NEW i \in DOMAIN ds
       PROVE  /\ n.stacks[b.nextZ + i].cards = <<b.nextCard + i>>
              /\ n.cards[b.nextCard + i] = ds[i]
  BY <1>1, <1>2, <1>6, <1>7, <1>10 DEF StacksAdded
<1> QED BY <1>1, <1>2, <1>12, <1>13 DEF SinglesAdded, n, new

\* Putting a card of out on a stack.
LEMMA AppendSound ==
  ASSUME NEW b, NEW c, Sound(b, {c}), NEW s \in DOMAIN b.stacks
  PROVE  Sound(SetStack(b, s, Append(b.stacks[s].cards, c), b.stacks[s].z), {})
<1> DEFINE cs == b.stacks[s].cards
           ds == Append(cs, c)
           n == SetStack(b, s, ds, b.stacks[s].z)
<1>0. /\ WellFormed(b) /\ Ordered(b) /\ PlacedBut(b, {c})
      /\ c \in DOMAIN b.cards
      /\ DOMAIN b = {"cards", "stacks", "nextZ", "nextCard"}
  BY DEF Sound, PlacedBut, WellFormed
<1>1. /\ DOMAIN n = {"cards", "stacks", "nextZ", "nextCard"}
      /\ n.cards = b.cards /\ n.nextZ = b.nextZ /\ n.nextCard = b.nextCard
      /\ n.stacks = [b.stacks EXCEPT ![s] = [cards |-> ds, z |-> b.stacks[s].z]]
  BY <1>0 DEF SetStack
<1>2. cs \in Seq(DOMAIN b.cards) /\ IsInjective(cs) /\ c \notin Range(cs)
  BY <1>0, CardsInTable DEF PlacedBut, CardsOf
<1> HIDE DEF n, cs
<1>3. /\ ds \in Seq(DOMAIN b.cards) /\ ds # <<>>
      /\ Range(ds) = Range(cs) \cup {c} /\ IsInjective(ds)
  <2>1. ds = cs \o <<c>>
    BY <1>2
  <2>2. <<c>> \in Seq(DOMAIN b.cards) /\ Range(<<c>>) = {c} /\ IsInjective(<<c>>)
    BY <1>0, OneElement
  <2>3. cs \o <<c>> \in Seq(DOMAIN b.cards) /\ Range(cs \o <<c>>) = Range(cs) \cup Range(<<c>>)
    BY <1>2, <2>2, ConcatInjective
  <2>4. Range(cs) \cap Range(<<c>>) = {}
    BY <1>2, <2>2
  <2>5. IsInjective(cs \o <<c>>)
    BY <1>2, <2>2, <2>4, ConcatInjective
  <2>6. cs \o <<c>> # <<>>
    BY <1>2
  <2> QED BY <2>1, <2>2, <2>3, <2>5, <2>6
<1> HIDE DEF ds
<1>4. \A t \in DOMAIN b.stacks :
        n.stacks[t] = IF t = s THEN [cards |-> ds, z |-> b.stacks[s].z] ELSE b.stacks[t]
  BY <1>1
<1>5. \A t \in DOMAIN b.stacks :
        /\ n.stacks[t].z = b.stacks[t].z
        /\ n.stacks[t].cards = IF t = s THEN ds ELSE b.stacks[t].cards
  BY <1>4
<1>6. \A t \in DOMAIN b.stacks :
        CardsOf(n, t) = IF t = s THEN CardsOf(b, s) \cup {c} ELSE CardsOf(b, t)
  BY <1>3, <1>5 DEF CardsOf, cs
<1>7. WellFormed(n)
  BY <1>0, <1>1, <1>3, <1>4, CardsInTable DEF WellFormed
<1>8. Ordered(n)
  BY <1>0, <1>1, <1>5 DEF Ordered
<1>9. PlacedBut(n, {})
  <2>0. DOMAIN n.stacks = DOMAIN b.stacks
    BY <1>1
  <2>1. \A t \in DOMAIN n.stacks : n.stacks[t].cards # <<>> /\ IsInjective(n.stacks[t].cards)
    BY <1>0, <1>3, <1>5, <2>0 DEF PlacedBut
  <2>2. \A t \in DOMAIN b.stacks : c \notin CardsOf(b, t)
    BY <1>0 DEF PlacedBut
  <2>3. \A t, u \in DOMAIN n.stacks : t # u => CardsOf(n, t) \cap CardsOf(n, u) = {}
    BY <1>0, <1>6, <2>0, <2>2 DEF PlacedBut
  <2>4. \A d \in DOMAIN b.cards : \E t \in DOMAIN n.stacks : d \in CardsOf(n, t)
    BY <1>0, <1>6, <2>0 DEF PlacedBut
  <2> QED BY <1>1, <2>1, <2>3, <2>4 DEF PlacedBut
<1> QED BY <1>7, <1>8, <1>9 DEF Sound, n, ds, cs

\* Changing the data of a card moves nothing.
LEMMA SetCardSound ==
  ASSUME NEW b, Sound(b, {}), NEW c \in DOMAIN b.cards, NEW r \in Card
  PROVE  Sound(SetCard(b, c, r), {})
<1> DEFINE n == SetCard(b, c, r)
<1>0. WellFormed(b) /\ Ordered(b) /\ PlacedBut(b, {})
      /\ DOMAIN b = {"cards", "stacks", "nextZ", "nextCard"}
  BY DEF Sound, WellFormed
<1>1. /\ DOMAIN n = {"cards", "stacks", "nextZ", "nextCard"}
      /\ n.cards = [b.cards EXCEPT ![c] = r]
      /\ n.stacks = b.stacks /\ n.nextZ = b.nextZ /\ n.nextCard = b.nextCard
  BY <1>0 DEF SetCard
<1> HIDE DEF n
<1>2. DOMAIN n.cards = DOMAIN b.cards
  BY <1>1
<1>3. \A d \in DOMAIN n.cards : n.cards[d] \in Card
  BY <1>0, <1>1 DEF WellFormed
<1>4. WellFormed(n)
  BY <1>0, <1>1, <1>2, <1>3 DEF WellFormed
<1>5. \A s \in DOMAIN b.stacks : CardsOf(n, s) = CardsOf(b, s)
  BY <1>1 DEF CardsOf
<1>6. Ordered(n)
  BY <1>0, <1>1 DEF Ordered
<1>7. PlacedBut(n, {})
  BY <1>0, <1>1, <1>2, <1>5 DEF PlacedBut
<1> QED BY <1>4, <1>6, <1>7 DEF Sound, n

LEMMA UseUpSound ==
  ASSUME NEW b, Sound(b, {}), NEW c \in DOMAIN b.cards
  PROVE  Sound(UseUp(b, c), {})
<1>1. CASE b.cards[c].left = 1
  BY <1>1, RemoveSound DEF UseUp
<1>2. CASE b.cards[c].left # 1
  <2> DEFINE r == [b.cards[c] EXCEPT !.left = @ - 1]
  <2>1. b.cards[c] \in Card
    BY DEF Sound, WellFormed
  <2>2. r \in Card
    BY <1>2, <2>1, BoundsAssumption DEF Card
  <2>3. UseUp(b, c) = SetCard(b, c, r)
    BY <1>2 DEF UseUp
  <2> HIDE DEF r
  <2> QED BY <2>2, <2>3, SetCardSound
<1> QED BY <1>1, <1>2

-----------------------------------------------------------------------------
(* Which cards share a stack *)

\* Two cards may share a stack: neither is a deck, and no rule parts their kinds.
MayMeet(b, c, d) ==
  c # d => /\ KindOf(b, c) # "deck"
           /\ <<KindOf(b, c), KindOf(b, d)>> \notin DisallowedPairs
Friendly(b, C) == \A c, d \in C : MayMeet(b, c, d)
Calm(b, C)     == \A c \in C : KindOf(b, c) \notin {"deck", "zombie"}
Tidy(b)        == \A s \in DOMAIN b.stacks : Friendly(b, CardsOf(b, s))

\* Every villager of b is in n.
Spares(b, n) ==
  \A c \in DOMAIN b.cards : KindOf(b, c) = "villager" =>
    c \in DOMAIN n.cards /\ KindOf(n, c) = "villager"

\* What a step of a command that leads from b to n keeps, and so do its steps together.
Follows(b, n) == Tidy(b) => Tidy(n) /\ Spares(b, n)

LEMMA FollowsOn ==
  ASSUME NEW b, NEW m, NEW n, Follows(b, m), Follows(m, n)
  PROVE  Follows(b, n)
BY DEF Follows, Spares

LEMMA TidyIsApart ==
  ASSUME NEW b, Sound(b, {}), Tidy(b)
  PROVE  Apart(b) /\ Alone(b)
<1>1. Apart(b)
  <2>1. ASSUME NEW s \in DOMAIN b.stacks, NEW pair \in DisallowedPairs,
               Has(b, s, pair[1]), Has(b, s, pair[2])
        PROVE  FALSE
    <3>1. PICK c \in CardsOf(b, s) : KindOf(b, c) = pair[1]
      BY <2>1 DEF Has
    <3>2. PICK d \in CardsOf(b, s) : KindOf(b, d) = pair[2]
      BY <2>1 DEF Has
    <3>3. pair[1] # pair[2] /\ pair = <<pair[1], pair[2]>>
      BY DEF DisallowedPairs
    <3>4. MayMeet(b, c, d)
      BY DEF Tidy, Friendly
    <3> QED BY <3>1, <3>2, <3>3, <3>4 DEF MayMeet
  <2> QED BY <2>1 DEF Apart
<1>2. ASSUME NEW s \in DOMAIN b.stacks, Has(b, s, "deck")
      PROVE  Len(b.stacks[s].cards) = 1
  <2> DEFINE cs == b.stacks[s].cards
  <2>1. cs \in Seq(DOMAIN b.cards) /\ cs # <<>> /\ IsInjective(cs)
    BY CardsInTable DEF Sound, PlacedBut
  <2>2. PICK c \in CardsOf(b, s) : KindOf(b, c) = "deck"
    BY <1>2 DEF Has
  <2>3. \A d \in CardsOf(b, s) : d = c
    BY <2>2 DEF Tidy, Friendly, MayMeet
  <2>4. \A i \in DOMAIN cs : cs[i] = c
    BY <2>3 DEF CardsOf, Range
  <2> HIDE DEF cs
  <2>5. \A i, j \in DOMAIN cs : i = j
    BY <2>1, <2>4 DEF IsInjective
  <2>6. DOMAIN cs = 1..Len(cs) /\ Len(cs) \in Nat /\ Len(cs) # 0
    BY <2>1
  <2>7. 1 \in DOMAIN cs /\ Len(cs) \in DOMAIN cs
    BY <2>6
  <2>8. Len(cs) = 1
    BY <2>5, <2>7
  <2> QED BY <2>8 DEF cs
<1> QED BY <1>1, <1>2 DEF Alone

\* Every rule is about a zombie, so where there is none, and no deck, all is well.
LEMMA CalmIsFriendly ==
  ASSUME NEW b, NEW C, Calm(b, C)
  PROVE  Friendly(b, C)
BY DEF Calm, Friendly, MayMeet, DisallowedPairs

\* And beside a card that no zombie may meet there is none, nor a deck.
LEMMA CalmCompany ==
  ASSUME NEW b, NEW C, Friendly(b, C), NEW x \in C,
         KindOf(b, x) \in {"task", "villager", "resource", "food"}
  PROVE  Calm(b, C)
<1> SUFFICES ASSUME NEW c \in C PROVE KindOf(b, c) \notin {"deck", "zombie"}
  BY DEF Calm
<1>1. CASE c = x
  BY <1>1
<1>2. CASE c # x
  <2>1. MayMeet(b, c, x) /\ MayMeet(b, x, c)
    BY DEF Friendly
  <2>2. KindOf(b, c) # "deck" /\ <<KindOf(b, x), KindOf(b, c)>> \notin DisallowedPairs
    BY <1>2, <2>1 DEF MayMeet
  <2> QED BY <2>2 DEF DisallowedPairs
<1> QED BY <1>1, <1>2

LEMMA FriendlyWithin ==
  ASSUME NEW b, NEW n, NEW C, NEW D, Friendly(b, C), D \subseteq C,
         \A c \in D : KindOf(n, c) = KindOf(b, c)
  PROVE  Friendly(n, D)
BY DEF Friendly, MayMeet

\* Cards that leave a stack, or lie in another order, meet nobody new.
LEMMA TakingFollows ==
  ASSUME NEW b, NEW n, n.cards = b.cards,
         \A s \in DOMAIN n.stacks : s \in DOMAIN b.stacks /\ CardsOf(n, s) \subseteq CardsOf(b, s)
  PROVE  Follows(b, n)
<1>1. \A c : KindOf(n, c) = KindOf(b, c)
  BY DEF KindOf
<1>2. ASSUME Tidy(b), NEW s \in DOMAIN n.stacks PROVE Friendly(n, CardsOf(n, s))
  BY <1>1, <1>2, FriendlyWithin DEF Tidy
<1> QED BY <1>1, <1>2 DEF Follows, Tidy, Spares

LEMMA RemoveFollows ==
  ASSUME NEW b, Sound(b, {}), NEW gone, gone \subseteq DOMAIN b.cards,
         Tidy(b) => \A c \in gone : KindOf(b, c) # "villager"
  PROVE  Follows(b, Remove(b, gone))
<1> DEFINE n == Remove(b, gone)
<1>1. /\ DOMAIN n.cards = DOMAIN b.cards \ gone
      /\ \A c \in DOMAIN n.cards : n.cards[c] = b.cards[c]
      /\ \A s \in DOMAIN n.stacks : s \in DOMAIN b.stacks /\ CardsOf(n, s) = CardsOf(b, s) \ gone
      /\ Sound(n, {})
  BY RemoveSound
<1> HIDE DEF n
<1>2. \A c \in DOMAIN n.cards : KindOf(n, c) = KindOf(b, c)
  BY <1>1 DEF KindOf
<1>3. ASSUME Tidy(b), NEW s \in DOMAIN n.stacks PROVE Friendly(n, CardsOf(n, s))
  <2>1. CardsOf(n, s) \subseteq DOMAIN n.cards
    BY <1>1, CardsInTable DEF Sound
  <2>2. Friendly(b, CardsOf(b, s)) /\ CardsOf(n, s) \subseteq CardsOf(b, s)
    BY <1>1, <1>3 DEF Tidy
  <2> QED BY <1>2, <2>1, <2>2, FriendlyWithin
<1>4. ASSUME Tidy(b) PROVE Spares(b, n)
  BY <1>1, <1>2, <1>4 DEF Spares
<1> QED BY <1>3, <1>4 DEF Follows, Tidy, n

LEMMA MergeFollows ==
  ASSUME NEW b, NEW out, Sound(b, out), NEW t \in DOMAIN b.stacks, NEW s \in DOMAIN b.stacks,
         Tidy(b) /\ t # s => Friendly(b, CardsOf(b, t) \cup CardsOf(b, s))
  PROVE  Follows(b, MergeStacks(b, t, s))
<1> DEFINE n == MergeStacks(b, t, s)
<1>1. CASE t = s
  BY <1>1 DEF MergeStacks, Follows, Spares
<1>2. CASE t # s
  <2>1. /\ n.cards = b.cards /\ DOMAIN n.stacks = DOMAIN b.stacks \ {s}
        /\ \A x \in DOMAIN n.stacks :
             CardsOf(n, x) = IF x = t THEN CardsOf(b, t) \cup CardsOf(b, s) ELSE CardsOf(b, x)
    BY <1>2, MergeSound
  <2> HIDE DEF n
  <2>2. \A c : KindOf(n, c) = KindOf(b, c)
    BY <2>1 DEF KindOf
  <2>3. ASSUME Tidy(b), NEW x \in DOMAIN n.stacks PROVE Friendly(b, CardsOf(n, x))
    BY <1>2, <2>1, <2>3 DEF Tidy
  <2>4. ASSUME Tidy(b), NEW x \in DOMAIN n.stacks PROVE Friendly(n, CardsOf(n, x))
    BY <2>2, <2>3, <2>4, FriendlyWithin
  <2> QED BY <2>1, <2>2, <2>4 DEF Follows, Tidy, Spares, n
<1> QED BY <1>1, <1>2

\* What the validator lets merge.
LEMMA ValidIsFriendly ==
  ASSUME NEW b, Tidy(b), NEW t \in DOMAIN b.stacks, NEW s \in DOMAIN b.stacks,
         ValidStackMerge(b, t, s)
  PROVE  Friendly(b, CardsOf(b, t) \cup CardsOf(b, s))
<1> DEFINE T == CardsOf(b, t)
           S == CardsOf(b, s)
<1>1. \A c \in T \cup S : KindOf(b, c) # "deck"
  BY DEF ValidStackMerge, Either, Has
<1>2. CASE (Pure(b, t, "loot") /\ Pure(b, s, "loot")) \/ SameModifier(b, t, s)
  <2>1. Calm(b, T \cup S)
    BY <1>2 DEF SameModifier, Pure, Calm
  <2> QED BY <2>1, CalmIsFriendly
<1>3. CASE \A pair \in DisallowedPairs : ~PairMatches(b, t, s, pair)
  <2> SUFFICES ASSUME NEW c \in T \cup S, NEW d \in T \cup S,
                      <<KindOf(b, c), KindOf(b, d)>> \in DisallowedPairs, c # d
               PROVE  FALSE
    BY <1>1 DEF Friendly, MayMeet
  <2>1. \A x, y : <<x, y>>[1] = x /\ <<x, y>>[2] = y
    OBVIOUS
  <2>2. ~PairMatches(b, t, s, <<KindOf(b, c), KindOf(b, d)>>)
    BY <1>3
  <2>3. CASE (c \in T /\ d \in S) \/ (c \in S /\ d \in T)
    BY <2>1, <2>2, <2>3 DEF PairMatches, Has
  <2>4. CASE (c \in T /\ d \in T) \/ (c \in S /\ d \in S)
    BY <2>4 DEF Tidy, Friendly, MayMeet
  <2> QED BY <2>3, <2>4
<1> QED BY <1>2, <1>3 DEF ValidStackMerge

\* New cards lie in no stack yet.
LEMMA CardsFollow ==
  ASSUME NEW b, NEW out, Sound(b, out), NEW ds \in Seq(Card)
  PROVE  Follows(b, CreateCards(b, ds))
<1> DEFINE n == CreateCards(b, ds)
<1>1. n.stacks = b.stacks /\ \A c \in DOMAIN b.cards : c \in DOMAIN n.cards /\ n.cards[c] = b.cards[c]
  BY CreateCardsSound DEF CardsAdded
<1> HIDE DEF n
<1>2. \A c \in DOMAIN b.cards : KindOf(n, c) = KindOf(b, c)
  BY <1>1 DEF KindOf
<1>3. ASSUME Tidy(b), NEW s \in DOMAIN n.stacks PROVE Friendly(n, CardsOf(n, s))
  <2>1. CardsOf(n, s) = CardsOf(b, s) /\ s \in DOMAIN b.stacks
    BY <1>1 DEF CardsOf
  <2>2. CardsOf(b, s) \subseteq DOMAIN b.cards /\ Friendly(b, CardsOf(b, s))
    BY <1>3, <2>1, CardsInTable DEF Sound, Tidy
  <2> QED BY <1>2, <2>1, <2>2, FriendlyWithin
<1> QED BY <1>1, <1>2, <1>3 DEF Follows, Tidy, Spares, n

\* A new stack of cards that may meet.
LEMMA StacksFollow ==
  ASSUME NEW b, NEW out, Sound(b, out), NEW css, NEW n, StacksAdded(b, out, css, n), css \in Seq(Seq(DOMAIN b.cards)),
         Tidy(b) => \A i \in DOMAIN css : Friendly(b, Range(css[i]))
  PROVE  Follows(b, n)
<1>1. /\ n.cards = b.cards
      /\ DOMAIN n.stacks = DOMAIN b.stacks \cup (b.nextZ + 1)..(b.nextZ + Len(css))
      /\ \A s \in DOMAIN b.stacks : n.stacks[s] = b.stacks[s]
      /\ \A i \in DOMAIN css : CardsOf(n, b.nextZ + i) = Range(css[i])
  BY DEF StacksAdded
<1>2. b.nextZ \in Nat /\ DOMAIN css = 1..Len(css) /\ Len(css) \in Nat
  BY DEF Sound, WellFormed
<1>3. \A c : KindOf(n, c) = KindOf(b, c)
  BY <1>1 DEF KindOf
<1>4. ASSUME Tidy(b), NEW s \in DOMAIN n.stacks PROVE Friendly(n, CardsOf(n, s))
  <2>1. CASE s \in DOMAIN b.stacks
    <3>1. CardsOf(n, s) = CardsOf(b, s) /\ Friendly(b, CardsOf(b, s))
      BY <1>1, <1>4, <2>1 DEF CardsOf, Tidy
    <3> QED BY <1>3, <3>1, FriendlyWithin
  <2>2. CASE s \in (b.nextZ + 1)..(b.nextZ + Len(css))
    <3>1. s - b.nextZ \in DOMAIN css /\ b.nextZ + (s - b.nextZ) = s
      BY <1>2, <2>2
    <3>2. CardsOf(n, s) = Range(css[s - b.nextZ]) /\ Friendly(b, Range(css[s - b.nextZ]))
      BY <1>1, <1>4, <3>1
    <3> QED BY <1>3, <3>2, FriendlyWithin
  <2> QED BY <1>1, <2>1, <2>2
<1> QED BY <1>1, <1>3, <1>4 DEF Follows, Tidy, Spares

LEMMA SinglesFollow ==
  ASSUME NEW b, Sound(b, {}), NEW ds \in Seq(Card)
  PROVE  Follows(b, SpawnSingles(b, ds))
<1> DEFINE n == SpawnSingles(b, ds)
<1>1. SinglesAdded(b, ds, n)
  BY SpawnSinglesSound
<1> HIDE DEF n
<1>2. /\ DOMAIN n.stacks = DOMAIN b.stacks \cup (b.nextZ + 1)..(b.nextZ + Len(ds))
      /\ \A c \in DOMAIN b.cards : c \in DOMAIN n.cards /\ n.cards[c] = b.cards[c]
      /\ \A s \in DOMAIN b.stacks : n.stacks[s] = b.stacks[s]
      /\ \A i \in 1..Len(ds) : n.stacks[b.nextZ + i].cards = <<b.nextCard + i>>
  BY <1>1 DEF SinglesAdded
<1>3. b.nextZ \in Nat /\ Len(ds) \in Nat
  BY DEF Sound, WellFormed
<1>4. \A c \in DOMAIN b.cards : KindOf(n, c) = KindOf(b, c)
  BY <1>2 DEF KindOf
<1>5. ASSUME Tidy(b), NEW s \in DOMAIN n.stacks PROVE Friendly(n, CardsOf(n, s))
  <2>1. CASE s \in DOMAIN b.stacks
    <3>1. /\ CardsOf(n, s) = CardsOf(b, s) /\ Friendly(b, CardsOf(b, s))
          /\ CardsOf(b, s) \subseteq DOMAIN b.cards
      BY <1>2, <1>5, <2>1, CardsInTable DEF CardsOf, Tidy, Sound
    <3> QED BY <1>4, <3>1, FriendlyWithin
  <2>2. CASE s \in (b.nextZ + 1)..(b.nextZ + Len(ds))
    <3> DEFINE i == s - b.nextZ
    <3>1. i \in 1..Len(ds) /\ b.nextZ + i = s
      BY <1>3, <2>2
    <3> HIDE DEF i
    <3>2. n.stacks[s].cards = <<b.nextCard + i>>
      BY <1>2, <3>1
    <3>3. CardsOf(n, s) = {b.nextCard + i}
      BY <3>2, OneElement DEF CardsOf
    <3> QED BY <3>3 DEF Friendly, MayMeet
  <2> QED BY <1>2, <2>1, <2>2
<1> QED BY <1>2, <1>4, <1>5 DEF Follows, Tidy, Spares, n

LEMMA SetCardFollows ==
  ASSUME NEW b, Sound(b, {}), NEW c \in DOMAIN b.cards, NEW r \in Card, Kind[r.def] = KindOf(b, c)
  PROVE  Follows(b, SetCard(b, c, r))
<1> DEFINE n == SetCard(b, c, r)
<1>1. n.cards = [b.cards EXCEPT ![c] = r] /\ n.stacks = b.stacks
  BY DEF SetCard, Sound, WellFormed
<1> HIDE DEF n
<1>2. DOMAIN n.cards = DOMAIN b.cards /\ \A d \in DOMAIN b.cards : KindOf(n, d) = KindOf(b, d)
  BY <1>1 DEF KindOf
<1>3. ASSUME Tidy(b), NEW s \in DOMAIN n.stacks PROVE Friendly(n, CardsOf(n, s))
  <2>1. CardsOf(n, s) = CardsOf(b, s) /\ s \in DOMAIN b.stacks
    BY <1>1 DEF CardsOf
  <2>2. CardsOf(b, s) \subseteq DOMAIN b.cards /\ Friendly(b, CardsOf(b, s))
    BY <1>3, <2>1, CardsInTable DEF Sound, Tidy
  <2> QED BY <1>2, <2>1, <2>2, FriendlyWithin
<1> QED BY <1>1, <1>2, <1>3 DEF Follows, Tidy, Spares, n

LEMMA UseUpFollows ==
  ASSUME NEW b, Sound(b, {}), NEW c \in DOMAIN b.cards, KindOf(b, c) # "villager"
  PROVE  Follows(b, UseUp(b, c))
<1>1. CASE b.cards[c].left = 1
  BY <1>1, RemoveFollows DEF UseUp
<1>2. CASE b.cards[c].left # 1
  <2> DEFINE r == [b.cards[c] EXCEPT !.left = @ - 1]
  <2>1. b.cards[c] \in Card
    BY DEF Sound, WellFormed
  <2>2. r \in Card /\ r.def = b.cards[c].def
    BY <1>2, <2>1, BoundsAssumption DEF Card
  <2>3. UseUp(b, c) = SetCard(b, c, r)
    BY <1>2 DEF UseUp
  <2> HIDE DEF r
  <2> QED BY <2>2, <2>3, SetCardFollows DEF KindOf
<1> QED BY <1>1, <1>2

\* The last steps of most commands: the face card, the lead of a villager.
LEMMA FaceFollows ==
  ASSUME NEW b, NEW out, Sound(b, out), NEW s
  PROVE  Follows(b, FacePriority(b, s))
BY FacePrioritySound, TakingFollows

LEMMA LeadFollows ==
  ASSUME NEW b, NEW out, Sound(b, out), NEW s \in DOMAIN b.stacks
  PROVE  Follows(b, LeadVillager(b, s))
BY LeadVillagerSound, TakingFollows

LEMMA DetachFollows ==
  ASSUME NEW b, NEW out, Sound(b, out), NEW gone, gone \subseteq DOMAIN b.cards
  PROVE  Follows(b, Detach(b, gone))
<1>1. /\ Detach(b, gone).cards = b.cards
      /\ \A s \in DOMAIN Detach(b, gone).stacks : s \in DOMAIN b.stacks /\ CardsOf(Detach(b, gone), s) \subseteq CardsOf(b, s)
  <2>1. /\ Detach(b, gone).cards = b.cards
        /\ DOMAIN Detach(b, gone).stacks \subseteq DOMAIN b.stacks
        /\ \A s \in DOMAIN Detach(b, gone).stacks : CardsOf(Detach(b, gone), s) = CardsOf(b, s) \ gone
    BY DetachSound
  <2> QED BY <2>1
<1> QED BY <1>1, TakingFollows

LEMMA AppendFollows ==
  ASSUME NEW b, NEW c, Sound(b, {c}), NEW s \in DOMAIN b.stacks,
         Tidy(b) => Calm(b, CardsOf(b, s) \cup {c})
  PROVE  Follows(b, SetStack(b, s, Append(b.stacks[s].cards, c), b.stacks[s].z))
<1> DEFINE n == SetStack(b, s, Append(b.stacks[s].cards, c), b.stacks[s].z)
<1>1. /\ n.cards = b.cards
      /\ n.stacks = [b.stacks EXCEPT ![s] = [cards |-> Append(b.stacks[s].cards, c), z |-> b.stacks[s].z]]
  BY DEF SetStack, Sound, WellFormed
<1> HIDE DEF n
<1>2. CardsOf(n, s) = CardsOf(b, s) \cup {c}
  <2>1. b.stacks[s].cards \in Seq(DOMAIN b.cards) /\ c \in DOMAIN b.cards
    BY CardsInTable DEF Sound, PlacedBut
  <2>2. Range(Append(b.stacks[s].cards, c)) = Range(b.stacks[s].cards) \cup {c}
    <3>1. Append(b.stacks[s].cards, c) = b.stacks[s].cards \o <<c>>
      BY <2>1
    <3>2. Range(b.stacks[s].cards \o <<c>>) = Range(b.stacks[s].cards) \cup Range(<<c>>)
      BY <2>1, AppendOne
    <3>3. Range(<<c>>) = {c}
      BY OneElement
    <3> QED BY <3>1, <3>2, <3>3
  <2> QED BY <1>1, <2>2 DEF CardsOf
<1>3. \A d : KindOf(n, d) = KindOf(b, d)
  BY <1>1 DEF KindOf
<1>4. ASSUME Tidy(b), NEW t \in DOMAIN n.stacks PROVE Friendly(n, CardsOf(n, t))
  <2>1. CASE t = s
    <3>1. Friendly(b, CardsOf(n, t))
      BY <1>2, <1>4, <2>1, CalmIsFriendly
    <3> QED BY <1>3, <3>1, FriendlyWithin
  <2>2. CASE t # s
    <3>1. CardsOf(n, t) = CardsOf(b, t) /\ t \in DOMAIN b.stacks
      BY <1>1, <2>2 DEF CardsOf
    <3>2. Friendly(b, CardsOf(b, t))
      BY <1>4, <3>1 DEF Tidy
    <3> QED BY <1>3, <3>1, <3>2, FriendlyWithin
  <2> QED BY <2>1, <2>2
<1> QED BY <1>1, <1>3, <1>4 DEF Follows, Tidy, Spares, n

LEMMA KindFacts ==
  /\ \A d \in TaskDefs : Kind[d] = "task"
  /\ \A d \in ModDefs : Kind[d] = "modifier"
  /\ \A d \in DeckDefs : Kind[d] = "deck"
<1>1. \A d \in TaskDefs : d \in Defs /\ d \notin ModDefs \cup LootDefs \cup DeckDefs
                          /\ d \notin {"villager.basic", "resource.tree", "food.apple", "zombie.default_zombie"}
  BY DEF TaskDefs, ModDefs, LootDefs, DeckDefs, PackDefs, Defs
<1>2. \A d \in ModDefs : d \in Defs /\ d \notin TaskDefs \cup LootDefs \cup DeckDefs
                          /\ d \notin {"villager.basic", "resource.tree", "food.apple", "zombie.default_zombie"}
  BY DEF TaskDefs, ModDefs, LootDefs, DeckDefs, PackDefs, Defs
<1>3. \A d \in DeckDefs : d \in Defs /\ d \notin TaskDefs \cup LootDefs \cup ModDefs
                          /\ d \notin {"villager.basic", "resource.tree", "food.apple", "zombie.default_zombie"}
  BY DEF TaskDefs, ModDefs, LootDefs, DeckDefs, PackDefs, Defs
<1> QED BY <1>1, <1>2, <1>3 DEF Kind

-----------------------------------------------------------------------------
(* New cards *)

LEMMA NewIsCard ==
  ASSUME NEW d \in Defs
  PROVE  New(d) \in Card
BY BoundsAssumption DEF New, Card

LEMMA FreshAreCards ==
  ASSUME NEW d \in Defs
  PROVE  Fresh(d) \subseteq Card
<1>1. \A n \in 1..MaxLeft : [New(d) EXCEPT !.left = n] \in Card
  BY BoundsAssumption DEF New, Card
<1> QED BY <1>1, NewIsCard DEF Fresh

LEMMA CardUpdates ==
  ASSUME NEW r \in Card
  PROVE  /\ \A n \in 1..MaxLeft : [r EXCEPT !.left = n] \in Card
         /\ \A l \in BOOLEAN : [r EXCEPT !.linked = l] \in Card
         /\ [r EXCEPT !.def = "task.instance"] \in Card
<1>1. "task.instance" \in Defs
  BY DEF Defs, TaskDefs
<1> QED BY <1>1 DEF Card

LEMMA SeedIsCards == SeedCards \in Seq(Card)
<1>1. /\ "deck.first_day" \in Defs /\ "deck.collect" \in Defs
      /\ "villager.basic" \in Defs /\ "resource.tree" \in Defs /\ "food.apple" \in Defs
  BY DEF Defs, DeckDefs
<1>2. [New("resource.tree") EXCEPT !.left = MaxLeft] \in Card
  <2>1. MaxLeft \in 1..MaxLeft
    BY BoundsAssumption
  <2> QED BY <1>1, <2>1, NewIsCard, CardUpdates
<1>3. /\ New("deck.first_day") \in Card /\ New("deck.collect") \in Card
      /\ New("villager.basic") \in Card /\ New("food.apple") \in Card
  BY <1>1, NewIsCard
<1> QED BY <1>2, <1>3 DEF SeedCards

LEMMA LinkedTaskIsCard == LinkedTask \in Card /\ [New("task.blank") EXCEPT !.linked = TRUE] \in Card
<1>1. "task.instance" \in Defs /\ "task.blank" \in Defs
  BY DEF Defs, TaskDefs
<1> QED BY <1>1, NewIsCard, CardUpdates DEF LinkedTask

LEMMA WithRewardSound ==
  ASSUME NEW b, Sound(b, {}), NEW d \in Card, NEW n \in WithReward(b, d)
  PROVE  Sound(n, {}) /\ Follows(b, n)
<1> DEFINE m == SpawnSingles(b, <<d>>)
<1>1. SinglesAdded(b, <<d>>, m) /\ Len(<<d>>) = 1 /\ Follows(b, m)
  <2>1. <<d>> \in Seq(Card) /\ Len(<<d>>) = 1
    OBVIOUS
  <2> QED BY <2>1, SpawnSinglesSound, SinglesFollow
<1>2. /\ Sound(m, {}) /\ b.nextZ \in Nat /\ m.nextZ = b.nextZ + 1
      /\ DOMAIN m.stacks = DOMAIN b.stacks \cup (b.nextZ + 1)..(b.nextZ + 1)
  BY <1>1 DEF SinglesAdded, Sound, WellFormed
<1>3. m.nextZ \in DOMAIN m.stacks
  BY <1>2
<1>4. ASSUME NEW t \in DOMAIN b.stacks, ValidStackMerge(m, t, m.nextZ)
      PROVE  /\ Sound(LeadVillager(FacePriority(MergeStacks(m, t, m.nextZ), t), t), {})
             /\ Follows(m, LeadVillager(FacePriority(MergeStacks(m, t, m.nextZ), t), t))
  <2> DEFINE g == MergeStacks(m, t, m.nextZ)
             f == FacePriority(g, t)
  <2>1. t \in DOMAIN m.stacks
    BY <1>2
  <2>2. Sound(g, {}) /\ t \in DOMAIN g.stacks /\ Follows(m, g)
    BY <1>2, <1>3, <1>4, <2>1, MergeSound, MergeFollows, ValidIsFriendly
  <2> HIDE DEF g
  <2>3. Sound(f, {}) /\ t \in DOMAIN f.stacks /\ Follows(g, f)
    BY <2>2, FacePrioritySound, FaceFollows
  <2> HIDE DEF f
  <2>4. Sound(LeadVillager(f, t), {}) /\ Follows(f, LeadVillager(f, t))
    BY <2>3, LeadVillagerSound, LeadFollows
  <2>5. Follows(m, LeadVillager(f, t))
    BY <2>2, <2>3, <2>4, FollowsOn
  <2> QED BY <2>4, <2>5 DEF f, g
<1>5. n = m \/ \E t \in DOMAIN b.stacks :
                 ValidStackMerge(m, t, m.nextZ)
                 /\ n = LeadVillager(FacePriority(MergeStacks(m, t, m.nextZ), t), t)
  BY DEF WithReward
<1> HIDE DEF m
<1>6. CASE n = m
  BY <1>1, <1>2, <1>6
<1>7. CASE Sound(n, {}) /\ Follows(m, n)
  BY <1>1, <1>7, FollowsOn
<1> QED BY <1>4, <1>5, <1>6, <1>7

LEMMA MaybeRewardSound ==
  ASSUME NEW b, Sound(b, {}), NEW n \in MaybeReward(b)
  PROVE  Sound(n, {}) /\ Follows(b, n)
<1>1. Rewards \subseteq Card
  BY FreshAreCards, BoundsAssumption DEF Rewards
<1>2. n = b \/ \E d \in Rewards : n \in WithReward(b, d)
  BY DEF MaybeReward
<1>3. Follows(b, b)
  BY DEF Follows, Spares
<1> QED BY <1>1, <1>2, <1>3, WithRewardSound

LEMMA DeliveriesAreCards ==
  ASSUME NEW draws \in Deliveries
  PROVE  draws \in Seq(Card)
<1> DEFINE D == UNION {Fresh(d) : d \in DrawDefs}
<1>1. D \subseteq Card
  BY FreshAreCards, BoundsAssumption
<1>2. PICK n \in 1..MaxDraws : draws \in [1..n -> D]
  BY DEF Deliveries
<1> HIDE DEF D
<1>3. n \in Nat
  BY BoundsAssumption
<1> QED BY <1>1, <1>2, <1>3

-----------------------------------------------------------------------------
(* Every command keeps the document sound and tidy, and spares the villagers *)

LEMMA SeedDefaultSound ==
  ASSUME Sound(board, {}), BoardSeedDefault
  PROVE  Sound(board', {}) /\ Follows(board, board')
BY SpawnSinglesSound, SinglesFollow, SeedIsCards DEF BoardSeedDefault, SinglesAdded

LEMMA CardSpawnSound ==
  ASSUME Sound(board, {}), CardSpawn
  PROVE  Sound(board', {}) /\ Follows(board, board')
<1>1. PICK d \in SpawnDefs : \E c \in Fresh(d) : board' = SpawnSingles(board, <<c>>)
  BY DEF CardSpawn
<1>2. PICK c \in Fresh(d) : board' = SpawnSingles(board, <<c>>)
  BY <1>1
<1>3. <<c>> \in Seq(Card)
  <2>1. c \in Card
    BY FreshAreCards, BoundsAssumption
  <2> QED BY <2>1
<1> QED BY <1>2, <1>3, SpawnSinglesSound, SinglesFollow DEF SinglesAdded

LEMMA DeliverSound ==
  ASSUME Sound(board, {}), Deliver
  PROVE  Sound(board', {}) /\ Follows(board, board')
BY DeliveriesAreCards, SpawnSinglesSound, SinglesFollow DEF Deliver, SinglesAdded

LEMMA CreateBlankSound ==
  ASSUME Sound(board, {}), TaskCreateBlank
  PROVE  Sound(board', {}) /\ Follows(board, board')
<1> DEFINE c == [New("task.blank") EXCEPT !.linked = TRUE]
<1>1. c \in Card
  BY LinkedTaskIsCard
<1>2. board' = SpawnSingles(board, <<c>>)
  BY DEF TaskCreateBlank
<1> HIDE DEF c
<1>3. <<c>> \in Seq(Card)
  BY <1>1
<1> QED BY <1>2, <1>3, SpawnSinglesSound, SinglesFollow DEF SinglesAdded

\* A new stack of new cards.
LEMMA NewStackSound ==
  ASSUME NEW b, Sound(b, {}), NEW cards \in Seq(Card), cards # <<>>,
         \A i \in 1..Len(cards) : Kind[cards[i].def] \in {"task", "modifier"}
  PROVE  LET n == CreateStacks(CreateCards(b, cards), <<[i \in DOMAIN cards |-> b.nextCard + i]>>)
         IN  Sound(n, {}) /\ Follows(b, n)
<1> DEFINE m == CreateCards(b, cards)
           ids == [i \in DOMAIN cards |-> b.nextCard + i]
           new == (b.nextCard + 1)..(b.nextCard + Len(cards))
<1>1. b.nextCard \in Nat /\ Len(cards) \in Nat /\ DOMAIN cards = 1..Len(cards)
  BY DEF Sound, WellFormed
<1>2. /\ Sound(m, {} \cup new) /\ DOMAIN m.cards = DOMAIN b.cards \cup new /\ Follows(b, m)
      /\ \A i \in 1..Len(cards) : m.cards[b.nextCard + i] = cards[i]
  <2>1. CardsAdded(b, {}, cards, m)
    BY CreateCardsSound
  <2>2. Follows(b, m)
    BY CardsFollow
  <2> HIDE DEF m
  <2> QED BY <2>1, <2>2 DEF CardsAdded
<1>3. \A i \in 1..Len(cards) : b.nextCard + i \in new
  BY <1>1
<1>4. \A c \in new : c - b.nextCard \in 1..Len(cards) /\ b.nextCard + (c - b.nextCard) = c
  BY <1>1
<1>5. \A i, j \in 1..Len(cards) : b.nextCard + i = b.nextCard + j => i = j
  BY <1>1
<1>6. DOMAIN ids = 1..Len(cards) /\ \A i \in 1..Len(cards) : ids[i] = b.nextCard + i
  BY <1>1
<1>7. Len(cards) # 0
  BY EmptySeq
<1> HIDE DEF m, new
<1>8. ids \in Seq(DOMAIN m.cards)
  BY <1>1, <1>2, <1>3
<1> HIDE DEF ids
<1>9. ids # <<>>
  BY <1>1, <1>6, <1>7
<1>10. IsInjective(ids)
  BY <1>5, <1>6 DEF IsInjective
<1>11. Range(ids) = new
  BY <1>3, <1>4, <1>6 DEF Range
<1>12. Fits(m, {} \cup new, <<ids>>)
  <2>1. <<ids>> \in Seq(Seq(DOMAIN m.cards))
    BY <1>8, SingleSeq
  <2>2. DOMAIN <<ids>> = {1} /\ <<ids>>[1] = ids
    OBVIOUS
  <2> QED BY <1>9, <1>10, <1>11, <2>1, <2>2 DEF Fits
<1>13. StacksAdded(m, {} \cup new, <<ids>>, CreateStacks(m, <<ids>>))
  BY <1>2, <1>12, CreateStacksSound
<1>14. {c \in {} \cup new : \A i \in DOMAIN <<ids>> : c \notin Range(<<ids>>[i])} = {}
  BY <1>11
<1>15. Sound(CreateStacks(m, <<ids>>), {})
  BY <1>13, <1>14 DEF StacksAdded
<1>16. Calm(m, Range(ids))
  <2>1. \A i \in 1..Len(cards) : KindOf(m, b.nextCard + i) \in {"task", "modifier"}
    BY <1>2 DEF KindOf
  <2> QED BY <1>1, <1>4, <1>11, <2>1 DEF Calm
<1>17. Follows(m, CreateStacks(m, <<ids>>))
  <2>1. DOMAIN <<ids>> = {1} /\ <<ids>>[1] = ids /\ <<ids>> \in Seq(Seq(DOMAIN m.cards))
    BY <1>12 DEF Fits
  <2>2. \A i \in DOMAIN <<ids>> : Friendly(m, Range(<<ids>>[i]))
    BY <1>16, <2>1, CalmIsFriendly
  <2> QED BY <1>2, <1>13, <2>1, <2>2, StacksFollow
<1>18. Follows(b, CreateStacks(m, <<ids>>))
  BY <1>2, <1>17, FollowsOn
<1> QED BY <1>15, <1>18 DEF m, ids

LEMMA SpawnExistingSound ==
  ASSUME Sound(board, {}), TaskSpawnExisting
  PROVE  Sound(board', {}) /\ Follows(board, board')
<1>1. PICK mods \in SpawnMods :
        /\ Range(mods) \subseteq RowMods
        /\ LET cards == [i \in DOMAIN mods |-> New(mods[i])] \o <<LinkedTask>>
           IN  board' = CreateStacks(CreateCards(board, cards),
                                     <<[i \in DOMAIN cards |-> board.nextCard + i]>>)
  BY DEF TaskSpawnExisting
<1> DEFINE tops == [i \in DOMAIN mods |-> New(mods[i])]
           cards == tops \o <<LinkedTask>>
<1>2. mods \in Seq(ModDefs)
  <2>1. /\ "mod.deadline_pin" \in ModDefs /\ "mod.recurring" \in ModDefs
        /\ "mod.next_action" \in ModDefs
    BY DEF ModDefs
  <2>2. SpawnMods \subseteq Seq(ModDefs)
    <3>1. \A d \in ModDefs : <<d>> \in Seq(ModDefs)
      OBVIOUS
    <3>2. \A d, e \in ModDefs : <<d, e>> \in Seq(ModDefs)
      OBVIOUS
    <3>3. <<>> \in Seq(ModDefs)
      OBVIOUS
    <3> QED BY <2>1, <3>1, <3>2, <3>3, Zenon DEF SpawnMods
  <2> QED BY <2>2
<1>3. \A i \in 1..Len(mods) : New(mods[i]) \in Card
  <2>1. ModDefs \subseteq Defs
    BY DEF Defs
  <2> QED BY <1>2, <2>1, NewIsCard
<1>4. tops \in Seq(Card) /\ \A i \in 1..Len(tops) : Kind[tops[i].def] = "modifier"
  <2>1. \A i \in 1..Len(mods) : New(mods[i]).def = mods[i] /\ Kind[mods[i]] = "modifier"
    BY <1>2, KindFacts DEF New
  <2>2. Len(tops) = Len(mods) /\ \A i \in 1..Len(mods) : tops[i] = New(mods[i])
    BY <1>2
  <2> QED BY <1>2, <1>3, <2>1, <2>2
<1>5. <<LinkedTask>> \in Seq(Card) /\ Kind[LinkedTask.def] = "task"
  <2>1. LinkedTask.def = "task.instance"
    BY DEF LinkedTask, New
  <2> QED BY <2>1, LinkedTaskIsCard, KindFacts DEF TaskDefs
<1> HIDE DEF tops
<1>6. /\ cards \in Seq(Card) /\ cards # <<>>
      /\ \A i \in 1..Len(cards) : Kind[cards[i].def] \in {"task", "modifier"}
  <2>1. Len(cards) = Len(tops) + 1 /\ Len(tops) \in Nat
    BY <1>4, <1>5
  <2>2. \A i \in 1..Len(cards) : cards[i] = IF i <= Len(tops) THEN tops[i] ELSE LinkedTask
    BY <1>4, <1>5, <2>1
  <2> QED BY <1>4, <1>5, <2>1, <2>2
<1> HIDE DEF cards
<1>7. board' = CreateStacks(CreateCards(board, cards),
                            <<[i \in DOMAIN cards |-> board.nextCard + i]>>)
  BY <1>1 DEF cards, tops
<1> QED BY <1>6, <1>7, NewStackSound

\* A stack of cards taken from where they lie.
LEMMA RegroupSound ==
  ASSUME NEW b, NEW out, Sound(b, out), NEW ids, ids # <<>>, IsInjective(ids),
         ids \in Seq(DOMAIN b.cards), Range(ids) = out
  PROVE  /\ Sound(CreateStacks(b, <<ids>>), {})
         /\ (Tidy(b) => Friendly(b, Range(ids))) => Follows(b, CreateStacks(b, <<ids>>))
<1>1. DOMAIN <<ids>> = {1} /\ <<ids>>[1] = ids /\ <<ids>> \in Seq(Seq(DOMAIN b.cards))
  <2>1. <<ids>> \in Seq(Seq(DOMAIN b.cards))
    BY SingleSeq
  <2> QED BY <2>1
<1>2. Fits(b, out, <<ids>>)
  BY <1>1 DEF Fits
<1>3. StacksAdded(b, out, <<ids>>, CreateStacks(b, <<ids>>))
  BY <1>2, CreateStacksSound
<1>4. {c \in out : \A i \in DOMAIN <<ids>> : c \notin Range(<<ids>>[i])} = {}
  BY <1>1
<1>5. ASSUME Tidy(b) => Friendly(b, Range(ids)) PROVE Follows(b, CreateStacks(b, <<ids>>))
  BY <1>1, <1>3, <1>5, StacksFollow
<1> QED BY <1>3, <1>4, <1>5 DEF StacksAdded

\* Every card of cs in a stack of its own.
LEMMA ScatterSound ==
  ASSUME NEW b, NEW cs, cs \in Seq(DOMAIN b.cards), IsInjective(cs), Sound(b, Range(cs))
  PROVE  LET n == CreateStacks(b, [i \in DOMAIN cs |-> <<cs[i]>>])
         IN  Sound(n, {}) /\ Follows(b, n)
<1> DEFINE css == [i \in DOMAIN cs |-> <<cs[i]>>]
           n == CreateStacks(b, css)
<1>1. DOMAIN css = 1..Len(cs) /\ Len(cs) \in Nat /\ DOMAIN cs = 1..Len(cs)
      /\ css = [i \in 1..Len(cs) |-> css[i]]
  OBVIOUS
<1>2. ASSUME NEW i \in DOMAIN cs
      PROVE  /\ css[i] = <<cs[i]>> /\ css[i] # <<>> /\ IsInjective(css[i])
             /\ Range(css[i]) = {cs[i]}
             /\ css[i] \in Seq(DOMAIN b.cards) /\ cs[i] \in Range(cs)
  <2>1. cs[i] \in DOMAIN b.cards /\ cs[i] \in Range(cs)
    BY DEF Range
  <2>2. <<cs[i]>> \in Seq(DOMAIN b.cards)
    BY <2>1, SingleSeq
  <2> QED BY <2>1, <2>2, OneElement
<1> HIDE DEF css, n
<1>3. css \in Seq(Seq(DOMAIN b.cards))
  <2>1. [i \in 1..Len(cs) |-> css[i]] \in Seq(Seq(DOMAIN b.cards))
    <3>1. \A i \in 1..Len(cs) : css[i] \in Seq(DOMAIN b.cards)
      BY <1>1, <1>2
    <3> QED BY <1>1, <3>1, TupleSeq
  <2> QED BY <1>1, <2>1
<1>4. Fits(b, Range(cs), css)
  <2>1. \A i \in DOMAIN css : css[i] # <<>> /\ IsInjective(css[i]) /\ Range(css[i]) \subseteq Range(cs)
    BY <1>1, <1>2
  <2>2. \A i, j \in DOMAIN css : i # j => Range(css[i]) \cap Range(css[j]) = {}
    BY <1>1, <1>2 DEF IsInjective
  <2> QED BY <1>3, <2>1, <2>2 DEF Fits
<1>5. StacksAdded(b, Range(cs), css, n)
  BY <1>4, CreateStacksSound DEF n
<1>6. {c \in Range(cs) : \A i \in DOMAIN css : c \notin Range(css[i])} = {}
  <2>1. ASSUME NEW c \in Range(cs) PROVE \E i \in DOMAIN css : c \in Range(css[i])
    <3>1. PICK i \in DOMAIN cs : c = cs[i]
      BY DEF Range
    <3>2. Range(css[i]) = {cs[i]}
      BY <1>2
    <3> QED BY <1>1, <3>1, <3>2
  <2> QED BY <2>1
<1>7. Sound(n, {})
  BY <1>5, <1>6 DEF StacksAdded
<1>8. Follows(b, n)
  <2>1. \A i \in DOMAIN css : Friendly(b, Range(css[i]))
    BY <1>1, <1>2 DEF Friendly, MayMeet
  <2> QED BY <1>3, <1>5, <2>1, StacksFollow
<1> QED BY <1>7, <1>8 DEF n, css

LEMMA ActivateSound ==
  ASSUME Sound(board, {}), TaskActivate
  PROVE  Sound(board', {}) /\ Follows(board, board')
<1> DEFINE empty == Stacks = {}
           base == IF empty THEN SpawnSingles(board, SeedCards) ELSE board
<1>0. PICK used \in UNION {Injection(1..n, Loose) : n \in 0..Cardinality(ModDefs)} :
        board' = CreateStacks(Detach(CreateCards(base, <<LinkedTask>>), Range(used)),
                              <<used \o <<base.nextCard + 1>>>>)
  BY DEF TaskActivate
<1>1. PICK n \in 0..Cardinality(ModDefs) : used \in Injection(1..n, Loose)
  OBVIOUS
<1>2. /\ Sound(base, {}) /\ Follows(board, base)
      /\ \A x \in DOMAIN board.cards : x \in DOMAIN base.cards /\ base.cards[x] = board.cards[x]
  <2>1. CASE empty
    BY <2>1, SpawnSinglesSound, SinglesFollow, SeedIsCards DEF SinglesAdded
  <2>2. CASE ~empty
    BY <2>2 DEF Follows, Spares
  <2> QED BY <2>1, <2>2
<1>3. Loose \subseteq DOMAIN base.cards /\ \A x \in Loose : KindOf(base, x) = "modifier"
  <2>1. \A s \in Stacks : CardsOf(board, s) \subseteq DOMAIN board.cards
    BY CardsInTable DEF Sound, Stacks
  <2>2. \A x \in Loose : x \in DOMAIN board.cards /\ KindOf(board, x) = "modifier"
    BY <2>1 DEF Loose, Pure
  <2> QED BY <1>2, <2>2 DEF KindOf
<1> HIDE DEF base
<1>4. n \in Nat
  OBVIOUS
<1>5. used \in Seq(Loose) /\ IsInjective(used)
  BY <1>1, <1>4 DEF Injection
<1>6. /\ used \in Seq(DOMAIN base.cards) /\ Range(used) \subseteq DOMAIN base.cards
      /\ Range(used) \subseteq Loose
  BY <1>3, <1>5 DEF Range
<1> DEFINE m == CreateCards(base, <<LinkedTask>>)
           c == base.nextCard + 1
           d == Detach(m, Range(used))
           ids == used \o <<c>>
<1>7. <<LinkedTask>> \in Seq(Card) /\ Len(<<LinkedTask>>) = 1
  BY LinkedTaskIsCard
<1>8. base.nextCard \in Nat
  BY <1>2 DEF Sound, WellFormed
<1>9. CardsAdded(base, {}, <<LinkedTask>>, m) /\ Follows(base, m)
  BY <1>2, <1>7, CreateCardsSound, CardsFollow
<1>9a. m.cards[base.nextCard + 1] = LinkedTask
  <2>1. <<LinkedTask>>[1] = LinkedTask /\ 1 \in 1..Len(<<LinkedTask>>)
    BY <1>7
  <2> QED BY <1>9, <2>1 DEF CardsAdded
<1>10. (base.nextCard + 1)..(base.nextCard + Len(<<LinkedTask>>)) = {c}
  BY <1>7, <1>8
<1> HIDE DEF m, c
<1>11. /\ Sound(m, {} \cup {c}) /\ DOMAIN m.cards = DOMAIN base.cards \cup {c}
       /\ c \notin DOMAIN base.cards
       /\ \A x \in DOMAIN base.cards : m.cards[x] = base.cards[x]
  BY <1>9, <1>10 DEF CardsAdded
<1>11a. m.cards[c] = LinkedTask
  BY <1>9a DEF c
<1>12. {} \cup {c} = {c} /\ Range(used) \subseteq DOMAIN m.cards
  BY <1>6, <1>11
<1>13. Sound(d, {c} \cup Range(used)) /\ d.cards = m.cards /\ Follows(m, d)
  BY <1>11, <1>12, DetachSound, DetachFollows
<1> HIDE DEF d
<1>14. /\ ids \in Seq(DOMAIN d.cards) /\ IsInjective(ids)
       /\ Range(ids) = {c} \cup Range(used) /\ ids # <<>>
  <2>1. used \in Seq(DOMAIN d.cards) /\ <<c>> \in Seq(DOMAIN d.cards)
    <3>1. used \in Seq(DOMAIN d.cards)
      <4>1. Range(used) \subseteq DOMAIN d.cards
        BY <1>12, <1>13
      <4> QED BY <1>6, <4>1, SeqNarrow
    <3>2. c \in DOMAIN d.cards
      BY <1>11, <1>13
    <3> QED BY <3>1, <3>2, SingleSeq
  <2>2. IsInjective(<<c>>) /\ Range(<<c>>) = {c}
    BY OneElement
  <2>3. used \o <<c>> \in Seq(DOMAIN d.cards) /\ Range(used \o <<c>>) = Range(used) \cup Range(<<c>>)
    BY <2>1, ConcatInjective
  <2>4. Range(used) \cap Range(<<c>>) = {}
    BY <1>6, <1>11, <2>2
  <2>5. IsInjective(used \o <<c>>)
    BY <1>5, <2>1, <2>2, <2>4, ConcatInjective
  <2>6. used \o <<c>> # <<>>
    BY <2>1
  <2> QED BY <2>2, <2>3, <2>5, <2>6
<1> HIDE DEF ids
<1>14a. Calm(d, Range(ids))
  <2>1. \A x \in Range(used) : KindOf(d, x) = "modifier"
    BY <1>3, <1>6, <1>11, <1>13 DEF KindOf
  <2>2. KindOf(d, c) = "task"
    BY <1>11a, <1>13, KindFacts DEF KindOf, LinkedTask, New, TaskDefs
  <2> QED BY <1>14, <2>1, <2>2 DEF Calm
<1>15. Sound(CreateStacks(d, <<ids>>), {}) /\ Follows(d, CreateStacks(d, <<ids>>))
  <2>1. Friendly(d, Range(ids))
    BY <1>14a, CalmIsFriendly
  <2> QED BY <1>13, <1>14, <2>1, RegroupSound
<1>15a. Follows(board, CreateStacks(d, <<ids>>))
  BY <1>2, <1>9, <1>13, <1>15, FollowsOn
<1>16. board' = CreateStacks(d, <<ids>>)
  BY <1>0 DEF d, m, ids, c
<1> QED BY <1>15, <1>15a, <1>16

LEMMA RemoveStackSound ==
  ASSUME Sound(board, {}), NEW s \in Stacks
  PROVE  /\ Sound(Remove(board, CardsOf(board, s)), {})
         /\ (Tidy(board) => ~Has(board, s, "villager")) => Follows(board, Remove(board, CardsOf(board, s)))
<1>1. CardsOf(board, s) \subseteq DOMAIN board.cards
  BY CardsInTable DEF Sound, Stacks
<1> QED BY <1>1, RemoveSound, RemoveFollows DEF Has

\* A stack that shows a deck holds nothing else.
LEMMA DecksLieAlone ==
  ASSUME Sound(board, {}), Tidy(board), NEW s \in Stacks, Top(board, s).def \in DeckDefs
  PROVE  ~Has(board, s, "villager")
<1> DEFINE cs == board.stacks[s].cards
           c == cs[Len(cs)]
<1>1. cs \in Seq(DOMAIN board.cards) /\ cs # <<>>
  BY CardsInTable DEF Sound, PlacedBut, Stacks
<1>2. Len(cs) \in DOMAIN cs
  BY <1>1
<1>3. c \in CardsOf(board, s)
  BY <1>2 DEF CardsOf, Range
<1>4. KindOf(board, c) = "deck"
  BY KindFacts DEF Top, KindOf
<1>5. \A d \in CardsOf(board, s) : d = c
  <2>1. Friendly(board, CardsOf(board, s))
    BY DEF Tidy, Stacks
  <2> HIDE DEF c
  <2> QED BY <1>3, <1>4, <2>1 DEF Friendly, MayMeet
<1> HIDE DEF c
<1> QED BY <1>4, <1>5 DEF Has

\* stack.remove is the one command that need not spare a villager.
LEMMA StackRemoveTidy ==
  ASSUME Sound(board, {}), Tidy(board), NEW s \in Stacks, StackRemove(s)
  PROVE  Tidy(board')
<1> DEFINE n == Remove(board, CardsOf(board, s))
<1>1. /\ DOMAIN n.cards = DOMAIN board.cards \ CardsOf(board, s)
      /\ \A c \in DOMAIN n.cards : n.cards[c] = board.cards[c]
      /\ \A t \in DOMAIN n.stacks : t \in DOMAIN board.stacks /\ CardsOf(n, t) \subseteq CardsOf(board, t)
      /\ Sound(n, {})
  <2>1. CardsOf(board, s) \subseteq DOMAIN board.cards
    BY CardsInTable DEF Sound, Stacks
  <2> QED BY <2>1, RemoveSound
<1> HIDE DEF n
<1>2. ASSUME NEW t \in DOMAIN n.stacks PROVE Friendly(n, CardsOf(n, t))
  <2>1. CardsOf(n, t) \subseteq DOMAIN n.cards
    BY <1>1, CardsInTable DEF Sound
  <2>2. \A c \in CardsOf(n, t) : KindOf(n, c) = KindOf(board, c)
    BY <1>1, <2>1 DEF KindOf
  <2>3. Friendly(board, CardsOf(board, t)) /\ CardsOf(n, t) \subseteq CardsOf(board, t)
    BY <1>1 DEF Tidy
  <2> QED BY <2>2, <2>3, FriendlyWithin
<1>3. Tidy(n)
  BY <1>2 DEF Tidy
<1>4. board' = n
  BY DEF StackRemove, n
<1> QED BY <1>3, <1>4

LEMMA SpawnPackSound ==
  ASSUME Sound(board, {}), NEW s \in Stacks, DeckSpawnPack(s)
  PROVE  Sound(board', {}) /\ Follows(board, board')
<1>1. PICK pack \in PackDefs : board' = SpawnSingles(board, <<New(pack)>>)
  BY DEF DeckSpawnPack, PackDefs
<1>2. New(pack) \in Card
  BY NewIsCard DEF Defs, DeckDefs
<1>3. <<New(pack)>> \in Seq(Card)
  BY <1>2
<1> QED BY <1>1, <1>3, SpawnSinglesSound, SinglesFollow DEF SinglesAdded

LEMMA OpenPackSound ==
  ASSUME Sound(board, {}), NEW s \in Stacks, DeckOpenPack(s)
  PROVE  Sound(board', {}) /\ Follows(board, board')
<1>1. PICK draws \in Deliveries :
        board' = SpawnSingles(Remove(board, CardsOf(board, s)), draws)
  BY DEF DeckOpenPack
<1> DEFINE m == Remove(board, CardsOf(board, s))
<1>2. Top(board, s).def \in DeckDefs
  BY DEF DeckOpenPack, DeckDefs
<1>3. /\ Sound(m, {}) /\ draws \in Seq(Card) /\ board' = SpawnSingles(m, draws)
      /\ Follows(board, m)
  BY <1>1, <1>2, RemoveStackSound, DecksLieAlone, DeliveriesAreCards
<1> HIDE DEF m
<1>4. Sound(board', {}) /\ Follows(m, board')
  BY <1>3, SpawnSinglesSound, SinglesFollow DEF SinglesAdded
<1> QED BY <1>3, <1>4, FollowsOn

LEMMA CollectSound ==
  ASSUME Sound(board, {}), NEW s \in Stacks, LootCollectStack(s)
  PROVE  Sound(board', {}) /\ Follows(board, board')
<1>1. ~Has(board, s, "villager")
  BY DEF LootCollectStack, Collectible, Has
<1> QED BY <1>1, RemoveStackSound DEF LootCollectStack

\* Stacks that hold work, workers or food may meet unasked.
LEMMA WorkersMeet ==
  ASSUME Tidy(board), NEW t \in Stacks, NEW s \in Stacks,
         NEW k \in {"task", "villager", "resource", "food"}, Has(board, t, k),
         NEW l \in {"task", "villager", "resource", "food"}, Has(board, s, l)
  PROVE  Friendly(board, CardsOf(board, t) \cup CardsOf(board, s))
<1>1. Calm(board, CardsOf(board, t))
  BY CalmCompany DEF Has, Tidy, Stacks
<1>2. Calm(board, CardsOf(board, s))
  BY CalmCompany DEF Has, Tidy, Stacks
<1>3. Calm(board, CardsOf(board, t) \cup CardsOf(board, s))
  BY <1>1, <1>2 DEF Calm
<1> QED BY <1>3, CalmIsFriendly

LEMMA AssignSound ==
  ASSUME Sound(board, {}), NEW t \in Stacks, NEW v \in Stacks, TaskAssignVillager(t, v)
  PROVE  Sound(board', {}) /\ Follows(board, board')
<1> DEFINE m == MergeStacks(board, t, v)
<1>1. Sound(m, {})
  BY MergeSound DEF Stacks
<1>2. ASSUME Tidy(board) PROVE Friendly(board, CardsOf(board, t) \cup CardsOf(board, v))
  <2>1. Has(board, t, "task") /\ Has(board, v, "villager")
    BY DEF TaskAssignVillager
  <2> QED BY <1>2, <2>1, WorkersMeet
<1>3. Follows(board, m)
  BY <1>2, MergeFollows DEF Stacks
<1>4. board' = FacePriority(m, t)
  BY DEF TaskAssignVillager
<1> HIDE DEF m
<1>5. Sound(board', {}) /\ Follows(m, board')
  BY <1>1, <1>4, FacePrioritySound, FaceFollows
<1> QED BY <1>3, <1>5, FollowsOn

LEMMA MergePlainlySound ==
  ASSUME Sound(board, {}), NEW t \in Stacks, NEW s \in Stacks, MergePlainly(t, s)
  PROVE  Sound(board', {}) /\ Follows(board, board')
<1> DEFINE m == MergeStacks(board, t, s)
           f == FacePriority(m, t)
<1>1. Sound(m, {}) /\ t \in DOMAIN m.stacks /\ Follows(board, m)
  BY MergeSound, MergeFollows, ValidIsFriendly DEF Stacks, MergePlainly
<1>2. board' = LeadVillager(f, t)
  BY DEF MergePlainly
<1> HIDE DEF m
<1>3. Sound(f, {}) /\ t \in DOMAIN f.stacks /\ Follows(m, f)
  BY <1>1, FacePrioritySound, FaceFollows
<1> HIDE DEF f
<1>4. Sound(board', {}) /\ Follows(f, board')
  BY <1>2, <1>3, LeadVillagerSound, LeadFollows
<1> QED BY <1>1, <1>3, <1>4, FollowsOn

LEMMA ZombieClearSound ==
  ASSUME Sound(board, {}), NEW z \in Stacks, NEW v \in Stacks, ZombieClear(z, v)
  PROVE  Sound(board', {}) /\ Follows(board, board')
<1> DEFINE zombies == {c \in CardsOf(board, z) : KindOf(board, c) = "zombie"}
<1>1. zombies \subseteq DOMAIN board.cards
  BY CardsInTable DEF Sound, Stacks
<1>2. board' = FacePriority(Remove(board, zombies), z)
  BY DEF ZombieClear
<1>3. \A c \in zombies : KindOf(board, c) # "villager"
  OBVIOUS
<1> DEFINE r == Remove(board, zombies)
<1> HIDE DEF zombies
<1>4. Sound(r, {}) /\ Follows(board, r)
  BY <1>1, <1>3, RemoveSound, RemoveFollows
<1> HIDE DEF r
<1>5. Sound(board', {}) /\ Follows(r, board')
  BY <1>2, <1>4, FacePrioritySound, FaceFollows DEF r
<1> QED BY <1>4, <1>5, FollowsOn

\* firstCardByKind finds a card of the stack when there is one of the kind.
LEMMA FirstInStack ==
  ASSUME NEW b, WellFormed(b), NEW s \in DOMAIN b.stacks, NEW k, Has(b, s, k)
  PROVE  First(b, s, k) \in DOMAIN b.cards /\ KindOf(b, First(b, s, k)) = k
<1> DEFINE cs == b.stacks[s].cards
           at == {i \in DOMAIN cs : KindOf(b, cs[i]) = k}
<1>1. cs \in Seq(DOMAIN b.cards)
  BY CardsInTable
<1>2. at # {}
  BY DEF Has, CardsOf, Range
<1>3. at \in SUBSET Nat
  BY <1>1
<1>4. \E i \in at : \A j \in at : i <= j
  BY <1>2, <1>3, LeastExists
<1>5. First(b, s, k) = cs[CHOOSE i \in at : \A j \in at : i <= j]
  BY DEF First
<1>6. (CHOOSE i \in at : \A j \in at : i <= j) \in at
  BY <1>4
<1>7. \A i \in at : i \in DOMAIN cs /\ KindOf(b, cs[i]) = k
  OBVIOUS
<1> HIDE DEF cs, at
<1> QED BY <1>1, <1>5, <1>6, <1>7

LEMMA ConsumeSound ==
  ASSUME Sound(board, {}), NEW f \in Stacks, NEW v \in Stacks, FoodConsume(f, v)
  PROVE  Sound(board', {}) /\ Follows(board, board')
<1>1. First(board, f, "food") \in DOMAIN board.cards /\ KindOf(board, First(board, f, "food")) = "food"
  BY FirstInStack DEF FoodConsume, Stacks, Sound
<1> QED BY <1>1, UseUpSound, UseUpFollows DEF FoodConsume

LEMMA GatherSound ==
  ASSUME Sound(board, {}), NEW r \in Stacks, NEW v \in Stacks, ResourceGather(r, v)
  PROVE  Sound(board', {}) /\ Follows(board, board')
<1> DEFINE m == MergeStacks(board, r, v)
           merged == IF r = v THEN board ELSE FacePriority(m, r)
           led == LeadVillager(merged, r)
           c == First(led, r, "resource")
<1>0. ASSUME Tidy(board) PROVE Friendly(board, CardsOf(board, r) \cup CardsOf(board, v))
  <2>1. Has(board, r, "resource") /\ Has(board, v, "villager")
    BY DEF ResourceGather
  <2> QED BY <1>0, <2>1, WorkersMeet
<1>1. /\ Sound(m, {}) /\ m.cards = board.cards /\ r \in DOMAIN m.stacks
      /\ CardsOf(board, r) \subseteq CardsOf(m, r)
      /\ Follows(board, m)
  <2>1. r \in DOMAIN board.stacks /\ v \in DOMAIN board.stacks
    BY DEF Stacks
  <2>2. Follows(board, m)
    BY <1>0, <2>1, MergeFollows
  <2> QED BY <2>1, <2>2, MergeSound
<1>2. /\ Sound(FacePriority(m, r), {}) /\ FacePriority(m, r).cards = m.cards
      /\ r \in DOMAIN FacePriority(m, r).stacks
      /\ CardsOf(FacePriority(m, r), r) = CardsOf(m, r)
      /\ Follows(m, FacePriority(m, r))
  BY <1>1, FacePrioritySound, FaceFollows
<1> HIDE DEF m
<1>3. /\ Sound(merged, {}) /\ merged.cards = board.cards /\ r \in DOMAIN merged.stacks
      /\ CardsOf(board, r) \subseteq CardsOf(merged, r)
      /\ Follows(board, merged)
  <2>1. Follows(board, board) /\ Follows(board, FacePriority(m, r))
    BY <1>1, <1>2, FollowsOn DEF Follows, Spares
  <2> QED BY <1>1, <1>2, <2>1 DEF Stacks
<1>4. board' \in MaybeReward(UseUp(led, c))
  BY DEF ResourceGather, m
<1> HIDE DEF merged
<1>5. /\ Sound(led, {}) /\ led.cards = board.cards /\ r \in DOMAIN led.stacks
      /\ CardsOf(board, r) \subseteq CardsOf(led, r)
      /\ Follows(merged, led)
  BY <1>3, LeadVillagerSound, LeadFollows
<1> HIDE DEF led
<1>6. Has(led, r, "resource")
  BY <1>5 DEF ResourceGather, Has, KindOf
<1>7. c \in DOMAIN led.cards /\ KindOf(led, c) = "resource"
  BY <1>5, <1>6, FirstInStack DEF Sound
<1> HIDE DEF c
<1>8. Sound(UseUp(led, c), {}) /\ Follows(led, UseUp(led, c))
  BY <1>5, <1>7, UseUpSound, UseUpFollows
<1>9. Sound(board', {}) /\ Follows(UseUp(led, c), board')
  BY <1>4, <1>8, MaybeRewardSound
<1> QED BY <1>3, <1>5, <1>8, <1>9, FollowsOn

LEMMA MergeCommandSound ==
  ASSUME Sound(board, {}), NEW t \in Stacks, NEW s \in Stacks, StackMerge(t, s)
  PROVE  Sound(board', {}) /\ Follows(board, board')
BY CollectSound, AssignSound, ZombieClearSound, ConsumeSound, MergePlainlySound DEF StackMerge

LEMMA SplitSound ==
  ASSUME Sound(board, {}), NEW s \in Stacks, NEW index, StackSplit(s, index)
  PROVE  Sound(board', {}) /\ Follows(board, board')
<1> DEFINE cs == board.stacks[s].cards
           kept == IF index = 0 THEN 2..Len(cs) ELSE 1..index
           I == DOMAIN cs \ kept
           taken == Keep(cs, I)
           pulled == PriorityFace(board, taken)
           d == Detach(board, Range(pulled))
<1>1. cs \in Seq(DOMAIN board.cards) /\ IsInjective(cs)
  BY CardsInTable DEF Sound, PlacedBut, Stacks
<1>2. index \in 0..(Len(cs) - 1) /\ board' = FacePriority(CreateStacks(d, <<pulled>>), s)
  BY DEF StackSplit
<1>3. I # {} /\ I \in SUBSET DOMAIN cs
  <2>1. CASE index = 0
    <3>1. 1 \in DOMAIN cs /\ 1 \notin kept
      BY <1>1, <1>2, <2>1
    <3> QED BY <3>1
  <2>2. CASE index # 0
    <3>1. Len(cs) \in DOMAIN cs /\ Len(cs) \notin kept
      BY <1>1, <1>2, <2>2
    <3> QED BY <3>1
  <2> QED BY <2>1, <2>2
<1> HIDE DEF I, cs
<1>4. /\ taken \in Seq(DOMAIN board.cards) /\ IsInjective(taken)
      /\ Range(taken) = {cs[i] : i \in I}
  BY <1>1, <1>3, KeepProperties
<1>4a. Range(taken) \subseteq CardsOf(board, s)
  BY <1>3, <1>4 DEF cs, CardsOf, Range
<1> HIDE DEF taken
<1>5. pulled \in Seq(DOMAIN board.cards) /\ IsInjective(pulled) /\ Range(pulled) = Range(taken)
  BY <1>4, FaceRearranges DEF Rearranges
<1>6. Range(pulled) # {} /\ Range(pulled) \subseteq DOMAIN board.cards
  BY <1>3, <1>4, <1>5, RangeOfSeq
<1>7. pulled # <<>>
  BY <1>5, <1>6, EmptyRange
<1> HIDE DEF pulled
<1>8. Sound(d, Range(pulled)) /\ d.cards = board.cards /\ Follows(board, d)
  <2>1. {} \cup Range(pulled) = Range(pulled)
    OBVIOUS
  <2> QED BY <1>6, <2>1, DetachSound, DetachFollows
<1> HIDE DEF d
<1>9. ASSUME Tidy(board) PROVE Friendly(d, Range(pulled))
  <2>1. Friendly(board, CardsOf(board, s)) /\ Range(pulled) \subseteq CardsOf(board, s)
    BY <1>4a, <1>5, <1>9 DEF Tidy, Stacks
  <2>2. \A c : KindOf(d, c) = KindOf(board, c)
    BY <1>8 DEF KindOf
  <2> QED BY <2>1, <2>2, FriendlyWithin
<1> DEFINE n == CreateStacks(d, <<pulled>>)
<1>10. Sound(n, {}) /\ (Tidy(board) => Follows(d, n))
  BY <1>5, <1>7, <1>8, <1>9, RegroupSound
<1>11. board' = FacePriority(n, s)
  BY <1>2
<1> HIDE DEF n
<1>12. Sound(board', {}) /\ Follows(n, board')
  BY <1>10, <1>11, FacePrioritySound, FaceFollows
<1>13. Tidy(board) => Follows(board, board')
  BY <1>8, <1>10, <1>12, FollowsOn
<1> QED BY <1>12, <1>13 DEF Follows

\* A filter loop that keeps everything.
LEMMA KeepAll ==
  ASSUME NEW S, NEW cs \in Seq(S)
  PROVE  Keep(cs, DOMAIN cs) = cs
<1> DEFINE n == Len(cs)
           At(k) == CHOOSE i \in DOMAIN cs : Cardinality({j \in DOMAIN cs : j <= i}) = k
<1>1. n \in Nat /\ DOMAIN cs = 1..n
  OBVIOUS
<1>2. ASSUME NEW i \in 1..n
      PROVE  Cardinality({j \in DOMAIN cs : j <= i}) = i
  <2>1. {j \in DOMAIN cs : j <= i} = 1..i
    BY <1>1
  <2>2. Cardinality(1..i) = i
    BY <1>1, FS_Interval
  <2> QED BY <2>1, <2>2
<1>3. Cardinality(DOMAIN cs) = n
  BY <1>1, FS_Interval
<1>4. ASSUME NEW k \in 1..n
      PROVE  At(k) = k
  <2>1. At(k) \in DOMAIN cs /\ Cardinality({j \in DOMAIN cs : j <= At(k)}) = k
    BY <1>1, <1>2
  <2> QED BY <2>1, <1>1, <1>2
<1>5. Keep(cs, DOMAIN cs) = [k \in 1..Cardinality(DOMAIN cs) |-> cs[At(k)]]
  BY DEF Keep
<1> HIDE DEF At
<1>6. Keep(cs, DOMAIN cs) = [k \in 1..n |-> cs[k]]
  BY <1>3, <1>4, <1>5
<1> QED BY <1>1, <1>6

\* A stack that holds none of the cards detached keeps its cards in their order.
LEMMA DetachSpares ==
  ASSUME NEW b, NEW out, Sound(b, out), NEW gone, NEW s \in DOMAIN b.stacks, CardsOf(b, s) \cap gone = {}
  PROVE  s \in DOMAIN Detach(b, gone).stacks /\ Detach(b, gone).stacks[s].cards = b.stacks[s].cards
<1> DEFINE cs == b.stacks[s].cards
<1>1. cs \in Seq(DOMAIN b.cards) /\ cs # <<>>
  BY CardsInTable DEF Sound, PlacedBut
<1>2. {i \in DOMAIN cs : cs[i] \notin gone} = DOMAIN cs /\ DOMAIN cs # {}
  <2>1. \A i \in DOMAIN cs : cs[i] \in CardsOf(b, s)
    BY DEF CardsOf, Range
  <2>2. DOMAIN cs # {}
    <3> HIDE DEF cs
    <3>1. Len(cs) \in Nat \ {0}
      BY <1>1, EmptySeq
    <3> QED BY <1>1, <3>1
  <2> QED BY <2>1, <2>2
<1>3. Keep(cs, DOMAIN cs) = cs
  BY <1>1, KeepAll
<1> QED BY <1>2, <1>3 DEF Detach

\* The cards a split takes out of a stack.
Pulled(cs, index) == {cs[i] : i \in DOMAIN cs \ (IF index = 0 THEN 2..Len(cs) ELSE 1..index)}

\* A split makes one new stack, of the cards it takes, and touches no other stack.
LEMMA SplitMoves ==
  ASSUME Sound(board, {}), NEW s \in Stacks, NEW index, StackSplit(s, index)
  PROVE  LET new == board.nextZ + 1
         IN  /\ index \in 0..(Len(board.stacks[s].cards) - 1)
             /\ board'.nextZ = new /\ new \notin Stacks
             /\ DOMAIN board'.stacks \subseteq Stacks \cup {new}
             /\ (Stacks \ {s}) \cup {new} \subseteq DOMAIN board'.stacks
             /\ \A t \in Stacks \ {s} : board'.stacks[t].cards = board.stacks[t].cards
             /\ Range(board'.stacks[new].cards) = Pulled(board.stacks[s].cards, index)
             /\ board'.cards = board.cards /\ Room(1, 0)
<1> DEFINE cs == board.stacks[s].cards
           kept == IF index = 0 THEN 2..Len(cs) ELSE 1..index
           taken == Keep(cs, DOMAIN cs \ kept)
           pulled == PriorityFace(board, taken)
           d == Detach(board, Range(pulled))
           n == CreateStacks(d, <<pulled>>)
           new == board.nextZ + 1
<1>1. /\ cs \in Seq(DOMAIN board.cards) /\ WellFormed(board)
      /\ \A t \in Stacks \ {s} : CardsOf(board, s) \cap CardsOf(board, t) = {}
  BY CardsInTable DEF Sound, PlacedBut, Stacks
<1>2. index \in 0..(Len(cs) - 1) /\ board' = FacePriority(n, s) /\ Room(1, 0)
  BY DEF StackSplit
<1>3. taken \in Seq(DOMAIN board.cards) /\ Range(taken) = Pulled(cs, index)
  BY <1>1, KeepProperties DEF Pulled
<1>4. Range(pulled) = Pulled(cs, index) /\ Pulled(cs, index) \subseteq CardsOf(board, s)
  <2>1. Range(pulled) = Range(taken)
    BY <1>3, FaceRearranges DEF Rearranges
  <2> QED BY <2>1, <1>3 DEF Pulled, CardsOf, Range
<1> HIDE DEF pulled
<1>5. \A t \in Stacks \ {s} : t \in DOMAIN d.stacks /\ d.stacks[t].cards = board.stacks[t].cards
  BY <1>1, <1>4, DetachSpares DEF Stacks
<1>6. d.nextZ = board.nextZ /\ DOMAIN d.stacks \subseteq Stacks /\ d.cards = board.cards
  BY DEF Detach, Stacks
<1> HIDE DEF d
<1>7. new \notin Stacks /\ board.nextZ \in Nat /\ \A t \in Stacks : t \in Nat /\ t <= board.nextZ
  BY <1>1 DEF WellFormed, Stacks
<1>8. /\ DOMAIN n.stacks = DOMAIN d.stacks \cup {new} /\ n.nextZ = new
      /\ n.stacks[new].cards = pulled
      /\ \A t \in DOMAIN d.stacks : n.stacks[t] = d.stacks[t]
  <2>1. Len(<<pulled>>) = 1 /\ <<pulled>>[1] = pulled
    OBVIOUS
  <2>2. (d.nextZ + 1)..(d.nextZ + Len(<<pulled>>)) = {new}
    BY <2>1, <1>6, <1>7
  <2>3. new > d.nextZ /\ new - d.nextZ = 1
    BY <1>6, <1>7
  <2>4. \A t \in DOMAIN d.stacks : ~(t > d.nextZ)
    BY <1>6, <1>7
  <2>5. n.stacks = [t \in DOMAIN d.stacks \cup {new} |->
                      IF t > d.nextZ THEN [cards |-> <<pulled>>[t - d.nextZ], z |-> t] ELSE d.stacks[t]]
    BY <2>2 DEF CreateStacks
  <2>6. n.nextZ = new
    BY <2>1, <1>6 DEF CreateStacks
  <2> QED BY <2>1, <2>3, <2>4, <2>5, <2>6
<1>9. DOMAIN n = {"cards", "stacks", "nextZ", "nextCard"} /\ n.cards = board.cards
  BY <1>6 DEF CreateStacks
<1> HIDE DEF n
<1>10. /\ board'.nextZ = n.nextZ /\ board'.cards = n.cards /\ DOMAIN board'.stacks = DOMAIN n.stacks
       /\ \A t \in DOMAIN n.stacks \ {s} : board'.stacks[t].cards = n.stacks[t].cards
  BY <1>2, <1>9 DEF FacePriority, SetStack
<1>11. new # s
  BY <1>7
<1> HIDE DEF new, cs
<1> QED BY <1>2, <1>4, <1>5, <1>6, <1>7, <1>8, <1>9, <1>10, <1>11 DEF cs, new

\* A merge counts up by one, or not at all, and makes no card; collecting does not count.
Spends(n) ==
  /\ DOMAIN n = {"cards", "stacks", "nextZ", "nextCard"} /\ DOMAIN n.cards \subseteq DOMAIN board.cards
  /\ n.nextZ = board.nextZ \/ n.nextZ = board.nextZ + 1

LEMMA MergeCounts ==
  ASSUME Sound(board, {}), NEW t \in Stacks, NEW s \in Stacks, StackMerge(t, s)
  PROVE  /\ board'.nextZ = board.nextZ \/ (board'.nextZ = board.nextZ + 1 /\ Room(1, 0))
         /\ DOMAIN board'.cards \subseteq DOMAIN board.cards
<1>0. DOMAIN board = {"cards", "stacks", "nextZ", "nextCard"}
  BY DEF Sound, WellFormed
<1>1. \A x, y : Spends(MergeStacks(board, x, y))
  BY <1>0 DEF MergeStacks, Spends
<1>2. ASSUME NEW b, NEW x, Spends(b)
      PROVE  /\ FacePriority(b, x).nextZ = b.nextZ /\ Spends(FacePriority(b, x))
             /\ LeadVillager(b, x).nextZ = b.nextZ /\ Spends(LeadVillager(b, x))
  BY <1>2 DEF FacePriority, LeadVillager, SetStack, Spends
<1>3. \A gone : Spends(Remove(board, gone)) /\ Remove(board, gone).nextZ = board.nextZ
  BY DEF Remove, Detach, Spends
<1>4. ASSUME NEW x, LootCollectStack(x)
      PROVE  Spends(board') /\ board'.nextZ = board.nextZ
  BY <1>3, <1>4 DEF LootCollectStack
<1>5. ASSUME NEW x, NEW y, TaskAssignVillager(x, y)
      PROVE  Spends(board') /\ Room(1, 0)
  BY <1>1, <1>2, <1>5 DEF TaskAssignVillager
<1>6. ASSUME NEW x, NEW y, ZombieClear(x, y)
      PROVE  Spends(board') /\ board'.nextZ = board.nextZ
  BY <1>2, <1>3, <1>6 DEF ZombieClear
<1>7. ASSUME NEW x, NEW y, FoodConsume(x, y)
      PROVE  Spends(board') /\ board'.nextZ = board.nextZ
  <2>1. \A c : Spends(UseUp(board, c)) /\ UseUp(board, c).nextZ = board.nextZ
    BY <1>0, <1>3 DEF UseUp, SetCard, Spends
  <2> QED BY <1>7, <2>1 DEF FoodConsume
<1>8. ASSUME MergePlainly(t, s)
      PROVE  Spends(board') /\ Room(1, 0)
  BY <1>1, <1>2, <1>8 DEF MergePlainly
<1>9. Spends(board') /\ (board'.nextZ = board.nextZ \/ Room(1, 0))
  BY <1>4, <1>5, <1>6, <1>7, <1>8 DEF StackMerge
<1> QED BY <1>9 DEF Spends

LEMMA CollectCounts ==
  ASSUME NEW s, LootCollectStack(s)
  PROVE  board'.nextZ = board.nextZ /\ DOMAIN board'.cards \subseteq DOMAIN board.cards
BY DEF LootCollectStack, Remove, Detach

\* Raising a stack counts up and leaves every stack its cards.
LEMMA RaiseMoves ==
  ASSUME Sound(board, {}), NEW s \in Stacks, StackBringToFront(s)
  PROVE  /\ Sound(board', {}) /\ board'.nextZ = board.nextZ + 1 /\ DOMAIN board'.stacks = Stacks
         /\ \A t \in Stacks : board'.stacks[t].cards = board.stacks[t].cards
         /\ board'.cards = board.cards /\ Room(1, 0)
<1>1. DOMAIN board = {"cards", "stacks", "nextZ", "nextCard"}
  BY DEF Sound, WellFormed
<1>2. board' = BringToFront(board, s) /\ Room(1, 0)
  BY DEF StackBringToFront
<1>3. Sound(board', {})
  BY <1>2, BringToFrontSound DEF Stacks
<1> QED BY <1>1, <1>2, <1>3 DEF BringToFront, SetStack, Stacks

LEMMA UnstackSound ==
  ASSUME Sound(board, {}), NEW s \in Stacks, StackUnstack(s)
  PROVE  Sound(board', {}) /\ Follows(board, board')
<1> DEFINE cs == board.stacks[s].cards
           d == Detach(board, Range(cs))
<1>1. /\ cs \in Seq(DOMAIN board.cards) /\ IsInjective(cs)
      /\ Range(cs) \subseteq DOMAIN board.cards
  BY CardsInTable DEF Sound, PlacedBut, Stacks, CardsOf
<1>2. board' = CreateStacks(d, [i \in DOMAIN cs |-> <<cs[i]>>])
  BY DEF StackUnstack
<1> HIDE DEF cs
<1>3. Sound(d, Range(cs)) /\ d.cards = board.cards /\ Follows(board, d)
  <2>1. {} \cup Range(cs) = Range(cs)
    OBVIOUS
  <2> QED BY <1>1, <2>1, DetachSound, DetachFollows
<1> HIDE DEF d
<1>4. Sound(board', {}) /\ Follows(d, board')
  BY <1>1, <1>2, <1>3, ScatterSound
<1> QED BY <1>3, <1>4, FollowsOn

LEMMA AddModifierSound ==
  ASSUME Sound(board, {}), NEW s \in Stacks, TaskAddModifier(s)
  PROVE  Sound(board', {}) /\ Follows(board, board')
<1>1. PICK m \in RowMods :
        LET b == CreateCards(board, <<New(m)>>)
        IN  board' = FacePriority(SetStack(b, s, Append(b.stacks[s].cards, b.nextCard),
                                           b.stacks[s].z), s)
  BY DEF TaskAddModifier
<1> DEFINE b == CreateCards(board, <<New(m)>>)
<1>2. New(m) \in Card
  BY NewIsCard, BoundsAssumption DEF Defs
<1>3. <<New(m)>> \in Seq(Card) /\ Len(<<New(m)>>) = 1
  BY <1>2
<1>4. CardsAdded(board, {}, <<New(m)>>, b) /\ Follows(board, b)
  BY <1>3, CreateCardsSound, CardsFollow
<1>5. board' = FacePriority(SetStack(b, s, Append(b.stacks[s].cards, b.nextCard),
                                     b.stacks[s].z), s)
  BY <1>1
<1> HIDE DEF b
<1>6. b.stacks = board.stacks /\ b.nextCard = board.nextCard + 1 /\ board.nextCard \in Nat
  BY <1>3, <1>4 DEF CardsAdded, Sound, WellFormed
<1>7. Sound(b, {} \cup (board.nextCard + 1)..(board.nextCard + 1))
  BY <1>3, <1>4 DEF CardsAdded
<1>8. {} \cup (board.nextCard + 1)..(board.nextCard + 1) = {b.nextCard}
  BY <1>6
<1>9. Sound(b, {b.nextCard}) /\ s \in DOMAIN b.stacks
  BY <1>6, <1>7, <1>8 DEF Stacks
<1>10. ASSUME Tidy(b) PROVE Calm(b, CardsOf(b, s) \cup {b.nextCard})
  <2>1. PICK c \in CardsOf(board, s) : KindOf(board, c) = "task"
    BY DEF TaskAddModifier, Has
  <2>2. c \in CardsOf(b, s) /\ KindOf(b, c) = "task"
    <3>1. c \in DOMAIN board.cards
      BY <2>1, CardsInTable DEF Sound, Stacks
    <3> QED BY <1>4, <1>6, <2>1, <3>1 DEF CardsAdded, CardsOf, KindOf
  <2>3. Calm(b, CardsOf(b, s))
    BY <1>9, <1>10, <2>2, CalmCompany DEF Tidy
  <2>4. b.cards[b.nextCard] = New(m)
    <3>1. <<New(m)>>[1] = New(m) /\ 1 \in 1..Len(<<New(m)>>)
      BY <1>3
    <3> QED BY <1>4, <1>6, <3>1 DEF CardsAdded
  <2>5. KindOf(b, b.nextCard) = "modifier"
    <3>1. m \in ModDefs
      BY BoundsAssumption
    <3> QED BY <2>4, <3>1, KindFacts DEF KindOf, New
  <2> QED BY <2>3, <2>5 DEF Calm
<1> DEFINE a == SetStack(b, s, Append(b.stacks[s].cards, b.nextCard), b.stacks[s].z)
<1>11. Sound(a, {}) /\ Follows(b, a)
  BY <1>9, <1>10, AppendSound, AppendFollows
<1>12. board' = FacePriority(a, s)
  BY <1>5
<1> HIDE DEF a
<1>13. Sound(board', {}) /\ Follows(a, board')
  BY <1>11, <1>12, FacePrioritySound, FaceFollows
<1> QED BY <1>4, <1>11, <1>13, FollowsOn

LEMMA CompleteSound ==
  ASSUME Sound(board, {}), NEW s \in Stacks, TaskCompleteStack(s)
  PROVE  Sound(board', {}) /\ Follows(board, board')
<1> DEFINE cs == board.stacks[s].cards
           Done(c) == KindOf(board, c) = "task" \/ board.cards[c].def = "mod.next_action"
           I == {i \in DOMAIN cs : ~Done(cs[i])}
           rest == Keep(cs, I)
           done == {c \in Range(cs) : Done(c)}
           r == Remove(board, done)
           cleared == Detach(r, Range(rest))
<1>1. /\ cs \in Seq(DOMAIN board.cards) /\ IsInjective(cs)
      /\ Range(cs) \subseteq DOMAIN board.cards
  BY CardsInTable DEF Sound, PlacedBut, Stacks, CardsOf
<1>2. board' \in MaybeReward(CreateStacks(cleared, [i \in DOMAIN rest |-> <<rest[i]>>]))
  BY DEF TaskCompleteStack
<1>3. /\ I \in SUBSET DOMAIN cs /\ done \subseteq DOMAIN board.cards
      /\ \A c \in done : KindOf(board, c) # "villager"
  <2>1. \A c \in done : KindOf(board, c) \in {"task", "modifier"}
    BY KindFacts DEF KindOf, ModDefs
  <2> QED BY <1>1, <2>1
<1>4. {cs[i] : i \in I} \subseteq DOMAIN board.cards \ done
  BY <1>1 DEF Range
<1> HIDE DEF I, done, cs
<1>5. /\ rest \in Seq(DOMAIN board.cards) /\ IsInjective(rest)
      /\ Range(rest) = {cs[i] : i \in I}
  BY <1>1, <1>3, KeepProperties
<1> HIDE DEF rest
<1>6. Sound(r, {}) /\ DOMAIN r.cards = DOMAIN board.cards \ done /\ Follows(board, r)
  BY <1>3, RemoveSound, RemoveFollows
<1> HIDE DEF r
<1>7. Range(rest) \subseteq DOMAIN r.cards
  BY <1>4, <1>5, <1>6
<1>8. Sound(cleared, Range(rest)) /\ cleared.cards = r.cards /\ Follows(r, cleared)
  <2>1. {} \cup Range(rest) = Range(rest)
    OBVIOUS
  <2> QED BY <1>6, <1>7, <2>1, DetachSound, DetachFollows
<1>9. rest \in Seq(DOMAIN cleared.cards)
  BY <1>5, <1>7, <1>8, SeqNarrow
<1> HIDE DEF cleared
<1> DEFINE n == CreateStacks(cleared, [i \in DOMAIN rest |-> <<rest[i]>>])
<1>10. Sound(n, {}) /\ Follows(cleared, n)
  BY <1>5, <1>8, <1>9, ScatterSound
<1>11. board' \in MaybeReward(n)
  BY <1>2
<1> HIDE DEF n
<1>12. Sound(board', {}) /\ Follows(n, board')
  BY <1>10, <1>11, MaybeRewardSound
<1> QED BY <1>6, <1>8, <1>10, <1>12, FollowsOn

LEMMA EndDaySound ==
  ASSUME Sound(board, {}), WorldEndDay
  PROVE  Sound(board', {}) /\ Follows(board, board')
<1> DEFINE FirstDay(s) == Top(board, s).def \in {"deck.first_day", "deck.first_day_pack"}
           gone == UNION {CardsOf(board, s) : s \in {x \in Stacks : FirstDay(x)}}
           retired == Remove(board, gone)
           missing == {i \in DOMAIN ProgressionDecks :
                         \A s \in DOMAIN retired.stacks :
                           Top(retired, s).def # ProgressionDecks[i]}
           kept == Keep(ProgressionDecks, missing)
           decks == [i \in 1..Cardinality(missing) |-> New(kept[i])]
<1>1. PICK n \in 0..MaxZombies :
        board' = SpawnSingles(retired, decks \o [i \in 1..n |-> New("zombie.default_zombie")])
  BY DEF WorldEndDay
<1>2. gone \subseteq DOMAIN board.cards
  <2>1. \A s \in Stacks : CardsOf(board, s) \subseteq DOMAIN board.cards
    BY CardsInTable DEF Sound, Stacks
  <2> QED BY <2>1
<1>2a. ASSUME Tidy(board), NEW c \in gone PROVE KindOf(board, c) # "villager"
  <2>1. PICK s \in Stacks : FirstDay(s) /\ c \in CardsOf(board, s)
    OBVIOUS
  <2>2. Top(board, s).def \in DeckDefs
    BY <2>1 DEF DeckDefs, PackDefs
  <2> QED BY <1>2a, <2>1, <2>2, DecksLieAlone DEF Has
<1> HIDE DEF gone
<1>3. Sound(retired, {}) /\ Follows(board, retired)
  BY <1>2, <1>2a, RemoveSound, RemoveFollows
<1>4. missing \in SUBSET DOMAIN ProgressionDecks
  OBVIOUS
<1> HIDE DEF retired, missing
<1>5. kept \in Seq(DeckDefs) /\ DOMAIN kept = 1..Cardinality(missing)
  BY <1>4, KeepProperties, BoundsAssumption DEF Keep
<1>6. Cardinality(missing) \in Nat
  <2>1. missing \in SUBSET (1..Len(ProgressionDecks)) /\ Len(ProgressionDecks) \in Nat
    BY <1>4, BoundsAssumption
  <2> QED BY <2>1, PlaceBijective
<1> HIDE DEF kept
<1>7. \A i \in 1..Cardinality(missing) : New(kept[i]) \in Card
  <2>1. \A i \in 1..Cardinality(missing) : kept[i] \in Defs
    <3>1. \A i \in DOMAIN kept : kept[i] \in DeckDefs
      <4>1. kept \in Seq(DeckDefs)
        BY <1>5
      <4> QED BY <4>1, ElementOfSeq
    <3>2. DeckDefs \subseteq Defs
      BY DEF Defs
    <3> QED BY <1>5, <3>1, <3>2
  <2> QED BY <2>1, NewIsCard
<1>8. decks \in Seq(Card)
  BY <1>6, <1>7
<1> DEFINE zombies == [i \in 1..n |-> New("zombie.default_zombie")]
<1>9. zombies \in Seq(Card)
  <2>1. New("zombie.default_zombie") \in Card
    BY NewIsCard DEF Defs
  <2>2. n \in Nat
    BY BoundsAssumption
  <2> QED BY <2>1, <2>2
<1> HIDE DEF decks, zombies
<1>10. decks \o zombies \in Seq(Card)
  BY <1>8, <1>9
<1>11. board' = SpawnSingles(retired, decks \o zombies)
  BY <1>1 DEF zombies
<1>12. Sound(board', {}) /\ Follows(retired, board')
  BY <1>3, <1>10, <1>11, SpawnSinglesSound, SinglesFollow DEF SinglesAdded
<1> QED BY <1>3, <1>12, FollowsOn

LEMMA SetDataSound ==
  ASSUME Sound(board, {}), NEW c \in TaskCards, TaskSetData(c) \/ TaskSetTaskID(c)
  PROVE  Sound(board', {}) /\ Follows(board, board')
<1>1. /\ c \in DOMAIN board.cards /\ board.cards[c] \in Card
      /\ KindOf(board, c) = "task" /\ Kind["task.instance"] = "task"
  BY KindFacts DEF TaskCards, Sound, WellFormed, TaskDefs
<1>2. CASE TaskSetData(c)
  <2> DEFINE r == [board.cards[c] EXCEPT !.def = "task.instance"]
  <2>1. r \in Card /\ r.def = "task.instance"
    BY <1>1, CardUpdates DEF Card
  <2>2. board' = SetCard(board, c, r)
    BY <1>2 DEF TaskSetData
  <2> HIDE DEF r
  <2> QED BY <1>1, <2>1, <2>2, SetCardSound, SetCardFollows
<1>3. CASE TaskSetTaskID(c)
  <2>1. PICK l \in BOOLEAN :
          board' = SetCard(board, c, [board.cards[c] EXCEPT !.def = "task.instance",
                                                            !.linked = l])
    BY <1>3 DEF TaskSetTaskID
  <2>2. [board.cards[c] EXCEPT !.def = "task.instance"] \in Card
    BY <1>1, CardUpdates
  <2>3. [[board.cards[c] EXCEPT !.def = "task.instance"] EXCEPT !.linked = l] \in Card
    BY <2>2, CardUpdates
  <2> DEFINE r == [board.cards[c] EXCEPT !.def = "task.instance", !.linked = l]
  <2>4. r \in Card /\ r.def = "task.instance"
    BY <1>1, <2>3 DEF Card
  <2>5. board' = SetCard(board, c, r)
    BY <2>1
  <2> HIDE DEF r
  <2> QED BY <1>1, <2>4, <2>5, SetCardSound, SetCardFollows
<1> QED BY <1>2, <1>3

-----------------------------------------------------------------------------
(* The theorems *)

LEMMA InitSound == Init => Sound(board, {})
<1> SUFFICES ASSUME Init PROVE Sound(board, {})
  OBVIOUS
<1>1. /\ DOMAIN board = {"cards", "stacks", "nextZ", "nextCard"}
      /\ DOMAIN board.cards = {} /\ DOMAIN board.stacks = {}
      /\ board.nextZ = 10 /\ board.nextCard = 0
  BY DEF Init, NewState
<1> QED BY <1>1 DEF Sound, WellFormed, Ordered, PlacedBut

LEMMA NextSound ==
  ASSUME Sound(board, {}), [Next]_board
  PROVE  /\ Sound(board', {})
         /\ Tidy(board) => Tidy(board')
         /\ "stack.remove" \notin Cmds => Follows(board, board')
<1> DEFINE Done == Sound(board', {}) /\ Follows(board, board')
<1>0. Done => Sound(board', {}) /\ (Tidy(board) => Tidy(board')) /\ Follows(board, board')
  BY DEF Follows
<1>1. CASE UNCHANGED board
  <2>1. Follows(board, board)
    BY DEF Follows, Spares
  <2> QED BY <1>1, <2>1 DEF Follows
<1>2. CASE BoardCommand
  <2>1. Done
    BY <1>2, SeedDefaultSound, CardSpawnSound, DeliverSound, CreateBlankSound,
       SpawnExistingSound, ActivateSound, EndDaySound DEF BoardCommand
  <2> QED BY <1>0, <2>1
<1>3. ASSUME NEW s \in Stacks, StackCommand(s), ~("stack.remove" \in Cmds /\ StackRemove(s)) PROVE Done
  <2>1. CASE StackBringToFront(s)
    <3>1. Follows(board, BringToFront(board, s))
      BY BringToFrontSound, TakingFollows DEF Stacks
    <3> QED BY <2>1, <3>1, BringToFrontSound DEF StackBringToFront, Stacks
  <2> QED BY <1>3, <2>1, SpawnPackSound, OpenPackSound, UnstackSound, SplitSound,
             CollectSound, AddModifierSound, CompleteSound DEF StackCommand
<1>4. ASSUME NEW s \in Stacks, NEW t \in Stacks, PairCommand(t, s) PROVE Done
  BY <1>4, MergeCommandSound, AssignSound, ZombieClearSound, ConsumeSound, GatherSound
     DEF PairCommand
<1>5. ASSUME NEW c \in TaskCards, CardCommand(c) PROVE Done
  BY <1>5, SetDataSound DEF CardCommand
<1>6. ASSUME NEW s \in Stacks, "stack.remove" \in Cmds, StackRemove(s)
      PROVE  Sound(board', {}) /\ (Tidy(board) => Tidy(board'))
  BY <1>6, RemoveStackSound, StackRemoveTidy DEF StackRemove
<1> HIDE DEF Done
<1> QED BY <1>0, <1>1, <1>2, <1>3, <1>4, <1>5, <1>6 DEF Next

\* The document is sound after every sequence of commands.
THEOREM BoardSound == Spec => []Sound(board, {})
<1>1. Sound(board, {}) /\ [Next]_board => Sound(board, {})'
  <2>1. ASSUME Sound(board, {}), [Next]_board PROVE Sound(board', {})
    BY <2>1, NextSound
  <2>2. Sound(board', {}) => Sound(board, {})'
    BY DEF Sound, WellFormed, Ordered, PlacedBut, CardsOf
  <2> QED BY <2>1, <2>2
<1> QED BY InitSound, <1>1, PTL DEF Spec

\* And tidy: no two cards in a stack that the rules keep apart.
THEOREM BoardTidy == Spec => []Tidy(board)
<1>1. Init => Tidy(board)
  BY DEF Init, NewState, Tidy
<1>2. Sound(board, {}) /\ Tidy(board) /\ [Next]_board => Tidy(board)'
  <2>1. ASSUME Sound(board, {}), Tidy(board), [Next]_board PROVE Tidy(board')
    BY <2>1, NextSound
  <2>2. Tidy(board') => Tidy(board)'
    BY DEF Tidy, Friendly, MayMeet, KindOf, CardsOf
  <2> QED BY <2>1, <2>2
<1> QED BY BoardSound, <1>1, <1>2, PTL DEF Spec

\* Cards, stacks and counters keep their types, whatever the commands.
THEOREM BoardTyped == Spec => []TypeOK
<1>1. Sound(board, {}) => TypeOK
  BY DEF Sound, TypeOK
<1> QED BY BoardSound, <1>1, PTL

\* No command loses a card, copies one or leaves an empty stack behind.
THEOREM CardsConserved == Spec => []EveryCardPlacedOnce
<1>1. Sound(board, {}) => EveryCardPlacedOnce
  BY SoundIsPlaced DEF EveryCardPlacedOnce
<1> QED BY BoardSound, <1>1, PTL

\* No two stacks ever share a Z.
THEOREM DrawOrder == Spec => []DrawOrderTotal
<1>1. Sound(board, {}) => DrawOrderTotal
  BY DEF Sound, DrawOrderTotal
<1> QED BY BoardSound, <1>1, PTL

\* Forbidden pairs never share a stack and nothing lies on a deck, whichever
\* commands run: those that merge without the validator start from a villager,
\* and where one is no zombie and no deck can be.
THEOREM RulesHold == Spec => []DisallowedNeverTogether
<1>1. Sound(board, {}) /\ Tidy(board) => DisallowedNeverTogether
  BY TidyIsApart DEF DisallowedNeverTogether
<1> QED BY BoardSound, BoardTidy, <1>1, PTL

\* Without stack.remove no command costs a villager, because nothing lies on
\* the decks and packs that are taken away.
THEOREM WorkersSurvive ==
  ASSUME "stack.remove" \notin Cmds
  PROVE  Spec => VillagersSurvive
<1>1. Sound(board, {}) /\ Tidy(board) /\ [Next]_board => [Villagers(board) \subseteq Villagers(board')]_board
  <2> SUFFICES ASSUME Sound(board, {}), Tidy(board), [Next]_board
               PROVE  Villagers(board) \subseteq Villagers(board')
    OBVIOUS
  <2>1. Spares(board, board')
    BY NextSound DEF Follows
  <2> QED BY <2>1 DEF Spares, Villagers
<1> QED BY BoardSound, BoardTidy, <1>1, PTL DEF Spec, VillagersSurvive
=============================================================================
