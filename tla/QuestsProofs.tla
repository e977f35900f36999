---------------------------- MODULE QuestsProofs ----------------------------
(***************************************************************************)
(* Proofs about Quests, for every set of templates, draw, goals and bound: *)
(* a quest is held once and paid for once, whatever is drawn and whenever  *)
(* it is offered again.  And about BoardMining, which shares no state with *)
(* it, for every number of stacks, charges and commands: a tab is paid for *)
(* the cycles its sessions worked.                                         *)
(***************************************************************************)
EXTENDS Quests, BoardMining, FiniteSetTheorems, FunctionTheorems, SequenceTheorems, TLAPS

DocFields == {"ticks", "metrics", "zombies", "active", "history", "recent", "refreshed", "claimDay", "streak"}
QuestFields == {"id", "base", "done"}

\* A document that holds every quest once.
Sound(d) ==
  /\ DOMAIN d = DocFields /\ d.ticks \in Nat
  /\ \A q \in d.active : DOMAIN q = QuestFields
  /\ IdsUnique(d.active) /\ IdsUnique(d.history)
  /\ \A q \in d.active, h \in d.history : q.id # h.id

WasClaimed(d, id) == \E h \in d.history : h.id = id /\ h.claimed # 0
Paid(d) == paid = [id \in Ids |-> IF WasClaimed(d, id) THEN 1 ELSE 0]

\* e holds what d holds, and nothing was claimed between them.
Follows(d, e) == Sound(e) /\ e.ticks = d.ticks /\ \A id \in Ids : WasClaimed(e, id) <=> WasClaimed(d, id)

IInv == Sound(doc) /\ Paid(doc)

-----------------------------------------------------------------------------
(* Refreshing a document. *)

\* What is started is in neither the quests nor the history, and every id once.
LEMMA Adds ==
  ASSUME NEW d, Sound(d), NEW ids, \A id \in ids : ~HasQuest(d, id), NEW old,
         NEW e, DOMAIN e = DocFields, e.ticks = d.ticks, e.history = d.history,
         e.active = d.active \cup {Started(old, id) : id \in ids}
  PROVE  Follows(d, e)
<1>1. \A id : DOMAIN Started(old, id) = QuestFields /\ Started(old, id).id = id
  BY DEF Started, QuestFields
<1>2. \A q \in e.active : q \in d.active \/ \E id \in ids : q = Started(old, id)
  OBVIOUS
<1>3. IdsUnique(e.active)
  <2>1. ASSUME NEW q \in e.active, NEW r \in e.active, q.id = r.id
        PROVE  q = r
    <3>1. CASE q \in d.active /\ r \in d.active
      BY <2>1, <3>1 DEF Sound, IdsUnique
    <3>2. CASE \E i \in ids : q = Started(old, i)
      BY <1>1, <1>2, <2>1, <3>2 DEF HasQuest
    <3>3. CASE \E i \in ids : r = Started(old, i)
      BY <1>1, <1>2, <2>1, <3>3 DEF HasQuest
    <3> QED BY <1>2, <3>1, <3>2, <3>3
  <2> QED BY <2>1 DEF IdsUnique
<1>4. \A q \in e.active, h \in e.history : q.id # h.id
  BY <1>1, <1>2 DEF Sound, HasQuest
<1>5. \A q \in e.active : DOMAIN q = QuestFields
  BY <1>1, <1>2 DEF Sound
<1>6. Sound(e)
  BY <1>3, <1>4, <1>5 DEF Sound
<1> QED BY <1>6 DEF Follows, WasClaimed

\* What is archived unclaimed was on the board.
LEMMA Archives ==
  ASSUME NEW d, Sound(d), NEW over, over \subseteq d.active,
         NEW e, DOMAIN e = DocFields, e.ticks = d.ticks, e.active = d.active \ over,
         e.history = d.history \cup {Archived(q, 0) : q \in over}
  PROVE  Follows(d, e)
<1>1. \A q : Archived(q, 0).id = q.id /\ Archived(q, 0).claimed = 0
  BY DEF Archived
<1>2. \A h \in e.history : h \in d.history \/ \E q \in over : h = Archived(q, 0)
  OBVIOUS
<1>3. IdsUnique(e.history)
  <2>1. ASSUME NEW g \in e.history, NEW h \in e.history, g.id = h.id
        PROVE  g = h
    <3>1. CASE g \in d.history /\ h \in d.history
      BY <2>1, <3>1 DEF Sound, IdsUnique
    <3>2. CASE g \in d.history /\ h \notin d.history
      BY <1>1, <1>2, <2>1, <3>2 DEF Sound
    <3>3. CASE g \notin d.history /\ h \in d.history
      BY <1>1, <1>2, <2>1, <3>3 DEF Sound
    <3>4. CASE g \notin d.history /\ h \notin d.history
      <4>1. PICK q \in over, r \in over : g = Archived(q, 0) /\ h = Archived(r, 0)
        BY <1>2, <3>4
      <4>2. q = r
        BY <1>1, <2>1, <4>1 DEF Sound, IdsUnique
      <4> QED BY <4>1, <4>2
    <3> QED BY <3>1, <3>2, <3>3, <3>4
  <2> QED BY <2>1 DEF IdsUnique
<1>4. \A q \in e.active, h \in e.history : q.id # h.id
  <2>1. ASSUME NEW q \in e.active, NEW h \in e.history, q.id = h.id
        PROVE  FALSE
    <3>1. q \in d.active /\ q \notin over
      OBVIOUS
    <3>2. h \notin d.history
      BY <2>1, <3>1 DEF Sound
    <3>3. PICK r \in over : h = Archived(r, 0)
      BY <1>2, <3>2
    <3>4. q = r
      BY <1>1, <2>1, <3>1, <3>3 DEF Sound, IdsUnique
    <3> QED BY <3>1, <3>4
  <2> QED BY <2>1
<1>5. Sound(e)
  <2>1. IdsUnique(e.active)
    BY DEF Sound, IdsUnique
  <2> QED BY <1>3, <1>4, <2>1 DEF Sound
<1>6. \A id \in Ids : WasClaimed(e, id) <=> WasClaimed(d, id)
  BY <1>1, <1>2 DEF WasClaimed
<1> QED BY <1>5, <1>6 DEF Follows

LEMMA Transitive ==
  ASSUME NEW d, NEW e, NEW f, Follows(d, e), Follows(e, f)
  PROVE  Follows(d, f)
BY DEF Follows

LEMMA TurnedFollows ==
  ASSUME NEW d, Sound(d), NEW roll
  PROVE  Follows(d, Turned(d, roll))
<1>1. CASE d.refreshed = Day(d)
  BY <1>1 DEF Turned, Follows
<1>2. CASE d.refreshed # Day(d)
  <2> DEFINE kept == [d EXCEPT !.active = @ \ Over(d), !.history = @ \cup {Archived(q, 0) : q \in Over(d)}]
             new == {t \in roll : ~HasQuest(kept, Id(t, Day(d)))}
             ids == {Id(t, Day(d)) : t \in new}
             e == Turned(d, roll)
  <2>1. /\ DOMAIN kept = DocFields /\ kept.ticks = d.ticks /\ kept.active = d.active \ Over(d)
        /\ kept.history = d.history \cup {Archived(q, 0) : q \in Over(d)}
    BY DEF Sound, DocFields
  <2>2. Over(d) \subseteq d.active
    BY DEF Over
  <2> HIDE DEF kept
  <2>3. Follows(d, kept) /\ Sound(kept)
    BY <2>1, <2>2, Archives DEF Follows
  <2>4. \E recent :
          e = [kept EXCEPT !.active = @ \cup {Started(d, Id(t, Day(d))) : t \in new},
                           !.recent = recent, !.refreshed = Day(d)]
    BY <1>2 DEF Turned, kept
  <2>5. /\ DOMAIN e = DocFields /\ e.ticks = kept.ticks /\ e.history = kept.history
        /\ e.active = kept.active \cup {Started(d, Id(t, Day(d))) : t \in new}
    BY <2>1, <2>4 DEF DocFields
  <2>6. {Started(d, Id(t, Day(d))) : t \in new} = {Started(d, id) : id \in ids}
    OBVIOUS
  <2>7. \A id \in ids : ~HasQuest(kept, id)
    OBVIOUS
  <2> HIDE DEF e, ids, new
  <2>8. Follows(kept, e)
    BY <2>3, <2>5, <2>6, <2>7, Adds
  <2> QED BY <2>3, <2>8, Transitive DEF e
<1> QED BY <1>1, <1>2

LEMMA OfferedFollows ==
  ASSUME NEW d, Sound(d)
  PROVE  Follows(d, Offered(d))
<1> DEFINE ids == {i \in Due(d) : ~HasQuest(d, i)}
<1>1. /\ DOMAIN Offered(d) = DocFields /\ Offered(d).ticks = d.ticks /\ Offered(d).history = d.history
      /\ Offered(d).active = d.active \cup {Started(d, id) : id \in ids}
  BY DEF Offered, Sound, DocFields
<1>2. \A id \in ids : ~HasQuest(d, id)
  OBVIOUS
<1> DEFINE e == Offered(d)
<1> HIDE DEF ids, e
<1>3. Follows(d, e)
  BY <1>1, <1>2, Adds DEF e
<1> QED BY <1>3 DEF e

LEMMA MarkedFollows ==
  ASSUME NEW d, Sound(d), NEW open
  PROVE  Follows(d, Marked(d, open))
<1> DEFINE Mark(q) == [q EXCEPT !.done = IF @ = 0 /\ Met(d, q, open) THEN Day(d) ELSE @]
           e == Marked(d, open)
<1>1. /\ DOMAIN e = DocFields /\ e.ticks = d.ticks /\ e.history = d.history
      /\ e.active = {Mark(q) : q \in d.active}
  BY DEF Marked, Sound, DocFields
<1>2. \A q \in d.active : DOMAIN Mark(q) = QuestFields /\ Mark(q).id = q.id
  BY DEF Sound, QuestFields
<1> HIDE DEF Mark, e
<1>3. \A r \in e.active : \E q \in d.active : r = Mark(q) /\ DOMAIN r = QuestFields /\ r.id = q.id
  BY <1>1, <1>2
<1>4. IdsUnique(e.active)
  BY <1>3 DEF Sound, IdsUnique
<1>5. Sound(e)
  BY <1>1, <1>3, <1>4 DEF Sound
<1> QED BY <1>1, <1>5 DEF Follows, WasClaimed, e

LEMMA RefreshedFollows ==
  ASSUME NEW d, Sound(d), NEW roll, NEW open
  PROVE  Follows(d, Refreshed(d, roll, open))
<1>1. Follows(d, Turned(d, roll)) /\ Sound(Turned(d, roll))
  BY TurnedFollows DEF Follows
<1>2. Follows(Turned(d, roll), Offered(Turned(d, roll))) /\ Sound(Offered(Turned(d, roll)))
  BY <1>1, OfferedFollows DEF Follows
<1>3. Follows(Offered(Turned(d, roll)), Refreshed(d, roll, open))
  BY <1>2, MarkedFollows DEF Refreshed
<1> QED BY <1>1, <1>2, <1>3, Transitive

-----------------------------------------------------------------------------
(* Commands. *)

LEMMA OpenedFollows ==
  ASSUME IInv, NEW d \in Opened
  PROVE  Sound(d) /\ Paid(d)
<1>1. Sound(doc) /\ Paid(doc)
  BY DEF IInv
<1>2. Follows(doc, d)
  BY <1>1, RefreshedFollows DEF Opened
<1> QED BY <1>1, <1>2 DEF Follows, Paid

LEMMA Saves ==
  ASSUME NEW d, Sound(d), NEW open, Save(d, open), paid' = [id \in Ids |-> IF WasClaimed(d, id) THEN 1 ELSE 0]
  PROVE  IInv'
<1>1. Follows(d, doc')
  BY RefreshedFollows DEF Save
<1>2. \A id \in Ids : WasClaimed(doc', id) <=> WasClaimed(d, id)
  BY <1>1 DEF Follows
<1>3. Sound(doc')
  BY <1>1 DEF Follows
<1>4. paid' = [id \in Ids |-> IF WasClaimed(doc', id) THEN 1 ELSE 0]
  BY <1>2
<1> QED BY <1>3, <1>4 DEF IInv, Sound, Paid, WasClaimed, IdsUnique

\* A command that claims nothing.
LEMMA Unclaimed ==
  ASSUME IInv, NEW d \in Opened, NEW e, DOMAIN e = DocFields, e.ticks \in Nat, e.active = d.active,
         e.history = d.history, NEW open, Save(e, open), UNCHANGED paid
  PROVE  IInv'
<1>1. Sound(d) /\ Paid(d)
  BY OpenedFollows
<1>2. Sound(e)
  BY <1>1 DEF Sound
<1>3. paid' = [id \in Ids |-> IF WasClaimed(e, id) THEN 1 ELSE 0]
  BY <1>1 DEF Paid, WasClaimed
<1> QED BY <1>2, <1>3, Saves

LEMMA WorkKeeps ==
  ASSUME IInv, NEW c \in Counters, Work(c)
  PROVE  IInv'
<1>0. PICK d \in Opened : \E open, n, m :
        Save([d EXCEPT !.metrics = m, !.zombies = n], open) /\ UNCHANGED paid
  BY DEF Work
<1>1. PICK open, n, m :
        Save([d EXCEPT !.metrics = m, !.zombies = n], open) /\ UNCHANGED paid
  BY <1>0
<1>2. Sound(d)
  BY OpenedFollows
<1> DEFINE e == [d EXCEPT !.metrics = m, !.zombies = n]
<1>3. DOMAIN e = DocFields /\ e.ticks \in Nat /\ e.active = d.active /\ e.history = d.history
  BY <1>2 DEF Sound, DocFields
<1> HIDE DEF e
<1> QED BY <1>1, <1>3, Unclaimed DEF e

LEMMA OtherKeeps ==
  ASSUME IInv, Other
  PROVE  IInv'
<1>1. PICK d \in Opened :
        /\ UNCHANGED paid
        /\ \/ Save([d EXCEPT !.zombies = d.zombies - 1], backlog)
           \/ Save(d, backlog - 1) \/ Save(d, backlog)
  BY DEF Other
<1>2. Sound(d)
  BY OpenedFollows
<1>3. /\ DOMAIN d = DocFields /\ d.ticks \in Nat
  BY <1>2 DEF Sound
<1> DEFINE e == [d EXCEPT !.zombies = d.zombies - 1]
<1>4. DOMAIN e = DocFields /\ e.ticks \in Nat /\ e.active = d.active /\ e.history = d.history
  BY <1>3 DEF DocFields
<1> HIDE DEF e
<1>5. \E open : Save(e, open) \/ Save(d, open)
  BY <1>1 DEF e
<1> QED BY <1>1, <1>3, <1>4, <1>5, Unclaimed

LEMMA EndDayKeeps ==
  ASSUME IInv, EndDay
  PROVE  IInv'
<1>0. PICK d \in Opened : \E zombies, open :
        Save([d EXCEPT !.ticks = d.ticks + 1, !.zombies = zombies], open) /\ UNCHANGED paid
  BY DEF EndDay
<1>1. PICK zombies, open :
        Save([d EXCEPT !.ticks = d.ticks + 1, !.zombies = zombies], open) /\ UNCHANGED paid
  BY <1>0
<1>2. Sound(d)
  BY OpenedFollows
<1> DEFINE e == [d EXCEPT !.ticks = d.ticks + 1, !.zombies = zombies]
<1>3. DOMAIN e = DocFields /\ e.ticks \in Nat /\ e.active = d.active /\ e.history = d.history
  BY <1>2 DEF Sound, DocFields
<1> HIDE DEF e
<1> QED BY <1>1, <1>3, Unclaimed DEF e

\* A claimed quest moves to the history, claimed on the day.
LEMMA ClaimedIsSound ==
  ASSUME NEW d, Sound(d), NEW q \in d.active
  PROVE  LET e == Claimed(d, q)  a == Archived(q, Day(d)) IN
         /\ Sound(e) /\ e.ticks = d.ticks /\ e.active = d.active \ {q} /\ e.history = d.history \cup {a}
         /\ a.id = q.id /\ a.claimed # 0
<1> DEFINE e == Claimed(d, q)
           a == Archived(q, Day(d))
<1>1. /\ DOMAIN e = DocFields /\ e.ticks = d.ticks /\ e.active = d.active \ {q}
      /\ e.history = d.history \cup {a}
  BY DEF Claimed, Sound, DocFields
<1>2. a.id = q.id /\ a.claimed # 0
  BY DEF Archived, Day, Sound
<1> HIDE DEF e, a
<1>3. IdsUnique(e.history)
  BY <1>1, <1>2 DEF Sound, IdsUnique
<1>4. \A r \in e.active : r.id # q.id
  BY <1>1 DEF Sound, IdsUnique
<1>5. IdsUnique(e.active)
  BY <1>1 DEF Sound, IdsUnique
<1>6. \A r \in e.active, h \in e.history : r.id # h.id
  BY <1>1, <1>2, <1>4 DEF Sound
<1>7. Sound(e)
  BY <1>1, <1>3, <1>5, <1>6 DEF Sound
<1> QED BY <1>1, <1>2, <1>7 DEF e, a

LEMMA ClaimKeeps ==
  ASSUME IInv, NEW id \in Ids, Claim(id)
  PROVE  IInv'
<1>1. PICK d \in Opened : \E q \in d.active :
        q.id = id /\ Save(Claimed(d, q), backlog) /\ paid' = [paid EXCEPT ![id] = @ + 1]
  BY DEF Claim
<1>2. PICK q \in d.active : q.id = id /\ Save(Claimed(d, q), backlog) /\ paid' = [paid EXCEPT ![id] = @ + 1]
  BY <1>1
<1>3. Sound(d) /\ Paid(d)
  BY OpenedFollows
<1> DEFINE e == Claimed(d, q)
           a == Archived(q, Day(d))
<1>4. /\ Sound(e) /\ e.history = d.history \cup {a}
      /\ a.id = id /\ a.claimed # 0
  BY <1>2, <1>3, ClaimedIsSound
<1> HIDE DEF e, a
<1>5. \A h \in d.history : h.id # id
  BY <1>2, <1>3 DEF Sound
<1>6. \A i \in Ids : WasClaimed(e, i) <=> WasClaimed(d, i) \/ i = id
  BY <1>4 DEF WasClaimed
<1>7. paid[id] = 0
  BY <1>3, <1>5 DEF Paid, WasClaimed
<1>8. paid' = [i \in Ids |-> IF WasClaimed(e, i) THEN 1 ELSE 0]
  BY <1>2, <1>3, <1>6, <1>7 DEF Paid
<1> QED BY <1>2, <1>4, <1>8, Saves DEF e

LEMMA Inductive ==
  ASSUME IInv, [Next]_vars
  PROVE  IInv'
<1>1. CASE Read \/ Elsewhere \/ UNCHANGED vars
  <2>1. doc' = doc /\ paid' = paid
    BY <1>1 DEF Read, Elsewhere, vars
  <2> QED BY <2>1 DEF IInv, Sound, Paid, WasClaimed, IdsUnique
<1> QED BY <1>1, WorkKeeps, OtherKeeps, EndDayKeeps, ClaimKeeps DEF Next

LEMMA Initially ==
  ASSUME Init
  PROVE  IInv
<1>1. /\ doc \in [ticks : 0..1, metrics : [Counters -> 0..1], zombies : 0..MaxZombies, active : {{}}, history : {{}},
                  recent : {<<>>}, refreshed : {0}, claimDay : {0}, streak : {0}]
      /\ paid = [i \in Ids |-> 0]
  BY DEF Init
<1>2. doc.ticks \in Nat /\ doc.active = {} /\ doc.history = {}
  BY <1>1
<1>3. DOMAIN doc = DocFields
  BY <1>1 DEF DocFields
<1>4. Sound(doc)
  BY <1>2, <1>3 DEF Sound, IdsUnique
<1>5. Paid(doc)
  BY <1>1, <1>2 DEF Paid, WasClaimed
<1> QED BY <1>4, <1>5 DEF IInv

(* Neither the weeks a story or a boss comes back for, nor a daily drawn       *)
(* again, nor claiming while the day turns pays for a quest twice              *)
(* (quests_01.go:189-417).                                                     *)
THEOREM PaidOnce == Spec => []QuestsPaidOnce
<1>1. Spec => []IInv
  BY Initially, Inductive, PTL DEF Spec
<1>2. IInv => QuestsPaidOnce
  BY DEF IInv, Sound, Paid, WasClaimed, QuestsPaidOnce
<1> QED BY <1>1, <1>2, PTL
-----------------------------------------------------------------------------
(* What a read showed.                                                        *)

\* A quest goes on in f: on the board counting from the same point, or archived.
GoesOn(q, f) ==
  \/ \E r \in f.active : r.id = q.id /\ r.base = q.base /\ (q.done # 0 => r.done = q.done)
  \/ \E h \in f.history : h.id = q.id /\ (q.done # 0 => h.done = q.done)

\* Between a read and the next change the next command opens what was shown.
ShownIsOpened == shown # {} => \A d \in Opened : d.active = shown

LEMMA TurnedGoesOn ==
  ASSUME NEW d, Sound(d), NEW roll, NEW q, GoesOn(q, d)
  PROVE  GoesOn(q, Turned(d, roll))
<1>1. CASE d.refreshed = Day(d)
  BY <1>1 DEF Turned
<1>2. CASE d.refreshed # Day(d)
  <2> DEFINE e == Turned(d, roll)
             gone == {Archived(r, 0) : r \in Over(d)}
  <2>1. \E new, recent : e = [[d EXCEPT !.active = @ \ Over(d), !.history = @ \cup gone]
                                 EXCEPT !.active = @ \cup new, !.recent = recent, !.refreshed = Day(d)]
    BY <1>2 DEF Turned
  <2>2. e.history = d.history \cup gone /\ d.active \ Over(d) \subseteq e.active
    BY <2>1 DEF Sound, DocFields
  <2>3. \A r \in Over(d) : Archived(r, 0) \in gone /\ Archived(r, 0).id = r.id /\ Archived(r, 0).done = r.done
    BY DEF Archived
  <2> HIDE DEF e, gone
  <2> QED BY <2>2, <2>3 DEF GoesOn, e
<1> QED BY <1>1, <1>2

LEMMA OfferedGoesOn ==
  ASSUME NEW d, Sound(d), NEW q, GoesOn(q, d)
  PROVE  GoesOn(q, Offered(d))
<1>1. Offered(d).history = d.history /\ d.active \subseteq Offered(d).active
  BY DEF Offered, Sound, DocFields
<1> QED BY <1>1 DEF GoesOn

LEMMA MarkedGoesOn ==
  ASSUME NEW d, Sound(d), NEW open, NEW q, GoesOn(q, d)
  PROVE  GoesOn(q, Marked(d, open))
<1> DEFINE Mark(r) == [r EXCEPT !.done = IF @ = 0 /\ Met(d, r, open) THEN Day(d) ELSE @]
<1>1. Marked(d, open).history = d.history /\ Marked(d, open).active = {Mark(r) : r \in d.active}
  BY DEF Marked, Sound, DocFields
<1>2. \A r \in d.active : Mark(r).id = r.id /\ Mark(r).base = r.base /\ (r.done # 0 => Mark(r).done = r.done)
  BY DEF Sound, QuestFields
<1> HIDE DEF Mark
<1> QED BY <1>1, <1>2 DEF GoesOn

LEMMA RefreshedGoesOn ==
  ASSUME NEW d, Sound(d), NEW roll, NEW open, NEW q, GoesOn(q, d)
  PROVE  GoesOn(q, Refreshed(d, roll, open))
<1>1. Sound(Turned(d, roll)) /\ GoesOn(q, Turned(d, roll))
  BY TurnedFollows, TurnedGoesOn DEF Follows
<1>2. Sound(Offered(Turned(d, roll))) /\ GoesOn(q, Offered(Turned(d, roll)))
  BY <1>1, OfferedFollows, OfferedGoesOn DEF Follows
<1> QED BY <1>2, MarkedGoesOn DEF Refreshed

\* The same call draws the same.
LEMMA ReadShows ==
  ASSUME Read
  PROVE  ShownIsOpened'
<1>1. PICK roll \in IF drawn # {} THEN {drawn} ELSE Rolls(doc) :
        /\ drawn' = roll /\ shown' = Refreshed(doc, roll, backlog).active
        /\ UNCHANGED <<doc, backlog, paid>>
  BY DEF Read
<1>2. roll # {} \/ Rolls(doc) = {{}}
  <2>1. CASE drawn # {}
    BY <1>1, <2>1
  <2>2. CASE drawn = {} /\ doc.refreshed = Day(doc)
    BY <2>2 DEF Rolls
  <2>3. CASE drawn = {} /\ doc.refreshed # Day(doc)
    <3>1. Cardinality(roll) = DrawCount
      BY <1>1, <2>3 DEF Rolls, Draws
    <3> QED BY <3>1, FS_EmptySet, QuestsAssumption
  <2> QED BY <2>1, <2>2, <2>3
<1>3. Opened' = {Refreshed(doc, r, backlog) : r \in IF roll # {} THEN {roll} ELSE Rolls(doc)}
  <2>1. doc' = doc /\ backlog' = backlog /\ drawn' = roll
    BY <1>1
  <2> QED BY <2>1 DEF Opened
<1>4. Opened' = {Refreshed(doc, roll, backlog)}
  BY <1>1, <1>2, <1>3
<1> QED BY <1>1, <1>4 DEF ShownIsOpened

LEMMA ShownIsOpenedNext ==
  ASSUME ShownIsOpened, [Next]_vars
  PROVE  ShownIsOpened'
<1>1. CASE UNCHANGED vars
  <2>1. Opened' = Opened
    BY <1>1 DEF vars, Opened
  <2> QED BY <1>1, <2>1 DEF ShownIsOpened, vars
<1>2. CASE Read
  BY <1>2, ReadShows
<1>3. CASE shown' = {}
  BY <1>3 DEF ShownIsOpened
<1> QED BY <1>1, <1>2, <1>3 DEF Next, Work, Other, EndDay, Claim, Save, Elsewhere
\* A saved document holds whatever the one it was made of did.
LEMMA SavedGoesOn ==
  ASSUME NEW e, Sound(e), NEW open, Save(e, open), NEW q, GoesOn(q, e)
  PROVE  GoesOn(q, doc')
<1>1. PICK roll \in Rolls(e) : doc' = Refreshed(e, roll, open)
  BY DEF Save
<1> QED BY <1>1, RefreshedGoesOn

\* The document a command makes of the one it opened, whether it claims or not.
LEMMA CommandSaves ==
  ASSUME IInv, Next, ~Read, ~Elsewhere
  PROVE  \E d \in Opened : \E e, open :
           /\ Sound(e) /\ Save(e, open)
           /\ \A q \in d.active : GoesOn(q, e)
<1>1. \A d \in Opened : Sound(d)
  BY OpenedFollows
<1>2. ASSUME NEW d \in Opened, NEW e, NEW open, DOMAIN e = DocFields, e.ticks \in Nat, e.active = d.active,
             e.history = d.history, Save(e, open)
      PROVE  \E dd \in Opened : \E ee, op : Sound(ee) /\ Save(ee, op) /\ \A q \in dd.active : GoesOn(q, ee)
  <2>1. Sound(e) /\ \A q \in d.active : GoesOn(q, e)
    BY <1>1, <1>2 DEF Sound, GoesOn
  <2> QED BY <1>2, <2>1
<1>3. CASE \E c \in Counters : Work(c)
  <2>1. PICK d \in Opened : \E open, n, m : Save([d EXCEPT !.metrics = m, !.zombies = n], open)
    BY <1>3 DEF Work
  <2>2. PICK open, n, m : Save([d EXCEPT !.metrics = m, !.zombies = n], open)
    BY <2>1
  <2> DEFINE e == [d EXCEPT !.metrics = m, !.zombies = n]
  <2>3. DOMAIN e = DocFields /\ e.ticks \in Nat /\ e.active = d.active /\ e.history = d.history
    BY <1>1 DEF Sound, DocFields
  <2> HIDE DEF e
  <2> QED BY <1>2, <2>2, <2>3 DEF e
<1>4. CASE Other
  <2>1. PICK d \in Opened : \/ Save([d EXCEPT !.zombies = d.zombies - 1], backlog)
                            \/ Save(d, backlog - 1) \/ Save(d, backlog)
    BY <1>4 DEF Other
  <2>2. DOMAIN d = DocFields /\ d.ticks \in Nat
    BY <1>1 DEF Sound
  <2> DEFINE e == [d EXCEPT !.zombies = d.zombies - 1]
  <2>3. DOMAIN e = DocFields /\ e.ticks \in Nat /\ e.active = d.active /\ e.history = d.history
    BY <2>2 DEF DocFields
  <2> HIDE DEF e
  <2>4. \E open : Save(e, open) \/ Save(d, open)
    BY <2>1 DEF e
  <2> QED BY <1>2, <2>2, <2>3, <2>4
<1>5. CASE EndDay
  <2>1. PICK d \in Opened : \E zombies, open : Save([d EXCEPT !.ticks = d.ticks + 1, !.zombies = zombies], open)
    BY <1>5 DEF EndDay
  <2>2. PICK zombies, open : Save([d EXCEPT !.ticks = d.ticks + 1, !.zombies = zombies], open)
    BY <2>1
  <2> DEFINE e == [d EXCEPT !.ticks = d.ticks + 1, !.zombies = zombies]
  <2>3. DOMAIN e = DocFields /\ e.ticks \in Nat /\ e.active = d.active /\ e.history = d.history
    BY <1>1 DEF Sound, DocFields
  <2> HIDE DEF e
  <2> QED BY <1>2, <2>2, <2>3 DEF e
<1>6. CASE \E id \in Ids : Claim(id)
  <2>1. PICK d \in Opened : \E p \in d.active : Save(Claimed(d, p), backlog)
    BY <1>6 DEF Claim
  <2>2. PICK p \in d.active : Save(Claimed(d, p), backlog)
    BY <2>1
  <2> DEFINE e == Claimed(d, p)
  <2>3. Sound(e) /\ e.active = d.active \ {p} /\ e.history = d.history \cup {Archived(p, Day(d))}
    BY <1>1, ClaimedIsSound
  <2>4. Archived(p, Day(d)).id = p.id /\ Archived(p, Day(d)).done = p.done
    BY DEF Archived
  <2> HIDE DEF e
  <2>5. \A q \in d.active : GoesOn(q, e)
    BY <2>3, <2>4 DEF GoesOn
  <2> QED BY <2>2, <2>3, <2>5 DEF e
<1> QED BY <1>3, <1>4, <1>5, <1>6 DEF Next

(* What a read showed counts: the command that follows it, whatever it is and *)
(* whether the day turned, goes on from the very quests shown, with their     *)
(* starting points, and a completed quest stays completed, although the read  *)
(* saved nothing (board/service.go:95-140, quests_01.go:189-301).             *)
THEOREM CountsForShown == Spec => WorkCountsForShown
<1> DEFINE ShownGoOn == doc' # doc => \A q \in shown : GoesOn(q, doc')
<1>1. Spec => []IInv
  BY Initially, Inductive, PTL DEF Spec
<1>2. Init => ShownIsOpened
  BY DEF Init, ShownIsOpened
<1>3. ASSUME IInv, ShownIsOpened, [Next]_vars
      PROVE  [ShownGoOn]_vars
  <2>1. CASE doc' = doc \/ shown = {} \/ UNCHANGED vars
    BY <2>1
  <2>2. CASE doc' # doc /\ shown # {} /\ Next
    <3>1. ~Read /\ ~Elsewhere
      BY <2>2 DEF Read, Elsewhere
    <3>2. PICK d \in Opened : \E e, open : Sound(e) /\ Save(e, open) /\ \A q \in d.active : GoesOn(q, e)
      BY <1>3, <2>2, <3>1, CommandSaves
    <3>3. PICK e, open : Sound(e) /\ Save(e, open) /\ \A q \in d.active : GoesOn(q, e)
      BY <3>2
    <3>4. d.active = shown
      BY <1>3, <2>2 DEF ShownIsOpened
    <3>5. \A q \in shown : GoesOn(q, doc')
      BY <3>3, <3>4, SavedGoesOn
    <3> QED BY <3>5
  <2> QED BY <1>3, <2>1, <2>2
<1>4. Spec => [][ShownGoOn]_vars
  BY <1>1, <1>2, <1>3, ShownIsOpenedNext, PTL DEF Spec
<1>5. ShownGoOn => (doc' # doc =>
       \A q \in shown :
         \/ \E r \in doc'.active : r.id = q.id /\ r.base = q.base /\ (q.done # 0 => r.done = q.done)
         \/ \E h \in doc'.history : h.id = q.id /\ (q.done # 0 => h.done = q.done))
  BY DEF GoesOn
<1> HIDE DEF ShownGoOn
<1> QED BY <1>4, <1>5, PTL DEF WorkCountsForShown
-----------------------------------------------------------------------------
(* The days: what the dailies of a document say of the days it was used.      *)

DrawSets == {s \in SUBSET Dailies : Cardinality(s) = DrawCount}
\* The dailies of a day, on the board or in the history.
Drawn(d, day) == {t \in Dailies : HasQuest(d, Id(t, day))}
Claims(d) == {h.claimed : h \in {e \in d.history : IsDaily(e)}} \ {0}
Enough == Cardinality(Dailies) >= (NoRepeatDays + 1) * DrawCount

Named(id) == id = Id(id.template, id.at)
Dated(d) ==
  /\ d.refreshed \in Nat /\ d.refreshed <= Day(d)
  /\ \A q \in d.active : IsDaily(q) => Named(q.id) /\ q.id.at = d.refreshed /\ d.refreshed # 0
  /\ \A h \in d.history : IsDaily(h) => Named(h.id) /\ h.id.at \in 1..d.refreshed /\ h.claimed \in {0, h.id.at}
Full(d) == \A day \in 1..d.refreshed : Cardinality(Drawn(d, day)) \in {0, DrawCount}
\* A template of the last days is remembered, the days before it further down.
Remembers(d) ==
  /\ d.recent \in Seq(DrawSets) /\ Len(d.recent) <= NoRepeatDays
  /\ \A day \in 1..d.refreshed : \A t \in Drawn(d, day) :
       day + NoRepeatDays > d.refreshed => \E i \in 1..Len(d.recent) : i + day <= d.refreshed + 1 /\ t \in d.recent[i]
Spaced(d) ==
  Enough => \A a, b \in 1..d.refreshed : a < b => \A t \in Drawn(d, a) \cap Drawn(d, b) : b > a + NoRepeatDays
Streaks(d) ==
  /\ d.claimDay \in Nat /\ d.streak \in Nat
  /\ d.claimDay \in Claims(d) \cup {0} /\ \A day \in Claims(d) : day <= d.claimDay
  /\ ((d.claimDay + 1 - d.streak)..d.claimDay) \subseteq Claims(d)
  /\ d.claimDay - d.streak \notin Claims(d)
Follow(d) == Dated(d) /\ Full(d) /\ Remembers(d) /\ Spaced(d) /\ Streaks(d)
\* What outlives a change of anything but the dailies: the same ids on the board.
LEMMA AlikeFollows ==
  ASSUME NEW d, Follow(d), NEW e, d.ticks \in Nat, e.ticks \in Nat, d.ticks <= e.ticks,
         e.refreshed = d.refreshed, e.recent = d.recent, e.claimDay = d.claimDay, e.streak = d.streak,
         e.history = d.history,
         \A q \in e.active : IsDaily(q) => \E r \in d.active : r.id = q.id,
         \A r \in d.active : IsDaily(r) => \E q \in e.active : q.id = r.id
  PROVE  Follow(e)
<1>1. Dated(e)
  BY DEF Follow, Dated, Day, IsDaily
<1>2. \A day : Drawn(e, day) = Drawn(d, day)
  <2>1. ASSUME NEW t \in Dailies, NEW day PROVE HasQuest(e, Id(t, day)) <=> HasQuest(d, Id(t, day))
    BY DEF HasQuest, IsDaily, Id
  <2> QED BY <2>1 DEF Drawn
<1>3. Claims(e) = Claims(d)
  BY DEF Claims
<1> QED BY <1>1, <1>2, <1>3 DEF Follow, Full, Remembers, Spaced, Streaks

LEMMA OfferedKeepsDays ==
  ASSUME NEW d, Sound(d), Follow(d)
  PROVE  Follow(Offered(d)) /\ Offered(d).refreshed = d.refreshed /\ Offered(d).ticks = d.ticks
<1> DEFINE e == Offered(d)
           ids == {i \in Due(d) : ~HasQuest(d, i)}
<1>1. /\ e.ticks = d.ticks /\ e.refreshed = d.refreshed /\ e.recent = d.recent /\ e.claimDay = d.claimDay
      /\ e.streak = d.streak /\ e.history = d.history /\ e.active = d.active \cup {Started(d, id) : id \in ids}
  BY DEF Offered, Sound, DocFields
<1>2. \A id \in ids : Started(d, id).id.template \notin Dailies
  BY QuestsAssumption DEF Due, Id, Started
<1> HIDE DEF e, ids
<1>3. \A q \in e.active : IsDaily(q) => q \in d.active
  BY <1>1, <1>2 DEF IsDaily
<1> QED BY <1>1, <1>3, AlikeFollows DEF e, Sound

LEMMA MarkedKeepsDays ==
  ASSUME NEW d, Sound(d), Follow(d), NEW open
  PROVE  LET e == Marked(d, open) IN Follow(e) /\ e.refreshed = d.refreshed /\ e.ticks = d.ticks
<1> DEFINE Mark(q) == [q EXCEPT !.done = IF @ = 0 /\ Met(d, q, open) THEN Day(d) ELSE @]
           e == Marked(d, open)
<1>1. /\ e.ticks = d.ticks /\ e.refreshed = d.refreshed /\ e.recent = d.recent /\ e.claimDay = d.claimDay
      /\ e.streak = d.streak /\ e.history = d.history /\ e.active = {Mark(q) : q \in d.active}
  BY DEF Marked, Sound, DocFields
<1>2. \A q \in d.active : Mark(q).id = q.id
  BY DEF Sound, QuestFields
<1> HIDE DEF Mark, e
<1>3. \A q \in e.active : \E r \in d.active : r.id = q.id
  BY <1>1, <1>2
<1>4. \A r \in d.active : \E q \in e.active : q.id = r.id
  BY <1>1, <1>2
<1> QED BY <1>1, <1>3, <1>4, AlikeFollows DEF e, Sound

\* As many sets as are remembered hold at most so many templates: each template is one of
\* the DrawCount of one of the Len(recent) sets.
LEMMA UnionBound ==
  ASSUME NEW recent \in Seq(DrawSets), Len(recent) <= NoRepeatDays
  PROVE  LET all == UNION {recent[i] : i \in DOMAIN recent} IN
         IsFiniteSet(all) /\ Cardinality(all) <= NoRepeatDays * DrawCount
<1> DEFINE all == UNION {recent[i] : i \in DOMAIN recent}
           n == Len(recent)
           f == [i \in 1..n |-> CHOOSE g : g \in Surjection(1..DrawCount, recent[i])]
           places == (1..n) \X (1..DrawCount)
           place == [p \in places |-> f[p[1]][p[2]]]
<1>0. n \in Nat /\ DOMAIN recent = 1..n /\ \A i \in 1..n : recent[i] \in DrawSets
  BY LenProperties, ElementOfSeq
<1>1. DrawCount \in Nat /\ NoRepeatDays \in Nat /\ IsFiniteSet(Dailies)
  BY QuestsAssumption
<1>2. \A i \in 1..n : f[i] \in Surjection(1..DrawCount, recent[i])
  <2>1. ASSUME NEW i \in 1..n PROVE f[i] \in Surjection(1..DrawCount, recent[i])
    <3>1. IsFiniteSet(recent[i]) /\ Cardinality(recent[i]) = DrawCount
      BY <1>0, <1>1, FS_Subset DEF DrawSets
    <3>2. ExistsBijection(1..DrawCount, recent[i])
      BY <3>1, FS_CardinalityType
    <3>3. \E g : g \in Surjection(1..DrawCount, recent[i])
      BY <3>2 DEF ExistsBijection, Bijection
    <3> QED BY <3>3
  <2> QED BY <2>1
<1>3. place \in Surjection(places, all)
  <2> HIDE DEF f
  <2>1. \A i \in 1..n, k \in 1..DrawCount : f[i][k] \in recent[i]
    BY <1>2 DEF Surjection
  <2>2. \A i \in 1..n : \A t \in recent[i] : \E k \in 1..DrawCount : f[i][k] = t
    BY <1>2 DEF Surjection
  <2>3. place \in [places -> all]
    BY <1>0, <2>1
  <2>4. \A t \in all : \E p \in places : place[p] = t
    <3>1. ASSUME NEW t \in all PROVE \E p \in places : place[p] = t
      <4>1. PICK i \in 1..n : t \in recent[i]
        BY <1>0
      <4>2. PICK k \in 1..DrawCount : f[i][k] = t
        BY <2>2, <4>1
      <4>3. <<i, k>> \in places /\ place[<<i, k>>] = t
        BY <4>2
      <4> QED BY <4>3
    <3> QED BY <3>1
  <2> QED BY <2>3, <2>4 DEF Surjection
<1>4. IsFiniteSet(places) /\ Cardinality(places) = n * DrawCount
  <2>1. ASSUME NEW m \in Nat PROVE IsFiniteSet(1..m) /\ Cardinality(1..m) = m
    <3>1. IsFiniteSet(1..m) /\ Cardinality(1..m) = IF 1 > m THEN 0 ELSE m - 1 + 1
      <4>1. 1 \in Int /\ m \in Int
        OBVIOUS
      <4> QED BY <4>1, FS_Interval, Zenon
    <3>2. (IF 1 > m THEN 0 ELSE m - 1 + 1) = m
      OBVIOUS
    <3> QED BY <3>1, <3>2
  <2>2. /\ IsFiniteSet(1..n) /\ Cardinality(1..n) = n
        /\ IsFiniteSet(1..DrawCount) /\ Cardinality(1..DrawCount) = DrawCount
    BY <1>0, <1>1, <2>1, Zenon
  <2>3. IsFiniteSet((1..n) \X (1..DrawCount)) /\ Cardinality((1..n) \X (1..DrawCount)) = Cardinality(1..n) * Cardinality(1..DrawCount)
    BY <2>2, FS_Product, Zenon
  <2> QED BY <2>2, <2>3, Zenon
<1>5. n * DrawCount <= NoRepeatDays * DrawCount
  BY <1>0, <1>1
<1> HIDE DEF place, places, all
<1>6. IsFiniteSet(all) /\ Cardinality(all) <= n * DrawCount
  BY <1>3, <1>4, FS_Surjection
<1>7. Cardinality(all) \in Nat /\ n * DrawCount \in Nat /\ NoRepeatDays * DrawCount \in Nat
  BY <1>0, <1>1, <1>6, FS_CardinalityType
<1> QED BY <1>5, <1>6, <1>7 DEF all

\* With templates enough nothing is drawn that is remembered.
LEMMA DrawsAreNew ==
  ASSUME NEW d, Follow(d), Enough, NEW roll \in Draws(d)
  PROVE  \A i \in 1..Len(d.recent) : roll \cap d.recent[i] = {}
<1> DEFINE all == UNION {d.recent[i] : i \in DOMAIN d.recent}
           rest == Dailies \ all
<1>1. d.recent \in Seq(DrawSets) /\ Len(d.recent) <= NoRepeatDays
  BY DEF Follow, Remembers
<1>2. IsFiniteSet(all) /\ Cardinality(all) <= NoRepeatDays * DrawCount
  BY <1>1, UnionBound
<1>3. IsFiniteSet(Dailies) /\ DrawCount \in Nat /\ NoRepeatDays \in Nat
  BY QuestsAssumption
<1> DEFINE both == Dailies \cap all
<1>4. /\ IsFiniteSet(rest) /\ Cardinality(rest) = Cardinality(Dailies) - Cardinality(both)
      /\ Cardinality(both) <= Cardinality(all) /\ IsFiniteSet(both)
  BY <1>2, <1>3, FS_Difference, FS_Intersection
<1>5. /\ Cardinality(rest) \in Nat /\ Cardinality(Dailies) \in Nat /\ Cardinality(all) \in Nat /\ Cardinality(both) \in Nat
  BY <1>2, <1>3, <1>4, FS_CardinalityType
<1>6. (NoRepeatDays + 1) * DrawCount = NoRepeatDays * DrawCount + DrawCount /\ NoRepeatDays * DrawCount \in Nat
  BY <1>3
<1>7. ~(Cardinality(rest) < DrawCount)
  <2> HIDE DEF rest, all, both
  <2> DEFINE nd == NoRepeatDays * DrawCount
  <2>1. Cardinality(Dailies) >= nd + DrawCount /\ nd \in Nat /\ Cardinality(all) <= nd
    BY <1>2, <1>6 DEF Enough
  <2> HIDE DEF nd
  <2> QED BY <1>3, <1>4, <1>5, <2>1
<1>8. roll \subseteq rest
  BY <1>7 DEF Draws
<1> QED BY <1>1, <1>8, LenProperties
\* The list of the last draws with one more in front.
Remember(roll, recent) ==
  SubSeq(<<roll>> \o recent, 1, IF Len(recent) < NoRepeatDays THEN Len(recent) + 1 ELSE NoRepeatDays)

LEMMA Remembered ==
  ASSUME NEW recent \in Seq(DrawSets), Len(recent) <= NoRepeatDays, NEW roll \in DrawSets
  PROVE  LET next == Remember(roll, recent) IN
         /\ next \in Seq(DrawSets) /\ Len(next) <= NoRepeatDays /\ Len(next) >= 1 /\ next[1] = roll
         /\ \A i \in 1..Len(recent) : i + 1 <= NoRepeatDays => i + 1 \in 1..Len(next) /\ next[i + 1] = recent[i]
<1> DEFINE next == Remember(roll, recent)
           all == <<roll>> \o recent
           m == IF Len(recent) < NoRepeatDays THEN Len(recent) + 1 ELSE NoRepeatDays
<1>0. NoRepeatDays \in Nat \ {0} /\ Len(recent) \in Nat
  BY QuestsAssumption, LenProperties
<1>1. <<roll>> \in Seq(DrawSets) /\ Len(<<roll>>) = 1 /\ <<roll>>[1] = roll
  OBVIOUS
<1>2. all \in Seq(DrawSets) /\ Len(all) = Len(recent) + 1
  BY <1>1, ConcatProperties
<1>3. all[1] = roll /\ \A i \in 1..Len(recent) : all[i + 1] = recent[i]
  <2>1. \A i \in 1..1 + Len(recent) : all[i] = IF i <= 1 THEN <<roll>>[i] ELSE recent[i - 1]
    BY <1>1, ConcatProperties
  <2> HIDE DEF all
  <2>2. ASSUME NEW i \in 1..Len(recent) PROVE all[i + 1] = recent[i]
    <3>1. i + 1 \in 1..1 + Len(recent) /\ ~(i + 1 <= 1) /\ (i + 1) - 1 = i
      BY <1>0
    <3>2. all[i + 1] = recent[(i + 1) - 1]
      BY <2>1, <3>1
    <3> QED BY <3>1, <3>2, Zenon
  <2>3. all[1] = roll
    BY <1>0, <1>1, <2>1
  <2> QED BY <2>2, <2>3
<1>4. m \in 1..Len(all) /\ m <= NoRepeatDays /\ \A i \in 1..Len(recent) : i + 1 <= NoRepeatDays => i + 1 <= m
  BY <1>0, <1>2
<1> HIDE DEF next, all, m
<1>5. \A i \in 1..m : all[i] \in DrawSets
  BY <1>2, <1>4, ElementOfSeq
<1>6. next = SubSeq(all, 1, m)
  BY DEF next, all, m, Remember
<1>7. next \in Seq(DrawSets) /\ Len(next) = m /\ \A i \in 1..m : next[i] = all[i]
  <2>1. m \in Int /\ 1 \in Int /\ 1 <= m
    BY <1>4
  <2>2. /\ SubSeq(all, 1, m) \in Seq(DrawSets)
        /\ Len(SubSeq(all, 1, m)) = IF 1 <= m THEN m - 1 + 1 ELSE 0
        /\ \A i \in 1 .. m - 1 + 1 : SubSeq(all, 1, m)[i] = all[1 + i - 1]
    BY <1>5, <2>1, SubSeqProperties
  <2>3. m - 1 + 1 = m /\ \A i \in 1..m : 1 + i - 1 = i
    BY <2>1
  <2>4. \A i \in 1..m : SubSeq(all, 1, m)[i] = all[i]
    BY <2>2, <2>3, Zenon
  <2>5. Len(SubSeq(all, 1, m)) = m
    BY <2>1, <2>2, <2>3
  <2> QED BY <1>6, <2>2, <2>4, <2>5
<1> QED BY <1>0, <1>3, <1>4, <1>7 DEF next

LEMMA IdInjective == \A t, a, u, b : Id(t, a) = Id(u, b) => t = u /\ a = b
BY DEF Id

\* What turning the day does to the dailies.
LEMMA TurnedDays ==
  ASSUME NEW d, Sound(d), Follow(d), d.refreshed # Day(d), NEW roll \in Draws(d), NEW e, e = Turned(d, roll)
  PROVE  /\ e.refreshed = Day(d) /\ e.ticks = d.ticks /\ e.claimDay = d.claimDay /\ e.streak = d.streak
         /\ Dated(e) /\ Claims(e) = Claims(d)
         /\ \A day \in 1..Day(d) : Drawn(e, day) = IF day = Day(d) THEN roll ELSE IF day <= d.refreshed THEN Drawn(d, day) ELSE {}
         /\ e.recent = Remember(roll, d.recent)
         /\ roll \in DrawSets
<1> DEFINE gone == {Archived(q, 0) : q \in Over(d)}
           kept == [d EXCEPT !.active = @ \ Over(d), !.history = @ \cup gone]
           new == {t \in roll : ~HasQuest(kept, Id(t, Day(d)))}
           begun == {Started(d, Id(t, Day(d))) : t \in new}
<1>1. roll \in DrawSets /\ roll # {}
  <2>1. roll \subseteq Dailies /\ Cardinality(roll) = DrawCount
    BY DEF Draws
  <2> QED BY <2>1, QuestsAssumption, FS_EmptySet DEF DrawSets
<1>2. /\ kept.active = d.active \ Over(d) /\ kept.history = d.history \cup gone /\ kept.recent = d.recent
      /\ kept.ticks = d.ticks /\ kept.claimDay = d.claimDay /\ kept.streak = d.streak /\ DOMAIN kept = DocFields
  BY DEF Sound, DocFields
<1>3. Day(d) \in Nat /\ d.refreshed \in Nat /\ d.refreshed < Day(d)
  BY DEF Follow, Dated, Sound, Day
<1>4. \A q \in kept.active : ~IsDaily(q)
  BY <1>2, <1>3 DEF Follow, Dated, Over
<1>5. \A h \in kept.history : IsDaily(h) => Named(h.id) /\ h.id.at \in 1..d.refreshed /\ h.claimed \in {0, h.id.at}
  <2>1. \A q \in Over(d) : /\ q \in d.active /\ IsDaily(q)
                           /\ Archived(q, 0).id = q.id /\ Archived(q, 0).claimed = 0
    BY DEF Over, Archived
  <2>2. \A q \in Over(d) : Named(q.id) /\ q.id.at \in 1..d.refreshed
    BY <1>3, <2>1 DEF Follow, Dated
  <2> QED BY <1>2, <2>1, <2>2 DEF Follow, Dated
<1>6. new = roll
  BY <1>1, <1>3, <1>4, <1>5 DEF HasQuest, IsDaily, Id, DrawSets
<1>7. e = [kept EXCEPT !.active = @ \cup begun, !.recent = IF new = {} THEN @ ELSE
             SubSeq(<<new>> \o @, 1, IF Len(@) < NoRepeatDays THEN Len(@) + 1 ELSE NoRepeatDays), !.refreshed = Day(d)]
  BY DEF Turned
<1> HIDE DEF kept
<1>8. /\ e.active = kept.active \cup begun /\ e.history = kept.history /\ e.refreshed = Day(d) /\ e.ticks = d.ticks
      /\ e.claimDay = d.claimDay /\ e.streak = d.streak
      /\ e.recent = Remember(roll, d.recent)
  BY <1>1, <1>2, <1>6, <1>7 DEF DocFields, Remember
<1>9. \A q \in begun : \E t \in roll : q.id = Id(t, Day(d))
  BY <1>6 DEF Started
<1>10. \A t \in roll : \E q \in begun : q.id = Id(t, Day(d))
  <2>1. \A t \in roll : Started(d, Id(t, Day(d))) \in begun /\ Started(d, Id(t, Day(d))).id = Id(t, Day(d))
    BY <1>6 DEF Started
  <2> HIDE DEF begun
  <2> QED BY <2>1
<1> HIDE DEF begun, new, gone
<1>11. Dated(e)
  <2>1. \A q \in e.active : IsDaily(q) => \E t : q.id = Id(t, Day(d))
    BY <1>4, <1>8, <1>9
  <2>2. \A q \in e.active : IsDaily(q) => Named(q.id) /\ q.id.at = Day(d)
    <3>1. ASSUME NEW q \in e.active, IsDaily(q) PROVE Named(q.id) /\ q.id.at = Day(d)
      <4>1. PICK t : q.id = Id(t, Day(d))
        BY <2>1, <3>1
      <4>2. Named(Id(t, Day(d))) /\ Id(t, Day(d)).at = Day(d)
        BY DEF Named, Id
      <4> QED BY <4>1, <4>2
    <3> QED BY <3>1
  <2>3. Day(e) = Day(d) /\ Day(d) # 0
    BY <1>3, <1>8 DEF Day
  <2>4. \A h \in e.history : IsDaily(h) => Named(h.id) /\ h.id.at \in 1..e.refreshed /\ h.claimed \in {0, h.id.at}
    BY <1>3, <1>5, <1>8
  <2> QED BY <1>3, <1>8, <2>2, <2>3, <2>4 DEF Dated
<1>12. Claims(e) = Claims(d)
  <2>1. \A h \in gone : h.claimed = 0
    BY DEF gone, Archived
  <2>2. e.history = d.history \cup gone
    BY <1>2, <1>8
  <2> QED BY <2>1, <2>2 DEF Claims
<1>13. \A t \in Dailies, day \in 1..Day(d) :
         HasQuest(e, Id(t, day)) <=> IF day = Day(d) THEN t \in roll ELSE day <= d.refreshed /\ HasQuest(d, Id(t, day))
  <2>1. ASSUME NEW t \in Dailies
        PROVE  HasQuest(e, Id(t, Day(d))) <=> t \in roll
    <3>1. \A h \in e.history : h.id # Id(t, Day(d))
      BY <1>3, <1>5, <1>8 DEF IsDaily, Id
    <3>2. \A q \in kept.active : q.id # Id(t, Day(d))
      BY <1>4 DEF IsDaily, Id
    <3>3. (\E q \in begun : q.id = Id(t, Day(d))) <=> t \in roll
      <4>1. ASSUME NEW q \in begun, q.id = Id(t, Day(d)) PROVE t \in roll
        <5>1. PICK u \in roll : q.id = Id(u, Day(d))
          BY <1>9
        <5>2. Id(t, Day(d)) = Id(u, Day(d))
          BY <4>1, <5>1
        <5> QED BY <5>1, <5>2, IdInjective
      <4> QED BY <1>10, <4>1
    <3> QED BY <1>8, <3>1, <3>2, <3>3 DEF HasQuest
  <2>2. ASSUME NEW t \in Dailies, NEW day \in 1..Day(d), day # Day(d)
        PROVE  HasQuest(e, Id(t, day)) <=> day <= d.refreshed /\ HasQuest(d, Id(t, day))
    <3>1. \A q \in e.active : q.id # Id(t, day)
      <4>1. \A q \in kept.active : q.id # Id(t, day)
        BY <1>4 DEF IsDaily, Id
      <4>2. ASSUME NEW q \in begun, q.id = Id(t, day) PROVE FALSE
        <5>1. PICK u \in roll : q.id = Id(u, Day(d))
          BY <1>9
        <5>2. Id(t, day) = Id(u, Day(d))
          BY <4>2, <5>1
        <5> QED BY <2>2, <5>2, IdInjective
      <4> QED BY <1>8, <4>1, <4>2
    <3>2. HasQuest(e, Id(t, day)) <=> \E h \in kept.history : h.id = Id(t, day)
      BY <1>8, <3>1 DEF HasQuest
    <3>3. (\E h \in gone : h.id = Id(t, day)) <=> \E q \in d.active : q.id = Id(t, day)
      <4>1. \A q \in d.active : q.id = Id(t, day) => q \in Over(d)
        BY <2>2 DEF Over, IsDaily, Id
      <4>2. \A q \in Over(d) : q \in d.active /\ Archived(q, 0).id = q.id
        BY DEF Over, Archived
      <4> QED BY <4>1, <4>2 DEF gone
    <3>4. \A h \in kept.history : h.id = Id(t, day) => day <= d.refreshed
      BY <1>3, <1>5 DEF IsDaily, Id
    <3> QED BY <1>2, <3>2, <3>3, <3>4 DEF HasQuest
  <2> QED BY <2>1, <2>2
<1>14. \A day \in 1..Day(d) :
         Drawn(e, day) = IF day = Day(d) THEN roll ELSE IF day <= d.refreshed THEN Drawn(d, day) ELSE {}
  <2>1. roll \subseteq Dailies
    BY <1>1 DEF DrawSets
  <2> QED BY <1>13, <2>1 DEF Drawn
<1> QED BY <1>1, <1>8, <1>11, <1>12, <1>14

LEMMA TurnedKeepsDays ==
  ASSUME NEW d, Sound(d), Follow(d), NEW roll \in Rolls(d), NEW e, e = Turned(d, roll)
  PROVE  Follow(e) /\ e.refreshed = Day(d) /\ e.ticks = d.ticks
<1>1. CASE d.refreshed = Day(d)
  BY <1>1 DEF Turned
<1>2. CASE d.refreshed # Day(d)
  <2>1. roll \in Draws(d)
    BY <1>2 DEF Rolls
  <2>2. /\ e.refreshed = Day(d) /\ e.ticks = d.ticks /\ e.claimDay = d.claimDay /\ e.streak = d.streak
        /\ Dated(e) /\ Claims(e) = Claims(d)
        /\ \A day \in 1..Day(d) : Drawn(e, day) = IF day = Day(d) THEN roll ELSE IF day <= d.refreshed THEN Drawn(d, day) ELSE {}
        /\ e.recent = Remember(roll, d.recent)
        /\ roll \in DrawSets
    BY <1>2, <2>1, TurnedDays
  <2>3. Day(d) \in Nat /\ d.refreshed \in Nat /\ d.refreshed < Day(d) /\ NoRepeatDays \in Nat
    BY <1>2, QuestsAssumption DEF Follow, Dated, Sound, Day
  <2>4. d.recent \in Seq(DrawSets) /\ Len(d.recent) <= NoRepeatDays
    BY DEF Follow, Remembers
  <2>4a. roll \in DrawSets /\ e.recent = Remember(roll, d.recent)
    BY <2>2
  <2>5. /\ e.recent \in Seq(DrawSets) /\ Len(e.recent) <= NoRepeatDays /\ Len(e.recent) >= 1 /\ e.recent[1] = roll
        /\ \A i \in 1..Len(d.recent) : i + 1 <= NoRepeatDays => i + 1 \in 1..Len(e.recent) /\ e.recent[i + 1] = d.recent[i]
    <3> DEFINE next == Remember(roll, d.recent)
    <3>1. /\ next \in Seq(DrawSets) /\ Len(next) <= NoRepeatDays /\ Len(next) >= 1 /\ next[1] = roll
          /\ \A i \in 1..Len(d.recent) : i + 1 <= NoRepeatDays => i + 1 \in 1..Len(next) /\ next[i + 1] = d.recent[i]
      BY <2>4, <2>4a, Remembered, Zenon
    <3> HIDE DEF next
    <3>2. e.recent = next
      BY <2>4a DEF next
    <3> QED BY <3>1, <3>2
  <2>6. Full(e)
    <3>1. Cardinality(roll) = DrawCount /\ Cardinality({}) = 0
      BY <2>2, FS_EmptySet DEF DrawSets
    <3>2. \A day \in 1..d.refreshed : Cardinality(Drawn(d, day)) \in {0, DrawCount}
      BY DEF Follow, Full
    <3>3. ASSUME NEW day \in 1..e.refreshed PROVE Cardinality(Drawn(e, day)) \in {0, DrawCount}
      <4>1. Drawn(e, day) \in {roll, {}} \/ (day \in 1..d.refreshed /\ Drawn(e, day) = Drawn(d, day))
        BY <2>2, <2>3
      <4> QED BY <3>1, <3>2, <4>1
    <3> QED BY <3>3 DEF Full
  <2>7. Remembers(e)
    <3>1. ASSUME NEW day \in 1..e.refreshed, NEW t \in Drawn(e, day), day + NoRepeatDays > e.refreshed
          PROVE  \E i \in 1..Len(e.recent) : i + day <= e.refreshed + 1 /\ t \in e.recent[i]
      <4>1. CASE day = Day(d)
        <5>1. t \in e.recent[1] /\ 1 \in 1..Len(e.recent) /\ 1 + day <= e.refreshed + 1
          BY <2>2, <2>3, <2>4, <2>5, <4>1, LenProperties
        <5> QED BY <5>1
      <4>2. CASE day # Day(d)
        <5>1. day \in 1..d.refreshed /\ t \in Drawn(d, day) /\ day + NoRepeatDays > d.refreshed
          BY <2>2, <2>3, <3>1, <4>2
        <5>2. PICK i \in 1..Len(d.recent) : i + day <= d.refreshed + 1 /\ t \in d.recent[i]
          BY <5>1 DEF Follow, Remembers
        <5>3. i + 1 <= NoRepeatDays /\ (i + 1) + day <= e.refreshed + 1
          BY <2>2, <2>3, <3>1, <5>1, <5>2
        <5> QED BY <2>5, <5>2, <5>3
      <4> QED BY <4>1, <4>2
    <3> QED BY <2>5, <3>1 DEF Remembers
  <2>8. Spaced(e)
    <3>1. ASSUME Enough, NEW a \in 1..e.refreshed, NEW b \in 1..e.refreshed, a < b, NEW t \in Drawn(e, a) \cap Drawn(e, b)
          PROVE  b > a + NoRepeatDays
      <4>1. a \in 1..d.refreshed /\ t \in Drawn(d, a)
        BY <2>2, <2>3, <3>1
      <4>2. CASE b = Day(d)
        <5>1. t \in roll
          BY <2>2, <4>2
        <5>2. \A i \in 1..Len(d.recent) : t \notin d.recent[i]
          BY <2>1, <3>1, <5>1, DrawsAreNew
        <5>3. ~(a + NoRepeatDays > d.refreshed)
          BY <4>1, <5>2 DEF Follow, Remembers
        <5> QED BY <2>3, <4>1, <4>2, <5>3
      <4>3. CASE b # Day(d)
        <5>1. b \in 1..d.refreshed /\ t \in Drawn(d, b)
          BY <2>2, <2>3, <3>1, <4>3
        <5> QED BY <3>1, <4>1, <5>1 DEF Follow, Spaced
      <4> QED BY <4>2, <4>3
    <3> QED BY <3>1 DEF Spaced
  <2>9. Streaks(e)
    BY <2>2 DEF Follow, Streaks
  <2> QED BY <2>2, <2>6, <2>7, <2>8, <2>9 DEF Follow
<1> QED BY <1>1, <1>2

LEMMA RefreshedKeepsDays ==
  ASSUME NEW d, Sound(d), Follow(d), NEW roll \in Rolls(d), NEW open, NEW e, e = Refreshed(d, roll, open)
  PROVE  Sound(e) /\ Follow(e) /\ e.refreshed = Day(e)
<1> DEFINE a == Turned(d, roll)
           b == Offered(a)
<1>1. Sound(a) /\ Follow(a) /\ a.refreshed = Day(d) /\ a.ticks = d.ticks
  BY TurnedFollows, TurnedKeepsDays DEF Follows
<1> HIDE DEF a
<1>2. Sound(b) /\ Follow(b) /\ b.refreshed = a.refreshed /\ b.ticks = a.ticks
  BY <1>1, OfferedFollows, OfferedKeepsDays DEF Follows
<1> HIDE DEF b
<1>3. Sound(e) /\ Follow(e) /\ e.refreshed = b.refreshed /\ e.ticks = b.ticks
  <2>1. e = Marked(b, open)
    BY DEF Refreshed, a, b
  <2> QED BY <1>2, <2>1, MarkedFollows, MarkedKeepsDays DEF Follows
<1> QED BY <1>1, <1>2, <1>3 DEF Day
\* A claim on the day keeps the run of days.
LEMMA ClaimedStreaks ==
  ASSUME NEW d, Sound(d), Follow(d), d.refreshed = Day(d), NEW e,
         e.claimDay = Day(d), e.streak = Streak(d), Claims(e) = Claims(d) \cup {Day(d)}
  PROVE  Streaks(e)
<1> DEFINE c == d.claimDay
           k == d.streak
           day == Day(d)
           C == Claims(d)
<1>1. day \in Nat \ {0} /\ c \in Nat /\ k \in Nat /\ c \in C \cup {0} /\ (\A x \in C : x <= c)
  BY DEF Follow, Streaks, Sound, Day
<1>2. ((c + 1 - k)..c) \subseteq C /\ c - k \notin C
  BY DEF Follow, Streaks
<1>3. c <= day
  <2>1. \A x \in C : x <= day
    BY DEF Claims, Follow, Dated
  <2> QED BY <1>1, <2>1
<1>4. C \subseteq Nat
  BY DEF Claims, Follow, Dated
<1>5. e.streak = IF c = day THEN k ELSE IF c + 1 = day THEN k + 1 ELSE 1
  BY DEF Streak
<1>6. e.claimDay = day /\ Claims(e) = C \cup {day}
  OBVIOUS
<1> HIDE DEF c, k, day, C
<1>7. \A x \in Claims(e) : x <= e.claimDay
  <2>1. \A x \in C : x <= day
    BY <1>1, <1>3, <1>4
  <2>2. day <= day
    BY <1>1
  <2> QED BY <1>6, <2>1, <2>2
<1>8. CASE c = day
  <2>1. k # 0
    BY <1>1, <1>2, <1>8
  <2> QED BY <1>1, <1>2, <1>5, <1>6, <1>7, <1>8, <2>1 DEF Streaks
<1>9. CASE c # day /\ c + 1 = day
  <2>1. \A x \in (day + 1 - (k + 1))..day : x \in C \cup {day}
    BY <1>1, <1>2, <1>9
  <2>2. day - (k + 1) = c - k /\ day - (k + 1) # day
    BY <1>1, <1>9
  <2> QED BY <1>1, <1>2, <1>5, <1>6, <1>7, <1>9, <2>1, <2>2 DEF Streaks
<1>10. CASE c # day /\ c + 1 # day
  <2>1. \A x \in (day + 1 - 1)..day : x = day
    BY <1>1
  <2>2. day - 1 \notin C \cup {day}
    BY <1>1, <1>3, <1>4, <1>10
  <2> QED BY <1>1, <1>5, <1>6, <1>7, <1>10, <2>1, <2>2 DEF Streaks
<1> QED BY <1>8, <1>9, <1>10

LEMMA ClaimedKeepsDays ==
  ASSUME NEW d, Sound(d), Follow(d), d.refreshed = Day(d), NEW q \in d.active
  PROVE  Follow(Claimed(d, q))
<1> DEFINE e == Claimed(d, q)
           a == Archived(q, Day(d))
<1>1. /\ e.active = d.active \ {q} /\ e.history = d.history \cup {a}
      /\ e.ticks = d.ticks /\ e.refreshed = d.refreshed /\ e.recent = d.recent
      /\ e.streak = IF IsDaily(q) THEN Streak(d) ELSE d.streak
      /\ e.claimDay = IF IsDaily(q) THEN Day(d) ELSE d.claimDay
  BY DEF Claimed, Sound, DocFields
<1>2. a.id = q.id /\ a.claimed = Day(d)
  BY DEF Archived
<1> HIDE DEF e, a
<1>3. IsDaily(a) <=> IsDaily(q)
  BY <1>2 DEF IsDaily
<1>4. IsDaily(q) => Named(q.id) /\ q.id.at = Day(d) /\ Day(d) # 0 /\ Day(d) \in Nat
  BY DEF Follow, Dated, Sound, Day
<1>5. Dated(e)
  BY <1>1, <1>2, <1>3, <1>4 DEF Follow, Dated, Day
<1>6. \A day : Drawn(e, day) = Drawn(d, day)
  <2>1. \A id : HasQuest(e, id) <=> HasQuest(d, id)
    BY <1>1, <1>2 DEF HasQuest
  <2> QED BY <2>1 DEF Drawn
<1>7. Claims(e) = IF IsDaily(q) THEN Claims(d) \cup {Day(d)} ELSE Claims(d)
  BY <1>1, <1>2, <1>3, <1>4 DEF Claims
<1>8. Streaks(e)
  <2>1. CASE IsDaily(q)
    BY <1>1, <1>7, <2>1, ClaimedStreaks
  <2>2. CASE ~IsDaily(q)
    BY <1>1, <1>7, <2>2 DEF Follow, Streaks
  <2> QED BY <2>1, <2>2
<1>9. Full(e) /\ Remembers(e) /\ Spaced(e)
  BY <1>1, <1>6 DEF Follow, Full, Remembers, Spaced
<1> QED BY <1>5, <1>8, <1>9 DEF Follow, e

\* What a read drew may be drawn.
DrawnMay == drawn # {} => drawn \in Rolls(doc)
Days == IInv /\ DrawnMay /\ Follow(doc)

LEMMA OpenedKeepsDays ==
  ASSUME Days, NEW d \in Opened
  PROVE  Sound(d) /\ Follow(d) /\ d.refreshed = Day(d)
<1>1. PICK roll \in Rolls(doc) : d = Refreshed(doc, roll, backlog)
  BY DEF Opened, Days, DrawnMay
<1> QED BY <1>1, RefreshedKeepsDays DEF Days, IInv

LEMMA SaveKeepsDays ==
  ASSUME NEW e, Sound(e), Follow(e), NEW open, Save(e, open)
  PROVE  Follow(doc') /\ drawn' = {}
<1>1. PICK roll \in Rolls(e) : doc' = Refreshed(e, roll, open)
  BY DEF Save
<1> QED BY <1>1, RefreshedKeepsDays DEF Save

\* A command that claims nothing keeps the dailies of the document it opened.
LEMMA UnclaimedDays ==
  ASSUME Days, NEW d \in Opened, NEW e, DOMAIN e = DocFields, e.ticks \in Nat, d.ticks <= e.ticks,
         e.active = d.active, e.history = d.history, e.refreshed = d.refreshed, e.recent = d.recent,
         e.claimDay = d.claimDay, e.streak = d.streak, NEW open, Save(e, open)
  PROVE  Follow(doc') /\ drawn' = {}
<1>1. Sound(d) /\ Follow(d)
  BY OpenedKeepsDays
<1>2. Sound(e)
  BY <1>1 DEF Sound
<1>3. Follow(e)
  BY <1>1, AlikeFollows DEF Sound
<1> QED BY <1>2, <1>3, SaveKeepsDays

LEMMA DaysNext ==
  ASSUME Days, [Next]_vars
  PROVE  Days'
<1>1. IInv'
  BY Inductive DEF Days
<1>2. ASSUME doc' = doc, drawn' = drawn
      PROVE  Follow(doc') /\ DrawnMay'
  BY <1>2 DEF Days, DrawnMay
<1>3. CASE Read
  <2>1. doc' = doc /\ (drawn' = drawn \/ drawn' \in Rolls(doc))
    BY <1>3 DEF Read
  <2> QED BY <1>1, <2>1 DEF Days, DrawnMay
<1>4. \A d \in Opened : Sound(d) /\ Follow(d) /\ d.refreshed = Day(d)
  BY OpenedKeepsDays
<1>5. CASE \E c \in Counters : Work(c)
  <2>1. PICK d \in Opened : \E open, n, m : Save([d EXCEPT !.metrics = m, !.zombies = n], open)
    BY <1>5 DEF Work
  <2>2. PICK open, n, m : Save([d EXCEPT !.metrics = m, !.zombies = n], open)
    BY <2>1
  <2> DEFINE e == [d EXCEPT !.metrics = m, !.zombies = n]
  <2>3. /\ DOMAIN e = DocFields /\ e.ticks \in Nat /\ d.ticks <= e.ticks /\ e.active = d.active /\ e.history = d.history
        /\ e.refreshed = d.refreshed /\ e.recent = d.recent /\ e.claimDay = d.claimDay /\ e.streak = d.streak
    BY <1>4 DEF Sound, DocFields
  <2> HIDE DEF e
  <2>4. Follow(doc') /\ drawn' = {}
    BY <2>2, <2>3, UnclaimedDays DEF e
  <2> QED BY <1>1, <2>4 DEF Days, DrawnMay
<1>6. CASE Other
  <2>1. PICK d \in Opened : \/ Save([d EXCEPT !.zombies = d.zombies - 1], backlog)
                            \/ Save(d, backlog - 1) \/ Save(d, backlog)
    BY <1>6 DEF Other
  <2>2. DOMAIN d = DocFields /\ d.ticks \in Nat
    BY <1>4 DEF Sound
  <2> DEFINE e == [d EXCEPT !.zombies = d.zombies - 1]
  <2>3. /\ DOMAIN e = DocFields /\ e.ticks \in Nat /\ d.ticks <= e.ticks /\ e.active = d.active /\ e.history = d.history
        /\ e.refreshed = d.refreshed /\ e.recent = d.recent /\ e.claimDay = d.claimDay /\ e.streak = d.streak
    BY <2>2 DEF DocFields
  <2> HIDE DEF e
  <2>4. \E open : Save(e, open) \/ Save(d, open)
    BY <2>1 DEF e
  <2>5. Follow(doc') /\ drawn' = {}
    BY <2>2, <2>3, <2>4, UnclaimedDays
  <2> QED BY <1>1, <2>5 DEF Days, DrawnMay
<1>7. CASE EndDay
  <2>1. PICK d \in Opened : \E zombies, open : Save([d EXCEPT !.ticks = d.ticks + 1, !.zombies = zombies], open)
    BY <1>7 DEF EndDay
  <2>2. PICK zombies, open : Save([d EXCEPT !.ticks = d.ticks + 1, !.zombies = zombies], open)
    BY <2>1
  <2> DEFINE e == [d EXCEPT !.ticks = d.ticks + 1, !.zombies = zombies]
  <2>3. /\ DOMAIN e = DocFields /\ e.ticks \in Nat /\ d.ticks <= e.ticks /\ e.active = d.active /\ e.history = d.history
        /\ e.refreshed = d.refreshed /\ e.recent = d.recent /\ e.claimDay = d.claimDay /\ e.streak = d.streak
    BY <1>4 DEF Sound, DocFields
  <2> HIDE DEF e
  <2>4. Follow(doc') /\ drawn' = {}
    BY <2>2, <2>3, UnclaimedDays DEF e
  <2> QED BY <1>1, <2>4 DEF Days, DrawnMay
<1>8. CASE \E id \in Ids : Claim(id)
  <2>1. PICK d \in Opened : \E q \in d.active : Save(Claimed(d, q), backlog)
    BY <1>8 DEF Claim
  <2>2. PICK q \in d.active : Save(Claimed(d, q), backlog)
    BY <2>1
  <2>3. Sound(Claimed(d, q)) /\ Follow(Claimed(d, q))
    BY <1>4, ClaimedIsSound, ClaimedKeepsDays
  <2>4. Follow(doc') /\ drawn' = {}
    BY <2>2, <2>3, SaveKeepsDays
  <2> QED BY <1>1, <2>4 DEF Days, DrawnMay
<1>9. CASE Elsewhere \/ UNCHANGED vars
  <2>1. doc' = doc /\ drawn' = drawn
    BY <1>9 DEF Elsewhere, vars
  <2> QED BY <1>1, <1>2, <2>1 DEF Days
<1> QED BY <1>3, <1>5, <1>6, <1>7, <1>8, <1>9 DEF Next

LEMMA DaysInit ==
  ASSUME Init
  PROVE  Days
<1>1. /\ doc.ticks \in Nat /\ doc.active = {} /\ doc.history = {} /\ doc.recent = <<>> /\ doc.refreshed = 0
      /\ doc.claimDay = 0 /\ doc.streak = 0 /\ drawn = {}
  BY DEF Init
<1>2. Dated(doc) /\ Full(doc) /\ Spaced(doc)
  BY <1>1 DEF Dated, Full, Spaced, Day
<1>3. Remembers(doc)
  BY <1>1, QuestsAssumption DEF Remembers
<1>4. Claims(doc) = {}
  BY <1>1 DEF Claims
<1>5. Streaks(doc)
  BY <1>1, <1>4 DEF Streaks
<1> QED BY <1>1, <1>2, <1>3, <1>5, Initially DEF Days, DrawnMay, Follow

\* A day's dailies are as many as the templates drawn for it.
LEMMA OfDayCounts ==
  ASSUME Days, NEW day \in 1..doc.refreshed
  PROVE  Cardinality(OfDay(day)) = Cardinality(Drawn(doc, day))
<1> DEFINE name == [q \in OfDay(day) |-> q.id.template]
<1>1. \A q \in OfDay(day) : q.id = Id(q.id.template, day) /\ q.id.template \in Dailies
  BY DEF Days, Follow, Dated, OfDay, IsDaily, Named
<1>2. \A q, r \in OfDay(day) : q.id = r.id => q = r
  BY DEF Days, IInv, Sound, IdsUnique, OfDay
<1>3. name \in [OfDay(day) -> Drawn(doc, day)]
  <2>1. \A q \in OfDay(day) : q.id.template \in Drawn(doc, day)
    BY <1>1 DEF Drawn, HasQuest, OfDay
  <2> QED BY <2>1
<1>4. \A q, r \in OfDay(day) : name[q] = name[r] => q = r
  BY <1>1, <1>2
<1>5. \A t \in Drawn(doc, day) : \E q \in OfDay(day) : name[q] = t
  <2>1. ASSUME NEW t \in Drawn(doc, day) PROVE \E q \in OfDay(day) : name[q] = t
    <3>1. t \in Dailies /\ \E q \in doc.active \cup doc.history : q.id = Id(t, day)
      BY DEF Drawn, HasQuest
    <3>2. PICK q \in doc.active \cup doc.history : q.id = Id(t, day)
      BY <3>1
    <3>3. Id(t, day).template = t /\ Id(t, day).at = day
      BY DEF Id
    <3>4. q \in OfDay(day) /\ q.id.template = t
      BY <3>1, <3>2, <3>3 DEF OfDay, IsDaily
    <3> QED BY <3>4
  <2> QED BY <2>1
<1> HIDE DEF name
<1>6. name \in Bijection(OfDay(day), Drawn(doc, day))
  BY <1>3, <1>4, <1>5 DEF Bijection, Injection, IsInjective, Surjection
<1>7. IsFiniteSet(Drawn(doc, day))
  BY QuestsAssumption, FS_Subset DEF Drawn
<1>8. ExistsBijection(Drawn(doc, day), OfDay(day))
  BY <1>6, Fun_ExistsBijSymmetric DEF ExistsBijection
<1> QED BY <1>7, <1>8, FS_Bijection

(* The dailies follow the days of the board for every set of templates, size  *)
(* of draw and number of days without repeats: each day used has its draw, on *)
(* the board that day and in the history after; a claim is of its own day;    *)
(* the streak is the run of claimed days; and with templates enough none      *)
(* comes back too early (quests_01.go:189-301, 360-417).                      *)
THEOREM DailiesFollow == Spec => []DailiesFollowTheDays
<1>1. Spec => []Days
  BY DaysInit, DaysNext, PTL DEF Spec
<1>2. ASSUME Days PROVE DailiesFollowTheDays
  <2>1. (\A q \in doc.active : IsDaily(q) => q.id.at = doc.refreshed)
    BY <1>2 DEF Days, Follow, Dated
  <2>2. \A h \in doc.history : IsDaily(h) /\ h.claimed # 0 => h.claimed = h.id.at
    BY <1>2 DEF Days, Follow, Dated
  <2>3. \A day \in 1..doc.refreshed : Cardinality(OfDay(day)) \in {0, DrawCount}
    BY <1>2, OfDayCounts DEF Days, Follow, Full
  <2>4. DailyClaims = Claims(doc)
    BY DEF DailyClaims, Claims
  <2>5. /\ doc.claimDay \in DailyClaims \cup {0} /\ \A day \in DailyClaims : day <= doc.claimDay
        /\ ((doc.claimDay + 1 - doc.streak)..doc.claimDay) \subseteq DailyClaims
        /\ doc.claimDay - doc.streak \notin DailyClaims
    BY <1>2, <2>4 DEF Days, Follow, Streaks
  <2>6. ASSUME Enough, NEW q \in {e.id : e \in {e \in doc.active \cup doc.history : IsDaily(e)}},
               NEW r \in {e.id : e \in {e \in doc.active \cup doc.history : IsDaily(e)}},
               q # r, q.template = r.template
        PROVE  q.at > r.at + NoRepeatDays \/ r.at > q.at + NoRepeatDays
    <3>1. \A id \in {e.id : e \in {e \in doc.active \cup doc.history : IsDaily(e)}} :
            Named(id) /\ id.at \in 1..doc.refreshed /\ id.template \in Drawn(doc, id.at)
      BY <1>2 DEF Days, Follow, Dated, Drawn, HasQuest, IsDaily, Named
    <3>2. q.at # r.at
      BY <2>6, <3>1 DEF Named
    <3>3. q.at \in Nat /\ r.at \in Nat /\ doc.refreshed \in Nat
      BY <1>2, <3>1 DEF Days, Follow, Dated
    <3>4. \A a, b \in 1..doc.refreshed : a < b => \A t \in Drawn(doc, a) \cap Drawn(doc, b) : b > a + NoRepeatDays
      BY <1>2, <2>6 DEF Days, Follow, Spaced
    <3> QED BY <2>6, <3>1, <3>2, <3>3, <3>4
  <2> QED BY <2>1, <2>2, <2>3, <2>5, <2>6 DEF DailiesFollowTheDays, Enough
<1> QED BY <1>1, <1>2, PTL

-----------------------------------------------------------------------------
(* The automatic gathering of a tab. *)

\* Work that goes on for one more tick completes at most one more cycle.
LEMMA DivGrows ==
  ASSUME NEW d \in Nat \ {0}, NEW a \in Nat
  PROVE  /\ a \div d \in Nat /\ a \div d <= a
         /\ (a + 1) \div d = a \div d \/ ((a + 1) % d = 0 /\ (a + 1) \div d = a \div d + 1)
<1>1. a \div d \in Nat
  OBVIOUS
<1>2. a \div d <= a
  OBVIOUS
<1>3. (a \div d) * d <= a /\ a < (a \div d + 1) * d
  OBVIOUS
<1>4. \A q \in Nat : (q * d) \div d = q /\ (q * d) % d = 0
  OBVIOUS
<1>5. \A q, b \in Nat : q * d <= b /\ b < (q + 1) * d => q = b \div d
  OBVIOUS
<1>6. CASE a + 1 = (a \div d + 1) * d
  BY <1>1, <1>2, <1>4, <1>6
<1>7. CASE a + 1 # (a \div d + 1) * d
  <2>1. PICK q \in Nat : q = a \div d
    BY <1>1
  <2>2. (q + 1) * d \in Nat /\ q * d \in Nat
    OBVIOUS
  <2>3. q * d <= a + 1 /\ a + 1 < (q + 1) * d
    BY <1>3, <1>7, <2>1, <2>2
  <2> QED BY <1>1, <1>2, <1>5, <2>1, <2>3
<1> QED BY <1>6, <1>7
\* A tab shows what the server has been, and pays out of what it has counted.
MiningTyped ==
  /\ server \in Document /\ seen \in Document /\ seen.ver <= server.ver /\ poll \in Document \cup {None}
  /\ poll # None => poll.ver <= server.ver
  /\ sessions \in [Stacks -> Session \cup {None}] /\ completed \in [Stacks -> 0..MaxAge] /\ pending \subseteq Stacks
  /\ busy \in BOOLEAN /\ doubled \in BOOLEAN /\ credit \in [Stacks -> 0..MaxAge + 1] /\ failures \in Nat
GatherCallOK(c) ==
  /\ c.ver <= server.ver
  /\ c.at \in {"refreshed", "reloaded"} => c.doc \in Document /\ c.doc.ver <= server.ver
GatherCallsTyped ==
  /\ calls \in [Slots -> GatherCall \cup {None}]
  /\ \A j \in Slots : calls[j] # None => GatherCallOK(calls[j])

\* The cycles the session of a stack has completed.
Cycles(s) == IF sessions[s] = None THEN 0 ELSE sessions[s].age \div sessions[s].dur
\* A gather that was applied, and has not been answered for good.
GatherApplied(c) == c.at \in {"done", "refresh", "refreshed"}
\* With no answer lost and no stack gathered twice at once: a stack has worked
\* more cycles than it was paid, and a call under way pays the next of them.
OneGatherEach == \A j, k \in Slots : calls[j] # None /\ calls[k] # None /\ calls[j].stack = calls[k].stack => j = k
StackEarned(s) ==
  credit[s] > 0 /\ ((\E j \in Slots : calls[j] # None /\ calls[j].stack = s /\ GatherApplied(calls[j])) \/ Cycles(s) < credit[s] + completed[s])
GatherEarned(j) ==
  /\ completed[calls[j].stack] < calls[j].next
  /\ calls[j].at = "sent" => credit[calls[j].stack] > 1
  /\ GatherApplied(calls[j]) => Cycles(calls[j].stack) < credit[calls[j].stack] + calls[j].next
AllEarned ==
  failures = 0 /\ ~doubled =>
    OneGatherEach /\ (\A s \in Stacks : StackEarned(s)) /\ \A j \in Slots : calls[j] # None => GatherEarned(j)
MiningInv == MiningTyped /\ GatherCallsTyped /\ AllEarned

LEMMA CyclesTyped ==
  ASSUME MiningTyped, NEW s \in Stacks
  PROVE  /\ Cycles(s) \in 0..MaxAge
         /\ sessions[s] # None => sessions[s] \in Session /\ Cycles(s) = sessions[s].age \div sessions[s].dur
<1>1. CASE sessions[s] = None
  BY <1>1, MiningAssumption DEF Cycles
<1>2. CASE sessions[s] # None
  <2>1. sessions[s] \in Session
    BY <1>2 DEF MiningTyped
  <2>2. sessions[s].dur \in Nat \ {0} /\ sessions[s].age \in Nat /\ sessions[s].age <= MaxAge
    BY <2>1, MiningAssumption DEF Session
  <2>3. sessions[s].age \div sessions[s].dur \in Nat /\ sessions[s].age \div sessions[s].dur <= sessions[s].age
    BY <2>2, DivGrows
  <2> QED BY <1>2, <2>1, <2>2, <2>3, MiningAssumption DEF Cycles
<1> QED BY <1>1, <1>2

\* A document shown leaves a session as it is, ends it or starts it anew.
LEMMA SessionTyped ==
  ASSUME MiningTyped, NEW board \in Document, NEW s \in Stacks
  PROVE  /\ SessionOf(board, s) \in Session \cup {None}
         /\ SessionOf(board, s) = None \/ SessionOf(board, s) = sessions[s] \/ SessionOf(board, s).age = 0
<1>1. CASE ~Workable(board, s)
  BY <1>1 DEF SessionOf
<1>2. CASE Workable(board, s)
  <2>1. miningDurationMsForStack(board, s) \in 1..MaxAge
    <3>1. board.charges[s] \in Seq(1..MaxAge) /\ board.charges[s] # <<>>
      BY <1>2 DEF Workable, Document
    <3>2. PICK q \in Seq(1..MaxAge) : q = board.charges[s]
      BY <3>1
    <3> QED BY <3>1, <3>2, HeadTailProperties DEF miningDurationMsForStack
  <2>2. PICK d \in 1..MaxAge : d = miningDurationMsForStack(board, s)
    BY <2>1
  <2>3. SessionOf(board, s) = IF sessions[s] # None /\ sessions[s].dur = d THEN sessions[s] ELSE [dur |-> d, age |-> 0]
    BY <1>2, <2>2 DEF SessionOf
  <2>4. [dur |-> d, age |-> 0] \in Session
    BY MiningAssumption DEF Session
  <2> QED BY <2>3, <2>4 DEF MiningTyped
<1> QED BY <1>1, <1>2

LEMMA NewCycles ==
  ASSUME MiningTyped, NEW board \in Document, sessions' = [s \in Stacks |-> SessionOf(board, s)], NEW s \in Stacks
  PROVE  /\ Cycles(s)' = 0 \/ (Cycles(s)' = Cycles(s) /\ sessions'[s] = sessions[s] /\ sessions[s] # None)
<1>1. sessions'[s] = SessionOf(board, s)
  OBVIOUS
<1>2. CASE SessionOf(board, s) = None
  BY <1>1, <1>2 DEF Cycles
<1>3. CASE SessionOf(board, s) # None /\ SessionOf(board, s) = sessions[s]
  BY <1>1, <1>3 DEF Cycles
<1>4. CASE SessionOf(board, s) # None /\ SessionOf(board, s).age = 0
  <2>1. SessionOf(board, s) \in Session
    BY <1>4, SessionTyped
  <2>2. SessionOf(board, s).dur \in Nat \ {0}
    BY <2>1, MiningAssumption DEF Session
  <2>3. 0 \div SessionOf(board, s).dur = 0
    BY <2>2
  <2> QED BY <1>1, <1>4, <2>3 DEF Cycles
<1> QED BY <1>2, <1>3, <1>4, SessionTyped

\* What Show does when no call has ended that counts, and when one has.
ShowFits(board, ended, advance, E) ==
  /\ MiningTyped /\ board.ver <= server.ver
  /\ \A s \in Stacks : s \in E <=> \E c \in ended : c.stack = s
  /\ ended # {} => (CHOOSE c \in ended : TRUE).next \in 1..MaxAge
ShowDoes(ended, advance, E) ==
  /\ seen' \in Document /\ seen'.ver <= server.ver /\ sessions' \in [Stacks -> Session \cup {None}]
  /\ completed' \in [Stacks -> 0..MaxAge] /\ pending' \subseteq Stacks
  /\ \A s \in Stacks \ E : \/ Cycles(s)' = 0 /\ completed'[s] <= completed[s]
                           \/ Cycles(s)' = Cycles(s) /\ completed'[s] = completed[s]
  /\ ~advance => \A s \in E : \/ Cycles(s)' = 0 \/ (Cycles(s)' = Cycles(s) /\ completed'[s] = completed[s])
  /\ advance => \A s \in E : (Cycles(s)' = 0 \/ Cycles(s)' = Cycles(s)) /\ completed'[s] = (CHOOSE c \in ended : TRUE).next
LEMMA Shows ==
  ASSUME NEW board \in Document, NEW ended, NEW advance \in BOOLEAN, NEW E \in SUBSET Stacks,
         ShowFits(board, ended, advance, E), Show(board, ended, advance)
  PROVE  ShowDoes(ended, advance, E)
<1> USE DEF ShowFits
<1>1. seen' = board /\ sessions' = [s \in Stacks |-> SessionOf(board, s)]
  BY DEF Show
<1>2. sessions' \in [Stacks -> Session \cup {None}]
  BY <1>1, SessionTyped
<1>3. pending' \subseteq Stacks
  BY DEF Show, Active
<1>4. PICK kept : kept = [s \in Stacks |-> IF SessionOf(board, s) # None THEN completed[s] ELSE 0]
  OBVIOUS
<1>5. completed' = IF advance THEN [s \in Stacks |-> IF \E c \in ended : c.stack = s THEN (CHOOSE c \in ended : TRUE).next ELSE kept[s]] ELSE kept
  BY <1>4 DEF Show, Active, PrunedCycles
<1>6. kept \in [Stacks -> 0..MaxAge]
  BY <1>4, MiningAssumption DEF MiningTyped
<1>7. \A s \in Stacks : kept[s] = completed[s] \/ (SessionOf(board, s) = None /\ kept[s] = 0)
  BY <1>4
<1>8. \A s \in Stacks : completed'[s] = IF advance /\ s \in E THEN (CHOOSE c \in ended : TRUE).next ELSE kept[s]
  BY <1>5, <1>6
<1>9. completed' \in [Stacks -> 0..MaxAge]
  <2>1. CASE advance
    BY <1>5, <1>6, <2>1, MiningAssumption
  <2>2. CASE ~advance
    BY <1>5, <1>6, <2>2
  <2> QED BY <2>1, <2>2
<1>10. ASSUME NEW s \in Stacks
       PROVE  Cycles(s)' = 0 \/ (Cycles(s)' = Cycles(s) /\ kept[s] = completed[s])
  BY <1>1, <1>7, NewCycles
<1>11. \A s \in Stacks : kept[s] <= completed[s]
  BY <1>7 DEF MiningTyped
<1>12. \A s \in Stacks \ E : \/ Cycles(s)' = 0 /\ completed'[s] <= completed[s]
                             \/ Cycles(s)' = Cycles(s) /\ completed'[s] = completed[s]
  BY <1>8, <1>10, <1>11
<1>13. ~advance => \A s \in E : \/ Cycles(s)' = 0 \/ (Cycles(s)' = Cycles(s) /\ completed'[s] = completed[s])
  BY <1>8, <1>10
<1>14. advance => \A s \in E : (Cycles(s)' = 0 \/ Cycles(s)' = Cycles(s)) /\ completed'[s] = (CHOOSE c \in ended : TRUE).next
  BY <1>8, <1>10
<1> QED BY <1>1, <1>2, <1>3, <1>9, <1>12, <1>13, <1>14 DEF ShowDoes

-----------------------------------------------------------------------------
(* What a step does to the cycles earned *)

LEMMA MiningStarts ==
  ASSUME MiningInit
  PROVE  MiningInv
<1>1. server \in Document /\ server.ver = 0
  BY MiningAssumption DEF MiningInit, Document
<1>2. ASSUME NEW s \in Stacks
      PROVE  sessions[s] \in Session \cup {None} /\ Cycles(s) = 0
  <2>1. CASE First[s] = <<>>
    BY <2>1 DEF MiningInit, Cycles
  <2>2. CASE First[s] # <<>>
    <3>1. PICK q \in Seq(1..MaxAge) : q = First[s]
      BY MiningAssumption
    <3>3. PICK d \in 1..MaxAge : d = Head(First[s])
      BY <2>2, <3>1, HeadTailProperties
    <3>4. sessions[s] = [dur |-> d, age |-> 0]
      BY <2>2, <3>3 DEF MiningInit
    <3>5. d \in Nat \ {0} /\ 0 \div d = 0
      BY MiningAssumption
    <3>6. [dur |-> d, age |-> 0] \in Session
      BY MiningAssumption DEF Session
    <3> QED BY <3>4, <3>5, <3>6 DEF Cycles
  <2> QED BY <2>1, <2>2
<1>3. sessions = [s \in Stacks |-> sessions[s]]
  BY DEF MiningInit
<1>4. sessions \in [Stacks -> Session \cup {None}]
  BY <1>2, <1>3
<1>9. \A s \in Stacks : credit[s] = 1 /\ completed[s] = 0
  BY DEF MiningInit
<1>5. MiningTyped
  <2>1. credit \in [Stacks -> 0..MaxAge + 1] /\ completed \in [Stacks -> 0..MaxAge]
    BY MiningAssumption DEF MiningInit
  <2>2. seen \in Document /\ seen.ver <= server.ver
    BY <1>1 DEF MiningInit
  <2> QED BY <1>1, <1>4, <2>1, <2>2 DEF MiningInit, MiningTyped
<1>6. \A j \in Slots : calls[j] = None
  BY DEF MiningInit
<1>7. GatherCallsTyped
  BY <1>6 DEF MiningInit, GatherCallsTyped
<1>8. AllEarned
  BY <1>2, <1>6, <1>9 DEF AllEarned, OneGatherEach, StackEarned
<1> QED BY <1>5, <1>7, <1>8 DEF MiningInv

\* A call goes on, and what has been applied stays so.
LEMMA GatherMoves ==
  ASSUME MiningInv, NEW j \in Slots, calls[j] # None, NEW c \in GatherCall, calls' = [calls EXCEPT ![j] = c],
         c.stack = calls[j].stack, c.next = calls[j].next, c.at # "sent", GatherApplied(c) <=> GatherApplied(calls[j]),
         UNCHANGED <<sessions, completed, credit, doubled, failures>>
  PROVE  AllEarned'
<1> SUFFICES ASSUME failures = 0, ~doubled
             PROVE  OneGatherEach' /\ (\A s \in Stacks : StackEarned(s)') /\ \A k \in Slots : calls'[k] # None => GatherEarned(k)'
  BY DEF AllEarned
<1>1. calls'[j] = c /\ c # None /\ \A k \in Slots : k # j => calls'[k] = calls[k]
  BY MiningAssumption DEF MiningInv, GatherCallsTyped
<1>2. \A s \in Stacks : Cycles(s)' = Cycles(s)
  BY DEF Cycles
<1>3. OneGatherEach'
  BY <1>1 DEF MiningInv, AllEarned, OneGatherEach
<1>4. ASSUME NEW s \in Stacks
      PROVE  StackEarned(s)'
  BY <1>1, <1>2 DEF MiningInv, AllEarned, StackEarned
<1>5. ASSUME NEW k \in Slots, calls'[k] # None
      PROVE  GatherEarned(k)'
  <2>1. calls[k] # None /\ calls[k].stack = calls'[k].stack /\ calls[k].stack \in Stacks
    BY <1>1, <1>5 DEF MiningInv, GatherCallsTyped, GatherCall
  <2>2. GatherEarned(k)
    BY <2>1 DEF MiningInv, AllEarned
  <2>3. calls'[k].next = calls[k].next /\ (GatherApplied(calls'[k]) <=> GatherApplied(calls[k])) /\ (calls'[k].at = "sent" => calls[k].at = "sent")
    BY <1>1
  <2> QED BY <1>2, <2>1, <2>2, <2>3 DEF GatherEarned
<1> QED BY <1>3, <1>4, <1>5

\* Calls for the stacks E end, and sessions and counts of others may be given up.
LEMMA GathersEnd ==
  ASSUME MiningInv, failures = 0, ~doubled, UNCHANGED credit, NEW E \in SUBSET Stacks, MiningTyped',
         \A k \in Slots : calls'[k] = calls[k] \/ calls'[k] = None,
         \A k \in Slots : calls[k] # None => (calls'[k] = None <=> calls[k].stack \in E),
         \A s \in Stacks \ E : (Cycles(s)' = 0 /\ completed'[s] <= completed[s]) \/ (Cycles(s)' = Cycles(s) /\ completed'[s] = completed[s]),
         \A s \in E : Cycles(s)' < credit[s] + completed'[s]
  PROVE  AllEarned'
<1>1. OneGatherEach /\ (\A s \in Stacks : StackEarned(s)) /\ \A k \in Slots : calls[k] # None => GatherEarned(k)
  BY DEF MiningInv, AllEarned
<1>2. OneGatherEach'
  BY <1>1 DEF OneGatherEach
<1>3. \A s \in Stacks : completed[s] \in Nat /\ completed'[s] \in Nat /\ credit[s] \in Nat /\ credit[s] > 0 /\ credit'[s] = credit[s] /\ Cycles(s) \in Nat
  BY <1>1, CyclesTyped, MiningAssumption DEF MiningInv, MiningTyped, StackEarned
<1>4. ASSUME NEW s \in Stacks
      PROVE  StackEarned(s)'
  <2>1. CASE s \in E
    BY <2>1, <1>3 DEF StackEarned
  <2>2. CASE s \notin E /\ Cycles(s)' = 0
    BY <2>2, <1>3 DEF StackEarned
  <2>3. CASE s \notin E /\ Cycles(s)' = Cycles(s) /\ completed'[s] = completed[s]
    <3>1. CASE Cycles(s) < credit[s] + completed[s]
      BY <2>3, <3>1, <1>3 DEF StackEarned
    <3>2. CASE \E k \in Slots : calls[k] # None /\ calls[k].stack = s /\ GatherApplied(calls[k])
      <4>1. PICK k \in Slots : calls[k] # None /\ calls[k].stack = s /\ GatherApplied(calls[k])
        BY <3>2
      <4>2. calls'[k] = calls[k]
        BY <4>1, <2>3
      <4> QED BY <4>1, <4>2, <1>3 DEF StackEarned
    <3> QED BY <1>1, <3>1, <3>2 DEF StackEarned
  <2> QED BY <2>1, <2>2, <2>3
<1>5. ASSUME NEW k \in Slots, calls'[k] # None
      PROVE  GatherEarned(k)'
  <2>1. calls'[k] = calls[k] /\ calls[k] # None /\ calls[k].stack \in Stacks \ E /\ calls[k].next \in Nat
    BY <1>5, MiningAssumption DEF MiningInv, GatherCallsTyped, GatherCall
  <2>2. GatherEarned(k)
    BY <1>1, <2>1
  <2>3. PICK s \in Stacks \ E : s = calls[k].stack
    BY <2>1
  <2>4. completed'[s] <= completed[s] /\ (Cycles(s)' = 0 \/ Cycles(s)' = Cycles(s))
    BY <1>3
  <2>5. PICK n \in Nat : n = calls[k].next
    BY <2>1
  <2>6. completed'[s] < n
    BY <2>2, <2>3, <2>4, <2>5, <1>3 DEF GatherEarned
  <2>7. calls[k].at = "sent" => credit'[s] > 1
    BY <2>2, <2>3, <1>3 DEF GatherEarned
  <2>8. GatherApplied(calls[k]) => Cycles(s)' < credit'[s] + n
    BY <2>2, <2>3, <2>4, <2>5, <1>3 DEF GatherEarned
  <2> QED BY <2>1, <2>3, <2>5, <2>6, <2>7, <2>8 DEF GatherEarned
<1> QED BY <1>2, <1>4, <1>5 DEF AllEarned

-----------------------------------------------------------------------------
(* Each step keeps the invariant. *)

LEMMA CallPut ==
  ASSUME MiningInv, NEW j \in Slots, NEW c \in GatherCall \cup {None}, calls' = [calls EXCEPT ![j] = c],
         server' \in Document, server.ver <= server'.ver, c # None => GatherCallOK(c)'
  PROVE  GatherCallsTyped'
<1>1. calls' \in [Slots -> GatherCall \cup {None}] /\ calls'[j] = c /\ \A k \in Slots : k # j => calls'[k] = calls[k]
  BY DEF MiningInv, GatherCallsTyped
<1>2. ASSUME NEW k \in Slots, k # j, calls'[k] # None
      PROVE  GatherCallOK(calls[k])'
  <2>1. calls'[k] = calls[k] /\ calls[k] # None
    BY <1>1, <1>2
  <2>2. calls[k] \in GatherCall /\ GatherCallOK(calls[k])
    BY <2>1 DEF MiningInv, GatherCallsTyped
  <2>3. server.ver \in Nat /\ server'.ver \in Nat /\ calls[k].ver \in Nat
    BY <2>2 DEF MiningInv, MiningTyped, Document, GatherCall
  <2>4. calls[k].at \in {"refreshed", "reloaded"} => calls[k].doc.ver \in Nat
    BY <2>2 DEF GatherCallOK, Document
  <2> QED BY <2>1, <2>2, <2>3, <2>4 DEF GatherCallOK
<1>3. calls'[j] # None => GatherCallOK(calls[j])'
  BY <1>1 DEF GatherCallOK
<1> QED BY <1>1, <1>2, <1>3 DEF GatherCallsTyped

LEMMA TickKeeps ==
  ASSUME MiningInv, Tick
  PROVE  MiningInv'
<1>1. \A s \in Stacks : sessions'[s] = IF sessions[s] = None \/ sessions[s].age = MaxAge THEN sessions[s] ELSE [sessions[s] EXCEPT !.age = @ + 1]
  BY DEF Tick
<1>2. \A s \in Stacks : credit'[s] = IF sessions'[s] # sessions[s] /\ sessions'[s].age % sessions'[s].dur = 0 /\ credit[s] <= MaxAge
                                     THEN credit[s] + 1 ELSE credit[s]
  BY DEF Tick
<1>3. ASSUME NEW s \in Stacks, sessions[s] # None, sessions[s].age # MaxAge
      PROVE  /\ sessions'[s] \in Session /\ sessions'[s].dur = sessions[s].dur /\ sessions'[s].age = sessions[s].age + 1
             /\ sessions'[s] # None /\ sessions'[s] # sessions[s] /\ sessions[s] \in Session
  <2>1. sessions[s] \in Session
    BY <1>3 DEF MiningInv, MiningTyped
  <2>2. sessions'[s] = [sessions[s] EXCEPT !.age = sessions[s].age + 1]
    BY <1>1, <1>3
  <2>3. sessions[s].age + 1 \in 0..MaxAge /\ sessions[s].age + 1 # sessions[s].age
    BY <1>3, <2>1, MiningAssumption DEF Session
  <2> QED BY <2>1, <2>2, <2>3, MiningAssumption DEF Session
<1>4. ASSUME NEW s \in Stacks
      PROVE  /\ Cycles(s)' \in 0..MaxAge /\ credit'[s] \in 0..MaxAge + 1 /\ credit[s] <= credit'[s]
             /\ Cycles(s)' = Cycles(s) \/ (Cycles(s)' = Cycles(s) + 1 /\ (credit'[s] = credit[s] + 1 \/ credit'[s] > MaxAge))
  <2>1. credit[s] \in 0..MaxAge + 1 /\ Cycles(s) \in 0..MaxAge
    BY CyclesTyped DEF MiningInv, MiningTyped
  <2>2. CASE sessions[s] = None \/ sessions[s].age = MaxAge
    <3>1. sessions'[s] = sessions[s]
      BY <1>1, <2>2
    <3> QED BY <1>2, <2>1, <3>1 DEF Cycles
  <2>3. CASE sessions[s] # None /\ sessions[s].age # MaxAge
    <3>1. PICK d \in Nat \ {0}, a \in Nat : d = sessions[s].dur /\ a = sessions[s].age /\ a + 1 <= MaxAge
      BY <1>3, <2>3, MiningAssumption DEF Session
    <3>2. Cycles(s) = a \div d /\ Cycles(s)' = (a + 1) \div d
      BY <1>3, <2>3, <3>1 DEF Cycles
    <3>6. sessions'[s].age = a + 1 /\ sessions'[s].dur = d /\ sessions'[s] # sessions[s]
      BY <1>3, <2>3, <3>1
    <3>3. (a + 1) % d = 0 /\ credit[s] <= MaxAge => credit'[s] = credit[s] + 1
      BY <1>2, <3>6
    <3>8. ~((a + 1) % d = 0 /\ credit[s] <= MaxAge) => credit'[s] = credit[s]
      BY <1>2, <3>6
    <3>4. (a + 1) \div d \in Nat /\ (a + 1) \div d <= a + 1
      <4>1. PICK b \in Nat : b = a + 1
        BY <3>1
      <4>2. b \div d \in Nat /\ b \div d <= b
        BY <3>1, DivGrows
      <4> QED BY <4>1, <4>2
    <3>5. (a + 1) \div d = a \div d \/ ((a + 1) % d = 0 /\ (a + 1) \div d = a \div d + 1)
      BY <3>1, DivGrows
    <3>10. PICK x, y, u, v, r, q, z : x = Cycles(s) /\ y = Cycles(s)' /\ u = credit[s] /\ v = credit'[s] /\ r = (a + 1) % d /\ q = a \div d /\ z = (a + 1) \div d
      OBVIOUS
    <3>11. x \in 0..MaxAge /\ u \in 0..MaxAge + 1 /\ y \in Nat /\ y <= a + 1
      BY <2>1, <3>2, <3>4, <3>10
    <3>16. x = q /\ y = z /\ (z = q \/ (r = 0 /\ z = q + 1))
      BY <3>2, <3>5, <3>10
    <3>17. (r = 0 /\ u <= MaxAge => v = u + 1) /\ (~(r = 0 /\ u <= MaxAge) => v = u)
      BY <3>3, <3>8, <3>10
    <3>12. y = x \/ (y = x + 1 /\ (v = u + 1 \/ (v = u /\ u > MaxAge)))
      BY <3>11, <3>16, <3>17, MiningAssumption
    <3>13. v = u \/ (v = u + 1 /\ u <= MaxAge)
      BY <3>17
    <3>14. y \in 0..MaxAge /\ v \in 0..MaxAge + 1 /\ u <= v /\ (y = x \/ (y = x + 1 /\ (v = u + 1 \/ v > MaxAge)))
      BY <3>1, <3>11, <3>12, <3>13, MiningAssumption
    <3> QED BY <3>10, <3>14
  <2> QED BY <2>2, <2>3
<1>5. MiningTyped'
  <2>1. sessions' \in [Stacks -> Session \cup {None}]
    <3>1. sessions' = [s \in Stacks |-> sessions'[s]]
      BY DEF Tick
    <3>2. \A s \in Stacks : sessions'[s] \in Session \cup {None}
      BY <1>1, <1>3 DEF MiningInv, MiningTyped
    <3> QED BY <3>1, <3>2
  <2>2. credit' \in [Stacks -> 0..MaxAge + 1]
    <3>1. credit' = [s \in Stacks |-> credit'[s]]
      BY DEF Tick
    <3> QED BY <3>1, <1>4
  <2> QED BY <2>1, <2>2 DEF Tick, History, MiningInv, MiningTyped
<1>6. GatherCallsTyped'
  BY DEF Tick, MiningInv, GatherCallsTyped, GatherCallOK
<1>7. AllEarned'
  <2> SUFFICES ASSUME failures = 0, ~doubled
               PROVE  OneGatherEach' /\ (\A s \in Stacks : StackEarned(s)') /\ \A k \in Slots : calls'[k] # None => GatherEarned(k)'
    BY DEF AllEarned, Tick, History
  <2>1. OneGatherEach /\ (\A s \in Stacks : StackEarned(s)) /\ \A k \in Slots : calls[k] # None => GatherEarned(k)
    BY DEF MiningInv, AllEarned
  <2>2. calls' = calls /\ completed' = completed
    BY DEF Tick
  <2>3. \A s \in Stacks : completed[s] \in Nat /\ credit[s] \in Nat /\ Cycles(s) \in Nat /\ Cycles(s)' \in Nat /\ credit'[s] \in Nat
    BY <1>4, CyclesTyped, MiningAssumption DEF MiningInv, MiningTyped
  <2>4. ASSUME NEW s \in Stacks
        PROVE  StackEarned(s)'
    <3>1. StackEarned(s) /\ completed[s] \in Nat /\ credit[s] \in Nat /\ Cycles(s) \in Nat
      BY <2>1, <2>3
    <3>2. credit'[s] > 0
      BY <1>4, <2>3, <3>1 DEF StackEarned
    <3>3. CASE Cycles(s) < credit[s] + completed[s]
      <4>0. PICK x, y, u, v, w : x = Cycles(s) /\ y = Cycles(s)' /\ u = credit[s] /\ v = credit'[s] /\ w = completed[s]
        OBVIOUS
      <4>2. x \in Nat /\ y \in 0..MaxAge /\ u \in Nat /\ v \in Nat /\ w \in Nat /\ u <= v /\ x < u + w /\ (y = x \/ (y = x + 1 /\ (v = u + 1 \/ v > MaxAge)))
        BY <1>4, <2>3, <3>1, <3>3, <4>0
      <4>3. y < v + w
        BY <4>2, MiningAssumption
      <4>1. Cycles(s)' < credit'[s] + completed[s]
        BY <4>0, <4>3
      <4> QED BY <2>2, <3>2, <4>1 DEF StackEarned
    <3>4. CASE \E j \in Slots : calls[j] # None /\ calls[j].stack = s /\ GatherApplied(calls[j])
      BY <2>2, <3>2, <3>4 DEF StackEarned
    <3> QED BY <3>1, <3>3, <3>4 DEF StackEarned
  <2>5. ASSUME NEW k \in Slots, calls'[k] # None
        PROVE  GatherEarned(k)'
    <3>1. GatherEarned(k) /\ calls[k].stack \in Stacks /\ calls[k].next \in 1..MaxAge
      BY <2>1, <2>2, <2>5 DEF MiningInv, GatherCallsTyped, GatherCall
    <3>2. PICK s \in Stacks : s = calls[k].stack
      BY <3>1
    <3>3. PICK n \in 1..MaxAge : n = calls[k].next
      BY <3>1
    <3>4. calls[k].at = "sent" => credit'[s] > 1
      BY <1>4, <2>3, <3>1, <3>2 DEF GatherEarned
    <3>6. GatherApplied(calls[k]) => Cycles(s) < credit[s] + n
      BY <3>1, <3>2, <3>3 DEF GatherEarned
    <3>5. GatherApplied(calls[k]) => Cycles(s)' < credit'[s] + n
      <4> SUFFICES ASSUME GatherApplied(calls[k])
                   PROVE  Cycles(s)' < credit'[s] + n
        OBVIOUS
      <4>0. PICK x, y, u, v, w : x = Cycles(s) /\ y = Cycles(s)' /\ u = credit[s] /\ v = credit'[s] /\ w = n
        OBVIOUS
      <4>2. x \in Nat /\ y \in 0..MaxAge /\ u \in Nat /\ v \in Nat /\ w \in Nat /\ u <= v /\ x < u + w /\ (y = x \/ (y = x + 1 /\ (v = u + 1 \/ v > MaxAge)))
        BY <1>4, <2>3, <3>6, <4>0
      <4>3. y < v + w
        BY <4>2, MiningAssumption
      <4> QED BY <4>0, <4>3
    <3> QED BY <2>2, <3>1, <3>2, <3>3, <3>4, <3>5 DEF GatherEarned
  <2> QED BY <2>1, <2>2, <2>4, <2>5 DEF OneGatherEach
<1> QED BY <1>5, <1>6, <1>7 DEF MiningInv

LEMMA GatherKeeps ==
  ASSUME MiningInv, Gather
  PROVE  MiningInv'
<1> DEFINE due == {s \in Stacks : CycleDue(s)}
<1>1. due \in SUBSET Stacks /\ \A s \in due : CycleDue(s)
  OBVIOUS
<1>2. PICK place \in [due -> Slots] :
        /\ \A s \in due : calls[place[s]] = None
        /\ \A s, t \in due : place[s] = place[t] => s = t
        /\ calls' = [j \in Slots |-> IF \E s \in due : place[s] = j THEN Call(CHOOSE s \in due : place[s] = j) ELSE calls[j]]
  BY DEF Gather
<1>3. /\ doubled' = (doubled \/ \E j \in Slots : calls[j] # None /\ calls[j].stack \in due)
      /\ pending' = pending \cup due /\ busy' = TRUE
      /\ UNCHANGED <<server, seen, sessions, completed, poll, credit, changes, failures>>
  BY DEF Gather
<1> HIDE DEF due
<1>4. MiningTyped'
  BY <1>1, <1>3 DEF MiningInv, MiningTyped
<1>5. ASSUME NEW s \in due
      PROVE  /\ Call(s) \in GatherCall /\ Call(s).stack = s /\ Call(s).next = completed[s] + 1 /\ Call(s).at = "sent"
             /\ GatherCallOK(Call(s)) /\ completed[s] < Cycles(s) /\ Call(s) # None
  <2>0. s \in Stacks
    BY <1>1
  <2>1. sessions[s] # None /\ completed[s] < sessions[s].age \div sessions[s].dur
    <3>1. sessions[s] # None /\ sessions[s].age \div sessions[s].dur > completed[s]
      BY <1>1, <1>5 DEF CycleDue
    <3>2. Cycles(s) \in Nat /\ Cycles(s) = sessions[s].age \div sessions[s].dur /\ completed[s] \in Nat
      BY <2>0, <3>1, CyclesTyped, MiningAssumption DEF MiningInv, MiningTyped
    <3> QED BY <3>1, <3>2
  <2>2. Cycles(s) \in 0..MaxAge /\ Cycles(s) = sessions[s].age \div sessions[s].dur /\ completed[s] \in Nat
    BY <2>0, <2>1, CyclesTyped DEF MiningInv, MiningTyped
  <2>3. completed[s] + 1 \in 1..MaxAge /\ completed[s] < Cycles(s)
    BY <2>1, <2>2, MiningAssumption
  <2>4. seen.ver \in Nat /\ seen.ver <= server.ver
    BY DEF MiningInv, MiningTyped, Document
  <2>5. Call(s) = [stack |-> s, next |-> completed[s] + 1, ver |-> seen.ver, at |-> "sent", doc |-> None]
    BY DEF Call
  <2>6. Call(s) \in GatherCall
    BY <2>0, <2>3, <2>4, <2>5 DEF GatherCall, Stages
  <2> QED BY <2>3, <2>4, <2>5, <2>6, MiningAssumption DEF GatherCallOK
<1>6. ASSUME NEW s \in due
      PROVE  place[s] \in Slots /\ calls'[place[s]] = Call(s)
  <2>1. (CHOOSE t \in due : place[t] = place[s]) = s
    BY <1>2
  <2> QED BY <1>2, <2>1
<1>7. ASSUME NEW k \in Slots
      PROVE  (\E s \in due : k = place[s] /\ calls'[k] = Call(s) /\ calls[k] = None) \/ calls'[k] = calls[k]
  BY <1>2, <1>6
<1>8. GatherCallsTyped'
  <2>1. calls' = [k \in Slots |-> calls'[k]]
    BY <1>2
  <2>2. \A k \in Slots : calls'[k] \in GatherCall \cup {None}
    BY <1>5, <1>7 DEF MiningInv, GatherCallsTyped
  <2>3. ASSUME NEW k \in Slots, calls'[k] # None
        PROVE  GatherCallOK(calls[k])'
    BY <1>3, <1>5, <1>7, <2>3 DEF MiningInv, GatherCallsTyped, GatherCallOK
  <2> QED BY <2>1, <2>2, <2>3 DEF GatherCallsTyped
<1>9. AllEarned'
  <2> SUFFICES ASSUME failures = 0, ~doubled'
               PROVE  OneGatherEach' /\ (\A s \in Stacks : StackEarned(s)') /\ \A k \in Slots : calls'[k] # None => GatherEarned(k)'
    BY <1>3 DEF AllEarned
  <2>1. ~doubled /\ \A j \in Slots : calls[j] # None => calls[j].stack \notin due
    BY <1>3
  <2>2. OneGatherEach /\ (\A s \in Stacks : StackEarned(s)) /\ \A k \in Slots : calls[k] # None => GatherEarned(k)
    BY <2>1 DEF MiningInv, AllEarned
  <2>3. \A s \in Stacks : Cycles(s)' = Cycles(s)
    BY <1>3 DEF Cycles
  <2>4. OneGatherEach'
    BY <1>2, <1>5, <1>7, <2>1, <2>2 DEF OneGatherEach
  <2>5. ASSUME NEW s \in Stacks
        PROVE  StackEarned(s)'
    <3>1. StackEarned(s) /\ \A k \in Slots : calls[k] # None => calls'[k] = calls[k]
      BY <1>7, <2>2
    <3> QED BY <1>3, <2>3, <3>1 DEF StackEarned
  <2>6. ASSUME NEW k \in Slots, calls'[k] # None
        PROVE  GatherEarned(k)'
    <3>1. CASE calls'[k] = calls[k]
      BY <1>3, <2>2, <2>3, <2>6, <3>1 DEF MiningInv, GatherCallsTyped, GatherCall, GatherEarned
    <3>2. ASSUME NEW s \in due, calls'[k] = Call(s)
          PROVE  GatherEarned(k)'
      <4>1. ~\E j \in Slots : calls[j] # None /\ calls[j].stack = s /\ GatherApplied(calls[j])
        BY <2>1
      <4>2. Cycles(s) < credit[s] + completed[s] /\ completed[s] < Cycles(s)
        BY <1>1, <1>5, <2>2, <4>1 DEF StackEarned
      <4>3. completed[s] \in Nat /\ credit[s] \in Nat /\ Cycles(s) \in Nat
        BY <1>1, CyclesTyped, MiningAssumption DEF MiningInv, MiningTyped
      <4>4. credit[s] > 1 /\ completed[s] < completed[s] + 1
        BY <4>2, <4>3
      <4> QED BY <1>3, <1>5, <3>2, <4>4 DEF GatherEarned, GatherApplied
    <3> QED BY <1>7, <3>1, <3>2
  <2> QED BY <2>4, <2>5, <2>6
<1> QED BY <1>4, <1>8, <1>9 DEF MiningInv

\* A gather that is applied pays one cycle, which its session has worked.
LEMMA AppliedKeeps ==
  ASSUME MiningInv, NEW j \in Slots, calls[j] # None, calls[j].at = "sent", NEW s \in Stacks, s = calls[j].stack,
         credit' = [credit EXCEPT ![s] = IF @ = 0 THEN 0 ELSE @ - 1],
         NEW c \in GatherCall, calls' = [calls EXCEPT ![j] = c], c.stack = s, c.next = calls[j].next, c.at = "done",
         UNCHANGED <<sessions, completed, doubled, failures>>
  PROVE  AllEarned'
<1> SUFFICES ASSUME failures = 0, ~doubled
             PROVE  OneGatherEach' /\ (\A t \in Stacks : StackEarned(t)') /\ \A k \in Slots : calls'[k] # None => GatherEarned(k)'
  BY DEF AllEarned
<1>1. calls'[j] = c /\ c # None /\ \A k \in Slots : k # j => calls'[k] = calls[k]
  BY MiningAssumption DEF MiningInv, GatherCallsTyped
<1>2. \A t \in Stacks : Cycles(t)' = Cycles(t)
  BY DEF Cycles
<1>3. OneGatherEach /\ (\A t \in Stacks : StackEarned(t)) /\ \A k \in Slots : calls[k] # None => GatherEarned(k)
  BY DEF MiningInv, AllEarned
<1>4. \A t \in Stacks : t # s => credit'[t] = credit[t]
  BY DEF MiningInv, MiningTyped
<1>5. completed[s] \in Nat /\ credit[s] \in Nat /\ Cycles(s) \in Nat /\ calls[j].next \in Nat
  BY CyclesTyped, MiningAssumption DEF MiningInv, MiningTyped, GatherCallsTyped, GatherCall
<1>6. credit[s] > 1 /\ completed[s] < calls[j].next
  BY <1>3 DEF GatherEarned
<1>7. credit'[s] = credit[s] - 1
  BY <1>5, <1>6 DEF MiningInv, MiningTyped
<1>8. Cycles(s) < credit[s] + completed[s]
  <2>1. ~\E k \in Slots : calls[k] # None /\ calls[k].stack = s /\ GatherApplied(calls[k])
    BY <1>3 DEF OneGatherEach, GatherApplied
  <2> QED BY <1>3, <2>1 DEF StackEarned
<1>9. OneGatherEach'
  BY <1>1, <1>3 DEF OneGatherEach
<1>10. ASSUME NEW t \in Stacks
       PROVE  StackEarned(t)'
  <2>1. CASE t = s
    <3>1. credit'[t] > 0
      BY <1>5, <1>6, <1>7, <2>1
    <3> QED BY <1>1, <2>1, <3>1 DEF StackEarned, GatherApplied
  <2>2. CASE t # s
    BY <1>1, <1>2, <1>3, <1>4, <2>2 DEF StackEarned
  <2> QED BY <2>1, <2>2
<1>11. ASSUME NEW k \in Slots, calls'[k] # None
       PROVE  GatherEarned(k)'
  <2>1. CASE k = j
    <3>1. Cycles(s) < credit'[s] + calls[j].next
      BY <1>5, <1>6, <1>7, <1>8
    <3> QED BY <1>1, <1>2, <1>6, <2>1, <3>1 DEF GatherEarned
  <2>2. CASE k # j
    <3>1. calls'[k] = calls[k] /\ calls[k].stack \in Stacks /\ calls[k].stack # s
      BY <1>1, <1>3, <1>11, <2>2 DEF OneGatherEach, MiningInv, GatherCallsTyped, GatherCall
    <3> QED BY <1>2, <1>3, <1>4, <1>11, <3>1 DEF GatherEarned
  <2> QED BY <2>1, <2>2
<1> QED BY <1>9, <1>10, <1>11

\* The charge a gather takes off leaves a document.
LEMMA GatherDocument ==
  ASSUME MiningInv, NEW s \in Stacks, ~CmdRefuses(s), cmdResourceGather(s)
  PROVE  server' \in Document /\ server'.ver = server.ver + 1
<1>1. server \in Document /\ server.charges[s] \in Seq(1..MaxAge) /\ server.charges[s] # <<>>
  BY DEF MiningInv, MiningTyped, Document, CmdRefuses
<1>2. PICK q \in Seq(1..MaxAge) : q = server.charges[s]
  BY <1>1
<1>3. PICK r \in Seq(1..MaxAge) : r = Tail(server.charges[s])
  BY <1>1, <1>2, HeadTailProperties
<1>4. server' = [server EXCEPT !.ver = server.ver + 1, !.charges[s] = r]
  BY <1>3 DEF cmdResourceGather
<1>5. server.ver + 1 \in Nat /\ [server.charges EXCEPT ![s] = r] \in [Stacks -> Seq(1..MaxAge)]
  BY <1>1 DEF Document
<1>6. server' = [server EXCEPT !.ver = server.ver + 1, !.charges = [server.charges EXCEPT ![s] = r]]
  BY <1>1, <1>4 DEF Document
<1> QED BY <1>1, <1>5, <1>6 DEF Document

LEMMA ServeKeeps ==
  ASSUME MiningInv, NEW j \in Slots, Serve(j)
  PROVE  MiningInv'
<1>1. calls[j] # None /\ calls[j].at = "sent" /\ calls[j] \in GatherCall /\ GatherCallOK(calls[j])
  BY DEF Serve, Is, MiningInv, GatherCallsTyped
<1>2. UNCHANGED <<seen, sessions, completed, pending, busy, poll, doubled, changes, failures>>
  BY DEF Serve, Effects, History
<1>3. PICK s \in Stacks : s = calls[j].stack
  BY <1>1 DEF GatherCall
<1>4. server \in Document /\ server.ver \in Nat
  BY DEF MiningInv, MiningTyped, Document
<1>5. ASSUME NEW at \in {"conflict", "notFound", "failed"}, At(j, at), UNCHANGED <<server, credit>>
      PROVE  MiningInv'
  <2>1. PICK c : c = [calls[j] EXCEPT !.at = at]
    OBVIOUS
  <2>2. c \in GatherCall /\ c.stack = calls[j].stack /\ c.next = calls[j].next /\ c.at = at /\ c.ver = calls[j].ver
    BY <1>1, <2>1 DEF GatherCall, Stages
  <2>3. calls' = [calls EXCEPT ![j] = c]
    BY <1>5, <2>1 DEF At, Put
  <2>4. GatherCallOK(c)' /\ server.ver <= server'.ver
    BY <1>1, <1>4, <1>5, <2>2 DEF GatherCallOK
  <2>5. GatherCallsTyped'
    BY <1>4, <1>5, <2>2, <2>3, <2>4, CallPut
  <2>6. AllEarned'
    BY <1>1, <1>2, <1>5, <2>2, <2>3, GatherMoves DEF GatherApplied
  <2>7. MiningTyped'
    BY <1>2, <1>5 DEF MiningInv, MiningTyped
  <2> QED BY <2>5, <2>6, <2>7 DEF MiningInv
<1>6. ASSUME ~CmdRefuses(s), calls[j].ver = server.ver, cmdResourceGather(s),
             credit' = [credit EXCEPT ![s] = IF @ = 0 THEN 0 ELSE @ - 1],
             Put(j, [calls[j] EXCEPT !.at = "done", !.ver = server.ver + 1])
      PROVE  MiningInv'
  <2>1. PICK c : c = [calls[j] EXCEPT !.at = "done", !.ver = server.ver + 1]
    OBVIOUS
  <2>2. c \in GatherCall /\ c.stack = s /\ c.next = calls[j].next /\ c.at = "done" /\ c.ver = server.ver + 1
    <3>1. PICK v \in Nat : v = server.ver + 1
      BY <1>4
    <3>2. c = [calls[j] EXCEPT !.at = "done", !.ver = v]
      BY <2>1, <3>1
    <3>3. c = [stack |-> calls[j].stack, next |-> calls[j].next, ver |-> v, at |-> "done", doc |-> calls[j].doc]
      BY <1>1, <3>2 DEF GatherCall
    <3> QED BY <1>1, <1>3, <3>1, <3>3 DEF GatherCall, Stages
  <2>3. calls' = [calls EXCEPT ![j] = c]
    BY <1>6, <2>1 DEF Put
  <2>4. server' \in Document /\ server'.ver = server.ver + 1 /\ server.ver <= server'.ver
    BY <1>4, <1>6, GatherDocument
  <2>5. GatherCallsTyped'
    <3>1. GatherCallOK(c)'
      BY <1>4, <2>2, <2>4 DEF GatherCallOK
    <3> QED BY <2>2, <2>3, <2>4, <3>1, CallPut
  <2>6. AllEarned'
    BY <1>1, <1>2, <1>3, <1>6, <2>2, <2>3, AppliedKeeps
  <2>7. MiningTyped'
    <3>1. credit' \in [Stacks -> 0..MaxAge + 1]
      <4>1. credit[s] \in 0..MaxAge + 1
        BY DEF MiningInv, MiningTyped
      <4>2. (IF credit[s] = 0 THEN 0 ELSE credit[s] - 1) \in 0..MaxAge + 1
        BY <4>1, MiningAssumption
      <4> QED BY <1>6, <4>2 DEF MiningInv, MiningTyped
    <3>2. seen.ver \in Nat /\ seen.ver <= server'.ver /\ (poll # None => poll.ver <= server'.ver)
      <4>1. seen.ver \in Nat /\ seen.ver <= server.ver
        BY DEF MiningInv, MiningTyped, Document
      <4>2. poll # None => poll.ver \in Nat /\ poll.ver <= server.ver
        BY DEF MiningInv, MiningTyped, Document
      <4> QED BY <1>4, <2>4, <4>1, <4>2
    <3> QED BY <1>2, <2>4, <3>1, <3>2 DEF MiningInv, MiningTyped
  <2> QED BY <2>5, <2>6, <2>7 DEF MiningInv
<1> QED BY <1>3, <1>5, <1>6 DEF Serve

\* A call that goes on at the server or in the tab, with nothing gathered.
LEMMA MovesKeep ==
  ASSUME MiningInv, NEW j \in Slots, calls[j] # None, NEW c \in GatherCall, calls' = [calls EXCEPT ![j] = c],
         c.stack = calls[j].stack, c.next = calls[j].next, c.at # "sent", GatherApplied(c) <=> GatherApplied(calls[j]),
         GatherCallOK(c), seen' \in Document, seen'.ver <= server.ver, busy' \in BOOLEAN,
         UNCHANGED <<server, sessions, completed, pending, poll, credit, doubled, failures>>
  PROVE  MiningInv'
<1>1. server' \in Document /\ server.ver <= server'.ver
  BY DEF MiningInv, MiningTyped, Document
<1>2. GatherCallsTyped'
  <2>1. GatherCallOK(c)'
    BY DEF GatherCallOK
  <2> QED BY <1>1, <2>1, CallPut
<1>3. AllEarned'
  BY GatherMoves
<1>4. MiningTyped'
  BY DEF MiningInv, MiningTyped
<1> QED BY <1>2, <1>3, <1>4 DEF MiningInv

LEMMA AnsweredKeeps ==
  ASSUME MiningInv, NEW j \in Slots, Answered(j) \/ Conflicted(j) \/ ServeGet(j)
  PROVE  MiningInv'
<1>1. calls[j] # None => calls[j] \in GatherCall /\ GatherCallOK(calls[j])
  BY DEF MiningInv, GatherCallsTyped
<1>2. /\ server \in Document /\ seen \in Document /\ seen.ver <= server.ver /\ busy \in BOOLEAN /\ server.ver \in Nat /\ server.ver <= server.ver
  BY DEF MiningInv, MiningTyped, Document
<1>3. CASE Answered(j)
  <2>1. calls[j] # None /\ calls[j].at = "done" /\ calls[j] \in GatherCall /\ calls[j].ver <= server.ver
    BY <1>1, <1>3 DEF Answered, Is, GatherCallOK
  <2>2. PICK c : c = [calls[j] EXCEPT !.at = "refresh"]
    OBVIOUS
  <2>3. /\ c \in GatherCall /\ c.stack = calls[j].stack /\ c.next = calls[j].next /\ c.at = "refresh" /\ c.ver = calls[j].ver
    BY <2>1, <2>2 DEF GatherCall, Stages
  <2>4. calls' = [calls EXCEPT ![j] = c]
    BY <1>3, <2>2 DEF Answered, At, Put
  <2>5. UNCHANGED <<server, sessions, completed, pending, busy, poll, credit, doubled, failures>>
    BY <1>3 DEF Answered, History
  <2>6. seen' \in Document /\ seen'.ver <= server.ver
    <3>1. calls[j].ver \in Nat /\ seen' = [seen EXCEPT !.ver = calls[j].ver]
      BY <1>3, <2>1 DEF Answered, GatherCall
    <3> QED BY <1>2, <2>1, <3>1 DEF Document
  <2>7. GatherCallOK(c) /\ GatherApplied(c) /\ GatherApplied(calls[j]) /\ c.at # "sent" /\ busy' \in BOOLEAN
    BY <1>2, <2>1, <2>3, <2>5 DEF GatherCallOK, GatherApplied
  <2> QED BY <2>1, <2>3, <2>4, <2>5, <2>6, <2>7, MovesKeep
<1>4. CASE Conflicted(j)
  <2>1. calls[j] # None /\ calls[j].at = "conflict" /\ calls[j] \in GatherCall /\ calls[j].ver <= server.ver
    BY <1>1, <1>4 DEF Conflicted, Is, GatherCallOK
  <2>2. PICK c : c = [calls[j] EXCEPT !.at = "reload"]
    OBVIOUS
  <2>3. /\ c \in GatherCall /\ c.stack = calls[j].stack /\ c.next = calls[j].next /\ c.at = "reload" /\ c.ver = calls[j].ver
    BY <2>1, <2>2 DEF GatherCall, Stages
  <2>4. calls' = [calls EXCEPT ![j] = c]
    BY <1>4, <2>2 DEF Conflicted, At, Put
  <2>5. UNCHANGED <<server, seen, sessions, completed, pending, poll, credit, doubled, failures>> /\ busy' = FALSE
    BY <1>4 DEF Conflicted, Effects, History
  <2>6. GatherCallOK(c) /\ ~GatherApplied(c) /\ ~GatherApplied(calls[j]) /\ c.at # "sent"
    BY <2>1, <2>3 DEF GatherCallOK, GatherApplied
  <2> QED BY <1>2, <2>1, <2>3, <2>4, <2>5, <2>6, MovesKeep
<1>5. CASE ServeGet(j)
  <2>1. PICK at \in {"refresh", "reload"} : calls[j] # None /\ calls[j].at = at
                /\ calls' = [calls EXCEPT ![j] = [calls[j] EXCEPT !.at = IF at = "refresh" THEN "refreshed" ELSE "reloaded", !.doc = server]]
    BY <1>5 DEF ServeGet, Is, Put
  <2>2. PICK c : c = [calls[j] EXCEPT !.at = IF at = "refresh" THEN "refreshed" ELSE "reloaded", !.doc = server]
    OBVIOUS
  <2>3. /\ c \in GatherCall /\ c.stack = calls[j].stack /\ c.next = calls[j].next /\ c.ver = calls[j].ver /\ c.doc = server
        /\ c.at = IF at = "refresh" THEN "refreshed" ELSE "reloaded"
    BY <1>1, <1>2, <2>1, <2>2 DEF GatherCall, Stages
  <2>4. calls' = [calls EXCEPT ![j] = c]
    BY <2>1, <2>2
  <2>5. UNCHANGED <<server, seen, sessions, completed, pending, busy, poll, credit, doubled, failures>>
    BY <1>5 DEF ServeGet, Effects, History
  <2>6. GatherCallOK(c)
    BY <1>1, <1>2, <2>1, <2>3 DEF GatherCallOK
  <2>7. c.at # "sent" /\ (GatherApplied(c) <=> GatherApplied(calls[j]))
    BY <2>1, <2>3 DEF GatherApplied
  <2> QED BY <1>2, <2>1, <2>3, <2>4, <2>5, <2>6, <2>7, MovesKeep
<1> QED BY <1>3, <1>4, <1>5

\* A call that ends leaves the rest of the calls as they are.
LEMMA CallEnds ==
  ASSUME MiningInv, NEW j \in Slots, calls[j] # None, Put(j, None), UNCHANGED server
  PROVE  /\ GatherCallsTyped' /\ calls[j].stack \in Stacks /\ calls[j].next \in 1..MaxAge
         /\ \A k \in Slots : calls'[k] = calls[k] \/ calls'[k] = None
         /\ failures = 0 /\ ~doubled =>
              \A k \in Slots : calls[k] # None => (calls'[k] = None <=> calls[k].stack \in {calls[j].stack})
<1>1. calls' = [calls EXCEPT ![j] = None] /\ calls[j] \in GatherCall
  BY DEF Put, MiningInv, GatherCallsTyped
<1>2. server' \in Document /\ server.ver <= server'.ver
  BY DEF MiningInv, MiningTyped, Document
<1>3. GatherCallsTyped'
  BY <1>1, <1>2, CallPut
<1>4. calls'[j] = None /\ \A k \in Slots : k # j => calls'[k] = calls[k]
  BY <1>1 DEF MiningInv, GatherCallsTyped
<1>5. failures = 0 /\ ~doubled => \A k \in Slots : calls[k] # None => (calls'[k] = None <=> calls[k].stack \in {calls[j].stack})
  BY <1>4 DEF MiningInv, AllEarned, OneGatherEach
<1> QED BY <1>1, <1>3, <1>4, <1>5 DEF GatherCall

\* The cycles of the stack of a call that ends: a new session owes nothing, and
\* a count that goes on is the call's own, or was the stack's already.
LEMMA EndEarned ==
  ASSUME MiningInv, NEW j \in Slots, calls[j] # None, failures = 0, ~doubled, NEW s \in Stacks, s = calls[j].stack,
         completed'[s] \in Nat, Cycles(s)' = 0 \/ Cycles(s)' = Cycles(s),
         Cycles(s)' = 0 \/ (GatherApplied(calls[j]) /\ completed'[s] = calls[j].next) \/ (~GatherApplied(calls[j]) /\ completed'[s] = completed[s])
  PROVE  Cycles(s)' < credit[s] + completed'[s]
<1>1. OneGatherEach /\ StackEarned(s) /\ GatherEarned(j)
  BY DEF MiningInv, AllEarned
<1>2. credit[s] \in Nat /\ credit[s] > 0 /\ completed[s] \in Nat
  BY <1>1, MiningAssumption DEF MiningInv, MiningTyped, StackEarned
<1>3. CASE Cycles(s)' = 0
  BY <1>2, <1>3
<1>4. CASE Cycles(s)' = Cycles(s) /\ GatherApplied(calls[j]) /\ completed'[s] = calls[j].next
  BY <1>1, <1>4 DEF GatherEarned
<1>5. CASE Cycles(s)' = Cycles(s) /\ ~GatherApplied(calls[j]) /\ completed'[s] = completed[s]
  BY <1>1, <1>5 DEF StackEarned, OneGatherEach
<1> QED BY <1>3, <1>4, <1>5

LEMMA GatherShownKeeps ==
  ASSUME MiningInv, NEW j \in Slots, GatherShown(j) \/ Reloaded(j)
  PROVE  MiningInv'
<1>1. PICK advance \in BOOLEAN : /\ Is(j, IF advance THEN "refreshed" ELSE "reloaded")
                                 /\ Put(j, None) /\ Show(calls[j].doc, {calls[j]}, advance) /\ busy' \in BOOLEAN
                                 /\ UNCHANGED <<server, poll, credit, doubled, changes, failures>>
  <2>1. CASE GatherShown(j)
    BY <2>1 DEF GatherShown, History
  <2>2. CASE Reloaded(j)
    BY <2>2 DEF Reloaded, History, MiningInv, MiningTyped
  <2> QED BY <2>1, <2>2
<1>2. calls[j] # None /\ calls[j].at = (IF advance THEN "refreshed" ELSE "reloaded")
  BY <1>1 DEF Is
<1>3. calls[j] \in GatherCall /\ calls[j].doc \in Document /\ calls[j].doc.ver <= server.ver
  BY <1>2 DEF MiningInv, GatherCallsTyped, GatherCallOK
<1>4. /\ GatherCallsTyped' /\ calls[j].stack \in Stacks /\ calls[j].next \in 1..MaxAge
      /\ \A k \in Slots : calls'[k] = calls[k] \/ calls'[k] = None
      /\ failures = 0 /\ ~doubled =>
           \A k \in Slots : calls[k] # None => (calls'[k] = None <=> calls[k].stack \in {calls[j].stack})
  BY <1>1, <1>2, CallEnds
<1>5. PICK E \in SUBSET Stacks : E = {calls[j].stack}
  BY <1>4
<1>6. PICK ended : ended = {calls[j]}
  OBVIOUS
<1>7. (CHOOSE c \in ended : TRUE) = calls[j]
  BY <1>6
<1>8. \A s \in Stacks : s \in E <=> \E c \in ended : c.stack = s
  BY <1>5, <1>6
<1>9. Show(calls[j].doc, ended, advance) /\ (CHOOSE c \in ended : TRUE).next = calls[j].next
  BY <1>1, <1>6, <1>7
<1>10. /\ seen' \in Document /\ seen'.ver <= server.ver /\ sessions' \in [Stacks -> Session \cup {None}]
       /\ completed' \in [Stacks -> 0..MaxAge] /\ pending' \subseteq Stacks
       /\ \A s \in Stacks \ E : \/ Cycles(s)' = 0 /\ completed'[s] <= completed[s]
                                \/ Cycles(s)' = Cycles(s) /\ completed'[s] = completed[s]
       /\ ~advance => \A s \in E : \/ Cycles(s)' = 0 \/ (Cycles(s)' = Cycles(s) /\ completed'[s] = completed[s])
       /\ advance => \A s \in E : (Cycles(s)' = 0 \/ Cycles(s)' = Cycles(s)) /\ completed'[s] = calls[j].next
  <2>1. PICK board \in Document : board = calls[j].doc
    BY <1>3
  <2>2. ShowFits(board, ended, advance, E) /\ Show(board, ended, advance)
    BY <1>3, <1>4, <1>8, <1>9, <2>1 DEF ShowFits, MiningInv
  <2>3. ShowDoes(ended, advance, E)
    BY <2>2, Shows
  <2> QED BY <1>9, <2>3 DEF ShowDoes
<1>11. MiningTyped'
  BY <1>1, <1>10 DEF MiningInv, MiningTyped
<1>12. AllEarned'
  <2>1. CASE failures = 0 /\ ~doubled
    <3>1. PICK s \in Stacks : s = calls[j].stack
      BY <1>4
    <3>2. completed'[s] \in Nat /\ E = {s}
      BY <1>5, <1>10, <3>1, MiningAssumption
    <3>3. /\ Cycles(s)' = 0 \/ Cycles(s)' = Cycles(s)
          /\ Cycles(s)' = 0 \/ (GatherApplied(calls[j]) /\ completed'[s] = calls[j].next) \/ (~GatherApplied(calls[j]) /\ completed'[s] = completed[s])
      <4>1. CASE advance
        <5>1. GatherApplied(calls[j])
          BY <1>2, <4>1 DEF GatherApplied
        <5> QED BY <1>10, <3>2, <4>1, <5>1
      <4>2. CASE ~advance
        <5>1. ~GatherApplied(calls[j])
          BY <1>2, <4>2 DEF GatherApplied
        <5> QED BY <1>10, <3>2, <4>2, <5>1
      <4> QED BY <4>1, <4>2
    <3>4. Cycles(s)' < credit[s] + completed'[s]
      BY <1>2, <2>1, <3>1, <3>2, <3>3, EndEarned
    <3>5. \A t \in E : Cycles(t)' < credit[t] + completed'[t]
      BY <3>2, <3>4
    <3>6. \A k \in Slots : calls[k] # None => (calls'[k] = None <=> calls[k].stack \in E)
      BY <1>4, <1>5, <2>1
    <3> QED BY <1>1, <1>4, <1>10, <1>11, <2>1, <3>5, <3>6, GathersEnd
  <2>2. CASE ~(failures = 0 /\ ~doubled)
    BY <1>1, <2>2 DEF AllEarned
  <2> QED BY <2>1, <2>2
<1> QED BY <1>4, <1>11, <1>12 DEF MiningInv

LEMMA NotFoundKeeps ==
  ASSUME MiningInv, NEW j \in Slots, NotFound(j) \/ Failed(j)
  PROVE  MiningInv'
<1>1. calls[j] # None /\ Put(j, None) /\ busy' = FALSE /\ UNCHANGED <<server, seen, poll, credit, doubled, changes, failures>>
  BY DEF NotFound, Failed, Finally, Is, History
<1>2. /\ GatherCallsTyped' /\ calls[j].stack \in Stacks /\ calls[j].next \in 1..MaxAge
      /\ \A k \in Slots : calls'[k] = calls[k] \/ calls'[k] = None
      /\ failures = 0 /\ ~doubled =>
           \A k \in Slots : calls[k] # None => (calls'[k] = None <=> calls[k].stack \in {calls[j].stack})
  BY <1>1, CallEnds
<1>3. PICK s \in Stacks : s = calls[j].stack
  BY <1>2
<1>4. PICK E \in SUBSET Stacks : E = {s}
  OBVIOUS
<1>5. /\ sessions' \in [Stacks -> Session \cup {None}] /\ completed' \in [Stacks -> 0..MaxAge] /\ pending' \subseteq Stacks
      /\ \A t \in Stacks \ E : \/ Cycles(t)' = 0 /\ completed'[t] <= completed[t]
                               \/ Cycles(t)' = Cycles(t) /\ completed'[t] = completed[t]
      /\ Cycles(s)' = 0 \/ (Cycles(s)' = Cycles(s) /\ completed'[s] = completed[s] /\ ~GatherApplied(calls[j]))
  <2>0. sessions \in [Stacks -> Session \cup {None}] /\ completed \in [Stacks -> 0..MaxAge] /\ pending \subseteq Stacks
    BY DEF MiningInv, MiningTyped
  <2>1. CASE NotFound(j)
    <3>1. PICK n \in 1..MaxAge : n = calls[j].next
      BY <1>2
    <3>2. sessions' = [sessions EXCEPT ![s] = None] /\ pending' = (pending \cap Active(sessions')) \ {s}
      BY <1>3, <2>1 DEF NotFound
    <3>3. PICK kept : kept = [t \in Stacks |-> IF t \in Active(sessions') THEN completed[t] ELSE 0]
      OBVIOUS
    <3>4. completed' = [kept EXCEPT ![s] = n]
      BY <1>3, <2>1, <3>1, <3>2, <3>3 DEF NotFound, PrunedCycles
    <3>5. kept \in [Stacks -> 0..MaxAge]
      BY <2>0, <3>3, MiningAssumption
    <3>6. sessions' \in [Stacks -> Session \cup {None}] /\ completed' \in [Stacks -> 0..MaxAge] /\ pending' \subseteq Stacks
      BY <2>0, <3>2, <3>4, <3>5, MiningAssumption
    <3>7. Cycles(s)' = 0
      BY <2>0, <3>2 DEF Cycles
    <3>8. ASSUME NEW t \in Stacks \ E
          PROVE  \/ Cycles(t)' = 0 /\ completed'[t] <= completed[t]
                 \/ Cycles(t)' = Cycles(t) /\ completed'[t] = completed[t]
      <4>1. sessions'[t] = sessions[t] /\ completed'[t] = IF sessions[t] # None THEN completed[t] ELSE 0
        BY <1>4, <2>0, <3>2, <3>3, <3>4, <3>5 DEF Active
      <4>2. completed[t] \in Nat
        BY <2>0, MiningAssumption
      <4>3. CASE sessions[t] = None
        BY <4>1, <4>2, <4>3 DEF Cycles
      <4>4. CASE sessions[t] # None
        BY <4>1, <4>4 DEF Cycles
      <4> QED BY <4>3, <4>4
    <3> QED BY <3>6, <3>7, <3>8
  <2>2. CASE Failed(j)
    <3>1. sessions' = sessions /\ completed' = completed /\ pending' \subseteq pending /\ calls[j].at = "failed"
      BY <2>2 DEF Failed, Finally, Is
    <3>2. \A t \in Stacks : Cycles(t)' = Cycles(t)
      BY <3>1 DEF Cycles
    <3> QED BY <2>0, <3>1, <3>2 DEF GatherApplied
  <2> QED BY <2>1, <2>2
<1>6. MiningTyped'
  BY <1>1, <1>5 DEF MiningInv, MiningTyped
<1>7. AllEarned'
  <2>1. CASE failures = 0 /\ ~doubled
    <3>1. completed'[s] \in Nat
      BY <1>5, MiningAssumption
    <3>2. Cycles(s)' < credit[s] + completed'[s]
      BY <1>1, <1>3, <1>5, <2>1, <3>1, EndEarned
    <3>3. \A t \in E : Cycles(t)' < credit[t] + completed'[t]
      BY <1>4, <3>2
    <3>4. \A k \in Slots : calls[k] # None => (calls'[k] = None <=> calls[k].stack \in E)
      BY <1>2, <1>3, <1>4, <2>1
    <3> QED BY <1>1, <1>2, <1>5, <1>6, <2>1, <3>3, <3>4, GathersEnd
  <2>2. CASE ~(failures = 0 /\ ~doubled)
    BY <1>1, <2>2 DEF AllEarned
  <2> QED BY <2>1, <2>2
<1> QED BY <1>2, <1>6, <1>7 DEF MiningInv

\* After a loss the promise is given up: what is left is the shape of the state.
LEMMA LossKeeps ==
  ASSUME MiningInv, NEW j \in Slots, Loss(j)
  PROVE  MiningInv'
<1>1. failures' = failures + 1 /\ UNCHANGED <<server, seen, sessions, poll, credit, doubled, changes>>
  BY DEF Loss, RequestLost, AnswerLost, LoadFails, Effects
<1>2. failures \in Nat
  BY DEF MiningInv, MiningTyped
<1>3. failures' \in Nat /\ failures' # 0
  BY <1>1, <1>2
<1>4. AllEarned'
  BY <1>3 DEF AllEarned
<1>5. calls[j] # None /\ calls[j] \in GatherCall /\ GatherCallOK(calls[j])
  BY DEF Loss, RequestLost, AnswerLost, LoadFails, Is, MiningInv, GatherCallsTyped
<1>6. server' \in Document /\ server.ver <= server'.ver
  BY <1>1 DEF MiningInv, MiningTyped, Document
<1>7. CASE RequestLost(j) \/ AnswerLost(j)
  <2>1. PICK c : c = [calls[j] EXCEPT !.at = "failed"]
    OBVIOUS
  <2>2. c \in GatherCall /\ c.at = "failed" /\ c.ver = calls[j].ver
    BY <1>5, <2>1 DEF GatherCall, Stages
  <2>3. calls' = [calls EXCEPT ![j] = c]
    BY <1>7, <2>1 DEF RequestLost, AnswerLost, At, Put
  <2>4. GatherCallOK(c)'
    BY <1>1, <1>5, <2>2 DEF GatherCallOK
  <2>5. GatherCallsTyped'
    BY <1>6, <2>2, <2>3, <2>4, CallPut
  <2>6. MiningTyped'
    BY <1>1, <1>3, <1>7 DEF RequestLost, AnswerLost, Effects, MiningInv, MiningTyped
  <2> QED BY <1>4, <2>5, <2>6 DEF MiningInv
<1>8. CASE LoadFails(j)
  <2>1. PICK advance \in BOOLEAN : Finally(j, advance) /\ busy' \in BOOLEAN
    BY <1>8 DEF LoadFails, MiningInv, MiningTyped
  <2>2. GatherCallsTyped' /\ calls[j].next \in 1..MaxAge
    BY <1>1, <1>5, <2>1, CallEnds DEF Finally
  <2>3. completed' \in [Stacks -> 0..MaxAge] /\ pending' \subseteq Stacks
    <3>1. completed \in [Stacks -> 0..MaxAge] /\ pending \subseteq Stacks
      BY DEF MiningInv, MiningTyped
    <3>2. pending' \subseteq Stacks
      BY <2>1, <3>1 DEF Finally
    <3>3. PICK n \in 1..MaxAge : n = calls[j].next
      BY <2>2
    <3>4. n \in 0..MaxAge
      BY MiningAssumption
    <3>5. completed' = (IF advance THEN [completed EXCEPT ![calls[j].stack] = n] ELSE completed)
      BY <2>1, <3>3 DEF Finally
    <3> QED BY <3>1, <3>2, <3>4, <3>5
  <2>4. MiningTyped'
    BY <1>1, <1>3, <2>1, <2>3 DEF MiningInv, MiningTyped
  <2> QED BY <1>4, <2>2, <2>4 DEF MiningInv
<1> QED BY <1>7, <1>8 DEF Loss

LEMMA PollKeeps ==
  ASSUME MiningInv, PollServed \/ PollShown
  PROVE  MiningInv'
<1>1. UNCHANGED <<server, busy, calls, credit, doubled, changes, failures>>
  BY DEF PollServed, PollShown, Effects, History
<1>2. GatherCallsTyped'
  BY <1>1 DEF MiningInv, GatherCallsTyped, GatherCallOK
<1>3. CASE PollServed
  <2>1. poll' = server /\ UNCHANGED <<seen, sessions, completed, pending>>
    BY <1>3 DEF PollServed, Effects
  <2>2. MiningTyped'
    BY <1>1, <2>1 DEF MiningInv, MiningTyped, Document
  <2>3. AllEarned'
    BY <1>1, <2>1 DEF MiningInv, AllEarned, OneGatherEach, StackEarned, GatherEarned, Cycles
  <2> QED BY <1>2, <2>2, <2>3 DEF MiningInv
<1>4. CASE PollShown
  <2>1. poll \in Document /\ poll.ver <= server.ver /\ poll' = None /\ Show(poll, {}, FALSE)
    BY <1>4 DEF PollShown, MiningInv, MiningTyped
  <2>2. ShowFits(poll, {}, FALSE, {})
    BY <2>1 DEF ShowFits, MiningInv
  <2>3. ShowDoes({}, FALSE, {})
    BY <2>1, <2>2, Shows
  <2>4. MiningTyped'
    BY <1>1, <2>1, <2>3 DEF ShowDoes, MiningInv, MiningTyped
  <2>5. AllEarned'
    <3>1. CASE failures = 0 /\ ~doubled
      <4>1. PICK E \in SUBSET Stacks : E = {}
        OBVIOUS
      <4>2. /\ \A k \in Slots : calls'[k] = calls[k] \/ calls'[k] = None
            /\ \A k \in Slots : calls[k] # None => (calls'[k] = None <=> calls[k].stack \in E)
            /\ \A s \in Stacks \ E : (Cycles(s)' = 0 /\ completed'[s] <= completed[s]) \/ (Cycles(s)' = Cycles(s) /\ completed'[s] = completed[s])
            /\ \A s \in E : Cycles(s)' < credit[s] + completed'[s]
        BY <1>1, <2>3, <4>1 DEF ShowDoes
      <4> QED BY <1>1, <2>4, <3>1, <4>2, GathersEnd
    <3>2. CASE ~(failures = 0 /\ ~doubled)
      BY <1>1, <3>2 DEF AllEarned
    <3> QED BY <3>1, <3>2
  <2> QED BY <1>2, <2>4, <2>5 DEF MiningInv
<1> QED BY <1>3, <1>4

LEMMA OthersKeep ==
  ASSUME MiningInv, NEW s \in Stacks, NEW kind \in Others, OthersChange(kind, s)
  PROVE  MiningInv'
<1>1. UNCHANGED <<seen, sessions, completed, pending, busy, calls, poll, credit, doubled, failures>>
  BY DEF OthersChange, Effects
<1>2. server \in Document /\ First[s] \in Seq(1..MaxAge)
  BY MiningAssumption DEF MiningInv, MiningTyped
<1>3. PICK v \in Nat : v = server.ver + 1 /\ server.ver <= v
  BY <1>2 DEF Document
<1>4. server' \in Document /\ server'.ver = v
  <2>1. \/ server' = [server EXCEPT !.ver = v, !.rested = [server.rested EXCEPT ![s] = ~server.rested[s]]]
        \/ server' = [server EXCEPT !.ver = v, !.charges = [server.charges EXCEPT ![s] = First[s]]]
        \/ server' = [server EXCEPT !.ver = v, !.gone = server.gone \cup {s}]
    <3>1. CASE server' = [server EXCEPT !.ver = @ + 1, !.rested[s] = ~@]
      BY <1>2, <1>3, <3>1 DEF Document
    <3>2. CASE server' = [server EXCEPT !.ver = @ + 1, !.charges[s] = First[s]]
      BY <1>2, <1>3, <3>2 DEF Document
    <3>3. CASE server' = [server EXCEPT !.ver = @ + 1, !.gone = @ \cup {s}]
      BY <1>2, <1>3, <3>3 DEF Document
    <3> QED BY <3>1, <3>2, <3>3 DEF OthersChange
  <2>2. [server.rested EXCEPT ![s] = ~server.rested[s]] \in [Stacks -> BOOLEAN]
    BY <1>2 DEF Document
  <2>3. [server.charges EXCEPT ![s] = First[s]] \in [Stacks -> Seq(1..MaxAge)]
    BY <1>2 DEF Document
  <2>4. server.gone \cup {s} \in SUBSET Stacks
    BY <1>2 DEF Document
  <2> QED BY <1>2, <2>1, <2>2, <2>3, <2>4 DEF Document
<1>5. MiningTyped'
  <2>1. server.ver \in Nat /\ seen.ver \in Nat /\ seen.ver <= server.ver /\ (poll # None => poll.ver \in Nat /\ poll.ver <= server.ver)
    BY <1>2 DEF MiningInv, MiningTyped, Document
  <2>2. seen.ver <= v /\ (poll # None => poll.ver <= v)
    BY <1>3, <2>1
  <2> QED BY <1>1, <1>4, <2>2 DEF MiningInv, MiningTyped
<1>6. GatherCallsTyped'
  <2>1. ASSUME NEW k \in Slots, calls[k] # None
        PROVE  GatherCallOK(calls[k])'
    <3>1. calls[k] \in GatherCall /\ GatherCallOK(calls[k])
      BY <2>1 DEF MiningInv, GatherCallsTyped
    <3>2. server.ver \in Nat /\ calls[k].ver \in Nat /\ (calls[k].at \in {"refreshed", "reloaded"} => calls[k].doc.ver \in Nat)
      BY <1>2, <3>1 DEF GatherCallOK, GatherCall, Document
    <3>3. calls[k].ver <= v /\ (calls[k].at \in {"refreshed", "reloaded"} => calls[k].doc.ver <= v)
      BY <1>3, <3>1, <3>2 DEF GatherCallOK
    <3> QED BY <1>1, <1>4, <3>1, <3>3 DEF GatherCallOK
  <2> QED BY <1>1, <2>1 DEF MiningInv, GatherCallsTyped
<1>7. AllEarned'
  BY <1>1 DEF MiningInv, AllEarned, OneGatherEach, StackEarned, GatherEarned, Cycles
<1> QED BY <1>5, <1>6, <1>7 DEF MiningInv

LEMMA MiningKeeps ==
  ASSUME MiningInv, [MiningNext]_miningvars
  PROVE  MiningInv'
<1>1. CASE Tick \/ Gather \/ PollServed \/ PollShown
  BY <1>1, TickKeeps, GatherKeeps, PollKeeps
<1>2. ASSUME NEW j \in Slots, Step(j)
      PROVE  MiningInv'
  BY <1>2, ServeKeeps, AnsweredKeeps, GatherShownKeeps, NotFoundKeeps DEF Step
<1>3. ASSUME NEW j \in Slots, Loss(j)
      PROVE  MiningInv'
  BY <1>3, LossKeeps
<1>4. ASSUME NEW s \in Stacks, NEW kind \in Others, OthersChange(kind, s)
      PROVE  MiningInv'
  BY <1>4, OthersKeep
<1>5. CASE UNCHANGED miningvars
  BY <1>5 DEF miningvars, MiningInv, MiningTyped, GatherCallsTyped, GatherCallOK, AllEarned, OneGatherEach, StackEarned, GatherEarned, Cycles
<1> QED BY <1>1, <1>2, <1>3, <1>4, <1>5 DEF MiningNext

\* A tab that mines is paid at most one gather for every cycle its sessions
\* have worked, whatever conflicts, polls and changes of others come between
\* (BoardControllerMining: the completed cycles and the pending flag), as long
\* as every answer arrives and no stack is gathered twice at once.
THEOREM CyclesPaidOnce == MiningSpec => []PaidWhatItEarned
<1>1. MiningInit => MiningInv
  BY MiningStarts
<1>2. MiningInv /\ [MiningNext]_miningvars => MiningInv'
  BY MiningKeeps
<1>3. MiningInv => PaidWhatItEarned
  <2> SUFFICES ASSUME MiningInv
               PROVE  PaidWhatItEarned
    OBVIOUS
  <2>1. MiningTypeOK
    BY DEF MiningInv, MiningTyped, MiningTypeOK
  <2>2. failures = 0 /\ ~doubled => \A s \in Stacks : credit[s] > 0
    BY DEF MiningInv, AllEarned, StackEarned
  <2> QED BY <2>1, <2>2 DEF PaidWhatItEarned
<1> QED BY <1>1, <1>2, <1>3, PTL DEF MiningSpec
=============================================================================
