------------------------------- MODULE Quests -------------------------------
(* The quests of a board (board/quests*.go): the daily quests drawn for every *)
(* day of the board, the quests of the week, and the one that too many        *)
(* zombies bring, kept in the board document with what was archived.  A read  *)
(* refreshes them in memory only; a command refreshes them, acts, refreshes   *)
(* them again and saves (board/service.go).  Seasonal quests are the stories  *)
(* of some weeks.  A command that fails saves nothing and is left out: the    *)
(* rows it already closed or opened again are changes made elsewhere.         *)
EXTENDS Naturals, Sequences, FiniteSets

CONSTANTS
  Dailies,       \* the templates of daily quests
  DrawCount,     \* how many of them a day has
  NoRepeatDays,  \* for how many draws a template is set aside
  DaysPerWeek,   \* 7 in the code
  DeadRise,      \* the zombies that bring the failure quest, and those it asks to clear: 3 in the code
  Counters,      \* what commands count, a deck or a modifier of its own included
  DailyGoals,    \* per template its objectives, [op |-> , target |-> ]
  StoryGoals,    \* per week those of the story
  BossGoals,     \* per week that has a boss those of the boss
  MaxDay,        \* bound: the days of the board
  MaxCount,      \* bound: what each counter reaches
  MaxBacklog, MaxZombies  \* bounds

ASSUME QuestsAssumption ==
  /\ {DrawCount, NoRepeatDays, DaysPerWeek} \subseteq Nat \ {0} /\ {DeadRise, MaxDay, MaxCount, MaxBacklog, MaxZombies} \subseteq Nat
  /\ IsFiniteSet(Dailies) /\ DrawCount <= Cardinality(Dailies)
  /\ Dailies \cap {"story", "boss", "dead_rise"} = {} /\ Counters \cap {"keep_zombies_below", "reduce_backlog_to"} = {}

VARIABLES
  doc,      \* the saved document: ticks, counters, zombie stacks, quests and what they remember
  backlog,  \* the open rows of the task list
  drawn,    \* what a read drew for the document as it is saved; the seed is of the day and of the
            \* history, so the next call draws the same.  {} if none did
  shown,    \* the quests a read showed, until the document or the task list changes
  paid      \* per quest how often its rewards were granted

vars == <<doc, backlog, drawn, shown, paid>>

Ids == [template : Dailies \cup {"story", "boss", "dead_rise"}, at : 1..MaxDay]
Id(template, at) == [template |-> template, at |-> at]
IsDaily(q) == q.id.template \in Dailies

Day(d) == d.ticks + 1
Week(day) == ((day - 1) \div DaysPerWeek) + 1

Goals(id) ==
  CASE id.template \in Dailies     -> DailyGoals[id.template]
    [] id.template = "story"       -> StoryGoals[id.at]
    [] id.template = "boss"        -> BossGoals[id.at]
    [] id.template = "dead_rise"   -> {[op |-> "clear_zombie", target |-> DeadRise]}
Counted(id) == {g.op : g \in Goals(id)} \cap Counters

---------------------------------------------------------------------------
(* Refreshing *)

\* Fault: a quest that was archived is offered again.
HasActive(d, id) == \E q \in d.active : q.id = id
HasQuest(d, id) == (\E q \in d.active : q.id = id) \/ (\E h \in d.history : h.id = id)

Started(d, id) == [id |-> id, base |-> [c \in Counted(id) |-> d.metrics[c]], done |-> 0]
Archived(q, claimed) == [id |-> q.id, done |-> q.done, claimed |-> claimed]

\* The templates a day may get: any not drawn lately, or any at all when those are too few.
Draws(d) ==
  LET rest == Dailies \ UNION {d.recent[i] : i \in DOMAIN d.recent}
      pool == IF Cardinality(rest) < DrawCount THEN Dailies ELSE rest
  IN  {s \in SUBSET pool : Cardinality(s) = DrawCount}
Rolls(d) == IF d.refreshed = Day(d) THEN {{}} ELSE Draws(d)

\* Fault: the dailies of the day before stay.
KeepsOver(d) == {}
Over(d) == {q \in d.active : IsDaily(q) /\ q.id.at # Day(d)}

\* A new day: the dailies of another are archived, those drawn are added.
Turned(d, roll) ==
  IF d.refreshed = Day(d) THEN d
  ELSE LET kept == [d EXCEPT !.active = @ \ Over(d), !.history = @ \cup {Archived(q, 0) : q \in Over(d)}]
           new == {t \in roll : ~HasQuest(kept, Id(t, Day(d)))}
       IN  [kept EXCEPT !.active = @ \cup {Started(d, Id(t, Day(d))) : t \in new},
                        !.recent = IF new = {} THEN @
                                   ELSE SubSeq(<<new>> \o @, 1, IF Len(@) < NoRepeatDays THEN Len(@) + 1 ELSE NoRepeatDays),
                        !.refreshed = Day(d)]

Due(d) ==
  LET week == Week(Day(d)) IN
    {Id("story", week)} \cup {Id("boss", w) : w \in {week} \cap DOMAIN BossGoals}
                        \cup (IF d.zombies >= DeadRise THEN {Id("dead_rise", week)} ELSE {})
Offered(d) == [d EXCEPT !.active = @ \cup {Started(d, id) : id \in {i \in Due(d) : ~HasQuest(d, i)}}]

Met(d, q, open) ==
  \A g \in Goals(q.id) :
    CASE g.op = "reduce_backlog_to"  -> open <= g.target
      [] g.op = "keep_zombies_below" -> d.zombies <= g.target
      [] g.op \in Counters           -> d.metrics[g.op] >= q.base[g.op] + g.target
\* Completed once, completed for good.
Marked(d, open) ==
  [d EXCEPT !.active = {[q EXCEPT !.done = IF @ = 0 /\ Met(d, q, open) THEN Day(d) ELSE @] : q \in @}]

Refreshed(d, roll, open) == Marked(Offered(Turned(d, roll)), open)

---------------------------------------------------------------------------
Init ==
  /\ doc \in [ticks : 0..1, metrics : [Counters -> 0..1], zombies : 0..MaxZombies, active : {{}}, history : {{}},
              recent : {<<>>}, refreshed : {0}, claimDay : {0}, streak : {0}]
  /\ doc.ticks < MaxDay /\ backlog \in 0..MaxBacklog /\ drawn = {} /\ shown = {} /\ paid = [i \in Ids |-> 0]

\* Fault: a command acts on the document as it was saved.
OpenedAsSaved == {doc}
\* The document a read answers with and a command acts on.
Opened == {Refreshed(doc, roll, backlog) : roll \in IF drawn # {} THEN {drawn} ELSE Rolls(doc)}

\* GetState
Read ==
  \E roll \in IF drawn # {} THEN {drawn} ELSE Rolls(doc) :
    /\ drawn' = roll /\ shown' = Refreshed(doc, roll, backlog).active
    /\ UNCHANGED <<doc, backlog, paid>>

\* The end of a command: the quests are refreshed once more and the document is saved.
Save(d, open) ==
  /\ \E roll \in Rolls(d) : doc' = Refreshed(d, roll, open)
  /\ backlog' = open /\ drawn' = {} /\ shown' = {}

\* A command that counts: it closes a row, adds one, or clears a zombie stack besides.
Work(c) ==
  \E d \in Opened :
    /\ d.metrics[c] < MaxCount
    /\ c = "complete_task" => backlog > 0
    /\ c = "create_task" => backlog < MaxBacklog
    /\ c = "clear_zombie" => d.zombies > 0
    /\ Save([d EXCEPT !.metrics[c] = @ + 1, !.zombies = IF c = "clear_zombie" THEN @ - 1 ELSE @],
            CASE c = "complete_task" -> backlog - 1 [] c = "create_task" -> backlog + 1 [] OTHER -> backlog)
    /\ UNCHANGED paid

\* One that does not: a zombie stack is removed, a task card collected and its row closed, or neither.
Other ==
  \E d \in Opened :
    /\ \/ d.zombies > 0 /\ Save([d EXCEPT !.zombies = @ - 1], backlog)
       \/ backlog > 0 /\ Save(d, backlog - 1)
       \/ Save(d, backlog)
    /\ UNCHANGED paid

\* world.end_day: overdue rows bring zombies, closed rows of a rule are opened again.
EndDay ==
  \E d \in Opened, zombies \in 0..MaxZombies, open \in 0..MaxBacklog :
    /\ Day(d) < MaxDay /\ zombies >= d.zombies /\ open >= backlog /\ open <= backlog + 1
    /\ Save([d EXCEPT !.ticks = @ + 1, !.zombies = zombies], open)
    /\ UNCHANGED paid

\* Fault: a day without a claim does not end the streak.
NeverBroken(d) == IF d.claimDay = Day(d) THEN d.streak ELSE d.streak + 1
Streak(d) ==
  IF d.claimDay = Day(d) THEN d.streak
  ELSE IF d.claimDay + 1 = Day(d) THEN d.streak + 1
  ELSE 1

Claimed(d, q) ==
  [d EXCEPT !.active = @ \ {q}, !.history = @ \cup {Archived(q, Day(d))},
            !.streak = IF IsDaily(q) THEN Streak(d) ELSE @,
            !.claimDay = IF IsDaily(q) THEN Day(d) ELSE @]
\* quest.claim_reward
Claim(id) ==
  \E d \in Opened : \E q \in d.active :
    /\ q.id = id /\ q.done # 0
    /\ Save(Claimed(d, q), backlog)
    /\ paid' = [paid EXCEPT ![id] = @ + 1]

\* The task list is changed from another page.
Elsewhere ==
  /\ backlog' \in 0..MaxBacklog /\ backlog' <= backlog + 1 /\ backlog <= backlog' + 1
  /\ shown' = {} /\ UNCHANGED <<doc, drawn, paid>>

Next == Read \/ (\E c \in Counters : Work(c)) \/ Other \/ EndDay \/ (\E id \in Ids : Claim(id)) \/ Elsewhere
Spec == Init /\ [][Next]_vars

---------------------------------------------------------------------------
(* Properties *)

Quest == [id : Ids, done : 0..MaxDay, base : UNION {[S -> 0..MaxCount] : S \in SUBSET Counters}]
Entry == [id : Ids, done : 0..MaxDay, claimed : 0..MaxDay]
TypeOK ==
  /\ doc.ticks \in 0..(MaxDay - 1) /\ doc.metrics \in [Counters -> 0..MaxCount] /\ doc.zombies \in 0..MaxZombies
  /\ doc.active \subseteq Quest /\ doc.history \subseteq Entry /\ doc.refreshed \in 0..MaxDay
  /\ doc.recent \in Seq(SUBSET Dailies) /\ Len(doc.recent) <= NoRepeatDays
  /\ {doc.claimDay, doc.streak} \subseteq 0..MaxDay
  /\ backlog \in 0..MaxBacklog /\ drawn \subseteq Dailies /\ paid \in [Ids -> Nat]

IdsUnique(quests) == \A q, r \in quests : q.id = r.id => q = r

\* A quest is on the board once or in its history once, never both, whatever week or day it is
\* offered for again, and its rewards are granted once: when it was claimed, and only if it was.
QuestsPaidOnce ==
  /\ IdsUnique(doc.active) /\ IdsUnique(doc.history)
  /\ \A q \in doc.active, h \in doc.history : q.id # h.id
  /\ \A id \in Ids : paid[id] = IF \E h \in doc.history : h.id = id /\ h.claimed # 0 THEN 1 ELSE 0

DailyClaims == {h.claimed : h \in {e \in doc.history : IsDaily(e)}} \ {0}
OfDay(day) == {q \in doc.active \cup doc.history : IsDaily(q) /\ q.id.at = day}
\* Every day the board was used has its number of dailies, on the board that day and in the history
\* after it, claimed on it if at all; the streak is the run of days with a claim that ends at the
\* last of them; and with templates enough none comes back before its days are over.
DailiesFollowTheDays ==
  /\ \A q \in doc.active : IsDaily(q) => q.id.at = doc.refreshed
  /\ \A h \in doc.history : IsDaily(h) /\ h.claimed # 0 => h.claimed = h.id.at
  /\ \A day \in 1..doc.refreshed : Cardinality(OfDay(day)) \in {0, DrawCount}
  /\ doc.claimDay \in DailyClaims \cup {0} /\ \A day \in DailyClaims : day <= doc.claimDay
  /\ ((doc.claimDay + 1 - doc.streak)..doc.claimDay) \subseteq DailyClaims
  /\ doc.claimDay - doc.streak \notin DailyClaims
  /\ Cardinality(Dailies) >= (NoRepeatDays + 1) * DrawCount =>
       \A q, r \in {e.id : e \in {e \in doc.active \cup doc.history : IsDaily(e)}} :
         q # r /\ q.template = r.template => q.at > r.at + NoRepeatDays \/ r.at > q.at + NoRepeatDays

\* What a read showed is what the next command goes on from, although the read saved nothing:
\* the same quests counting from the same point, and those complete stay complete.
WorkCountsForShown ==
  [][doc' # doc =>
       \A q \in shown :
         \/ \E r \in doc'.active : r.id = q.id /\ r.base = q.base /\ (q.done # 0 => r.done = q.done)
         \/ \E h \in doc'.history : h.id = q.id /\ (q.done # 0 => h.done = q.done)]_vars

\* A story or a boss that is complete was completed in its week.
DoneInTheirWeek ==
  \A q \in doc.active \cup doc.history :
    q.id.template \in {"story", "boss"} /\ q.done # 0 => Week(q.done) = q.id.at

=============================================================================
