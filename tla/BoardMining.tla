---------------------------- MODULE BoardMining ----------------------------
(* The automatic gathering of one browser tab (BoardControllerMining): a      *)
(* session per stack that holds a villager and a resource, one command for    *)
(* each cycle it completes, and the answers of those commands.  The server's  *)
(* side is cmdResourceGather as far as charges, stamina and versions go.      *)
EXTENDS Naturals, Sequences, FiniteSets

CONSTANTS
  Stacks,
  First,        \* per stack, the durations of the charges it starts with, in ticks
  Slots,        \* commands under way at the same time
  Others,       \* the changes other users may make, a subset of OtherKinds
  MaxAge,       \* ticks after which a session's age no longer matters
  MaxChanges, MaxFailures,
  None

OtherKinds == {"stamina", "refill", "remove"}
Document == [ver : Nat, charges : [Stacks -> Seq(1..MaxAge)], gone : SUBSET Stacks, rested : [Stacks -> BOOLEAN]]
Session == [dur : 1..MaxAge, age : 0..MaxAge]
Stages == {"sent", "done", "conflict", "notFound", "failed", "refresh", "refreshed", "reload", "reloaded"}
GatherCall == [stack : Stacks, next : 1..MaxAge, ver : Nat, at : Stages, doc : Document \cup {None}]
ASSUME MiningAssumption ==
  /\ First \in [Stacks -> Seq(1..MaxAge)] /\ Others \subseteq OtherKinds
  /\ MaxAge \in Nat \ {0} /\ MaxChanges \in Nat /\ MaxFailures \in Nat
  /\ None \notin Document /\ None \notin Session /\ None \notin GatherCall

VARIABLES
  server,     \* ver; per stack the charges left, gone, and whether the villager has stamina
  seen,       \* state(): the document shown, with the version it vouches for
  sessions,   \* per stack None or its duration and the ticks since startedAt
  completed,  \* miningCompletedCyclesByStackID, 0 where there is no entry
  pending,    \* miningPendingByStackID
  busy,
  calls,      \* per slot, None or a gather command and where it stands
  poll,       \* None, or the document of a poll that was served
  credit,     \* per stack, cycles worked less gathers applied, as far as MaxAge + 1; 0 is in debt
  doubled,    \* two gathers of one stack were under way at once
  changes, failures

miningvars == <<server, seen, sessions, completed, pending, busy, calls, poll, credit, doubled,
          changes, failures>>

---------------------------------------------------------------------------
\* stackHasKind villager and resource, a villager with stamina, a duration.
Workable(doc, s) == doc.charges[s] # <<>> /\ doc.rested[s] /\ s \notin doc.gone

\* An unknown or non-positive gatherTimeS is 6 s, others are clamped to 1..180 s:
\* a duration is always positive.  The first resource card of the stack counts.
miningDurationMsForStack(doc, s) == Head(doc.charges[s])

SessionOf(doc, s) ==
  IF ~Workable(doc, s) THEN None
  ELSE LET d == miningDurationMsForStack(doc, s) IN
       IF sessions[s] # None /\ sessions[s].dur = d THEN sessions[s] ELSE [dur |-> d, age |-> 0]

\* The second effect: what is kept of stacks without a session.
PrunedCycles(kept, cycles) == [s \in Stacks |-> IF s \in kept THEN cycles[s] ELSE 0]

Active(now) == {s \in Stacks : now[s] # None}

\* setState(doc) and the two effects that follow it; `ended` leaves its `finally` behind.
Show(doc, ended, advance) ==
  LET now == [s \in Stacks |-> SessionOf(doc, s)]
      kept == PrunedCycles(Active(now), completed) IN
  /\ seen' = doc /\ sessions' = now
  /\ pending' = (pending \cap Active(now)) \ {c.stack : c \in ended}
  /\ completed' = IF advance THEN [s \in Stacks |->
                    IF \E c \in ended : c.stack = s THEN (CHOOSE c \in ended : TRUE).next ELSE kept[s]]
                  ELSE kept

\* Fault: a whole duration is enough.
DueAlways(s) == sessions[s] # None /\ s \notin pending /\ sessions[s].age >= sessions[s].dur

\* A stack that has a whole cycle more than it was paid for, and no command out.
CycleDue(s) ==
  /\ sessions[s] # None /\ s \notin pending
  /\ sessions[s].age >= sessions[s].dur
  /\ sessions[s].age \div sessions[s].dur > completed[s]

Call(s) == [stack |-> s, next |-> completed[s] + 1, ver |-> seen.ver, at |-> "sent", doc |-> None]

---------------------------------------------------------------------------
MiningInit ==
  /\ server = [ver |-> 0, charges |-> First, gone |-> {}, rested |-> [s \in Stacks |-> TRUE]]
  /\ seen = server
  /\ sessions = [s \in Stacks |-> IF First[s] = <<>> THEN None ELSE [dur |-> Head(First[s]), age |-> 0]]
  /\ completed = [s \in Stacks |-> 0] /\ pending = {} /\ busy = FALSE
  /\ calls = [j \in Slots |-> None] /\ poll = None
  /\ credit = [s \in Stacks |-> 1] /\ doubled = FALSE
  /\ changes = 0 /\ failures = 0

Effects == <<seen, sessions, completed, pending>>
History == <<doubled, changes, failures>>

\* setMiningTickMs: the elapsed time of every session grows.
Tick ==
  /\ \E s \in Stacks : sessions[s] # None /\ sessions[s].age < MaxAge
  /\ sessions' = [s \in Stacks |->
       IF sessions[s] = None \/ sessions[s].age = MaxAge THEN sessions[s]
       ELSE [sessions[s] EXCEPT !.age = @ + 1]]
  /\ credit' = [s \in Stacks |->
       IF sessions'[s] # sessions[s] /\ sessions'[s].age % sessions'[s].dur = 0 /\ credit[s] <= MaxAge
       THEN credit[s] + 1 ELSE credit[s]]
  /\ UNCHANGED <<server, seen, completed, pending, busy, calls, poll, History>>

(* The third effect: every due stack sends its gather, all with the version  *)
(* that is shown now, before the effect sees busy again.                     *)
Gather ==
  LET due == {s \in Stacks : CycleDue(s)} IN
  /\ ~busy /\ due # {}
  /\ \E place \in [due -> Slots] :
       /\ \A s \in due : calls[place[s]] = None
       /\ \A s, t \in due : place[s] = place[t] => s = t
       /\ calls' = [j \in Slots |->
            IF \E s \in due : place[s] = j THEN Call(CHOOSE s \in due : place[s] = j) ELSE calls[j]]
  /\ doubled' = (doubled \/ \E j \in Slots : calls[j] # None /\ calls[j].stack \in due)
  /\ pending' = pending \cup due /\ busy' = TRUE
  /\ UNCHANGED <<server, seen, sessions, completed, poll, credit, changes, failures>>

---------------------------------------------------------------------------
(* The server *)

Is(j, at) == calls[j] # None /\ calls[j].at = at
Put(j, call) == calls' = [calls EXCEPT ![j] = call]
At(j, at) == Put(j, [calls[j] EXCEPT !.at = at])

CmdRefuses(s) == s \in server.gone \/ server.charges[s] = <<>>

cmdResourceGather(s) ==
  server' = [server EXCEPT !.ver = @ + 1, !.charges[s] = Tail(@)]

Serve(j) ==
  /\ Is(j, "sent")
  /\ LET s == calls[j].stack IN
     \/ /\ calls[j].ver # server.ver /\ At(j, "conflict")
        /\ UNCHANGED <<server, credit>>
     \/ /\ calls[j].ver = server.ver /\ CmdRefuses(s)
        /\ At(j, IF s \in server.gone THEN "notFound" ELSE "failed")
        /\ UNCHANGED <<server, credit>>
     \/ /\ calls[j].ver = server.ver /\ ~CmdRefuses(s)
        /\ cmdResourceGather(s)
        /\ credit' = [credit EXCEPT ![s] = IF @ = 0 THEN 0 ELSE @ - 1]
        /\ Put(j, [calls[j] EXCEPT !.at = "done", !.ver = server.ver + 1])
  /\ UNCHANGED <<Effects, busy, poll, History>>

\* A request that never arrived.
RequestLost(j) ==
  /\ failures < MaxFailures /\ failures' = failures + 1
  /\ Is(j, "sent") /\ At(j, "failed")
  /\ UNCHANGED <<server, Effects, busy, poll, credit, doubled, changes>>

---------------------------------------------------------------------------
(* The tab *)

\* sendCommand: the answer's version is written, and the board is loaded.
Answered(j) ==
  /\ Is(j, "done") /\ At(j, "refresh")
  /\ seen' = [seen EXCEPT !.ver = calls[j].ver]
  /\ UNCHANGED <<server, sessions, completed, pending, busy, poll, credit, History>>

\* A conflict is not retried: busy is cleared and the board is loaded silently.
Conflicted(j) ==
  /\ Is(j, "conflict") /\ At(j, "reload") /\ busy' = FALSE
  /\ UNCHANGED <<server, Effects, poll, credit, History>>

ServeGet(j) ==
  /\ \/ Is(j, "refresh") /\ Put(j, [calls[j] EXCEPT !.at = "refreshed", !.doc = server])
     \/ Is(j, "reload") /\ Put(j, [calls[j] EXCEPT !.at = "reloaded", !.doc = server])
  /\ UNCHANGED <<server, Effects, busy, poll, credit, History>>

\* The refresh of a gather that went through is shown, and its cycle counted.
GatherShown(j) ==
  /\ Is(j, "refreshed") /\ busy' = FALSE /\ Put(j, None)
  /\ Show(calls[j].doc, {calls[j]}, TRUE)
  /\ UNCHANGED <<server, poll, credit, History>>

\* After a conflict the board as it is now is shown, and the cycle stays due.
Reloaded(j) ==
  /\ Is(j, "reloaded") /\ Put(j, None)
  /\ Show(calls[j].doc, {calls[j]}, FALSE)
  /\ UNCHANGED <<server, busy, poll, credit, History>>

\* Fault: pending is cleared only when the cycle counts.
FinallyIfCounted(j, advance) ==
  /\ Put(j, None) /\ pending' = IF advance THEN pending \ {calls[j].stack} ELSE pending
  /\ completed' = IF advance THEN [completed EXCEPT ![calls[j].stack] = calls[j].next] ELSE completed

\* loadBoard swallows its failure: the caller goes on with what was shown before.
Finally(j, advance) ==
  /\ Put(j, None) /\ pending' = pending \ {calls[j].stack}
  /\ completed' = IF advance THEN [completed EXCEPT ![calls[j].stack] = calls[j].next] ELSE completed

LoadFails(j) ==
  /\ failures < MaxFailures /\ failures' = failures + 1
  /\ \/ Is(j, "refresh") /\ Finally(j, TRUE) /\ busy' = FALSE
     \/ Is(j, "reload") /\ Finally(j, FALSE) /\ UNCHANGED busy
  /\ UNCHANGED <<server, seen, sessions, poll, credit, doubled, changes>>

\* "resource stack not found": the session is dropped, and the cycle counted.
NotFound(j) ==
  LET s == calls[j].stack
      now == [sessions EXCEPT ![s] = None] IN
  /\ Is(j, "notFound") /\ busy' = FALSE /\ Put(j, None)
  /\ sessions' = now /\ pending' = (pending \cap Active(now)) \ {s}
  /\ completed' = [PrunedCycles(Active(now), completed) EXCEPT ![s] = calls[j].next]
  /\ UNCHANGED <<server, seen, poll, credit, History>>

\* Any other error: the cycle is due again, with the next tick.
Failed(j) ==
  /\ Is(j, "failed") /\ busy' = FALSE /\ Finally(j, FALSE)
  /\ UNCHANGED <<server, seen, sessions, poll, credit, History>>

\* The answer of a gather that was applied does not arrive.
AnswerLost(j) ==
  /\ failures < MaxFailures /\ failures' = failures + 1
  /\ Is(j, "done") /\ At(j, "failed")
  /\ UNCHANGED <<server, Effects, busy, poll, credit, doubled, changes>>

PollServed ==
  /\ poll = None /\ seen # server /\ poll' = server
  /\ UNCHANGED <<server, Effects, busy, calls, credit, History>>

PollShown ==
  /\ poll # None /\ poll' = None
  /\ Show(poll, {}, FALSE)
  /\ UNCHANGED <<server, busy, calls, credit, History>>

---------------------------------------------------------------------------
(* Other tabs and users: a zombie tires a villager or food rests it, a       *)
(* resource is added to the stack, the stack is merged away.                  *)
OthersChange(kind, s) ==
  /\ kind \in Others /\ changes < MaxChanges /\ changes' = changes + 1 /\ s \notin server.gone
  /\ \/ /\ kind = "stamina"
        /\ server' = [server EXCEPT !.ver = @ + 1, !.rested[s] = ~@]
     \/ /\ kind = "refill" /\ server.charges[s] = <<>>
        /\ server' = [server EXCEPT !.ver = @ + 1, !.charges[s] = First[s]]
     \/ /\ kind = "remove"
        /\ server' = [server EXCEPT !.ver = @ + 1, !.gone = @ \cup {s}]
  /\ UNCHANGED <<Effects, busy, calls, poll, credit, doubled, failures>>

Step(j) ==
  \/ Serve(j) \/ Answered(j) \/ Conflicted(j) \/ ServeGet(j)
  \/ GatherShown(j) \/ Reloaded(j) \/ NotFound(j) \/ Failed(j)
Loss(j) == RequestLost(j) \/ AnswerLost(j) \/ LoadFails(j)

MiningNext ==
  \/ Tick \/ Gather \/ PollServed \/ PollShown
  \/ \E j \in Slots : Step(j) \/ Loss(j)
  \/ \E s \in Stacks, kind \in Others : OthersChange(kind, s)

MiningSpec == MiningInit /\ [][MiningNext]_miningvars
MiningFairSpec ==
  /\ MiningSpec /\ WF_miningvars(Tick) /\ WF_miningvars(Gather) /\ WF_miningvars(PollServed) /\ WF_miningvars(PollShown)
  /\ \A j \in Slots : WF_miningvars(Step(j))

---------------------------------------------------------------------------
(* A session has a duration, what the effects keep is of stacks, and the tab  *)
(* never vouches for a version the server has not reached.                    *)
MiningTypeOK ==
  /\ sessions \in [Stacks -> Session \cup {None}]
  /\ completed \in [Stacks -> 0..MaxAge] /\ pending \subseteq Stacks /\ busy \in BOOLEAN
  /\ seen.ver <= server.ver

(* With every answer arriving, a tab is never paid more gathers than its      *)
(* sessions completed cycles, whatever conflicts, polls and changes of other  *)
(* users come between, until a stack whose session another user has ended and *)
(* renewed is gathered again before its first gather is answered              *)
(* (BoardControllerMining: completedCycles, pending).                         *)
PaidWhatItEarned == MiningTypeOK /\ (failures = 0 /\ ~doubled => \A s \in Stacks : credit[s] > 0)

(* A stack that can be worked is worked until it is empty or its villager     *)
(* tired: no answer, conflict, failure or change leaves a session waiting for *)
(* ever on a pending flag, on busy or on cycles it has to repeat.             *)
MinesOut == \A s \in Stacks : <>[](~Workable(server, s))
=============================================================================
