------------------------------ MODULE BoardTab ------------------------------
(* One browser tab of the board page (BoardControllerCore, -Data and -Sync): *)
(* which board it shows, what it has seen of it, the copies it keeps in      *)
(* IndexedDB, and the asynchronous functions it has under way.  A document   *)
(* is the set of changes it contains ("marks"); its version counts those     *)
(* that raise nextZ, as the server's State.Version does.                     *)
EXTENDS Naturals, Sequences, FiniteSets

CONSTANTS
  Boards, Default,    \* the boards, and the one of "/board"
  Seed,               \* the mark of board.seed_default
  Gestures,           \* changes the user of this tab makes, each once
  Optimistic,         \* those shown before the server answers (merge, collect)
  Refused,            \* those the server's rules refuse
  Foreign,            \* changes other tabs and users make
  Tasks, BoardOf,     \* task rows labelled for a board, and their board
  Quiet,              \* marks that leave nextZ alone (stack.move, task.set_*)
  Jobs,               \* slots for calls in progress
  MaxSwitches, MaxFailures

Marks == {Seed} \cup Gestures \cup Foreign \cup Tasks
NoDoc == [board |-> "none"]
NoVer == Cardinality(Marks) + 1   \* no version: the command carries no clientVersion

ASSUME BoardsAssumption == Default \in Boards /\ BoardOf \in [Tasks -> Boards]
ASSUME MarksAssumption == IsFiniteSet(Marks)
ASSUME GesturesAssumption == Optimistic \subseteq Gestures /\ Refused \subseteq Gestures

VARIABLES
  active,    \* activeBoardID(), read from the address
  shown,     \* state(): a document, with the version the tab vouches for
  loading, busy,
  cache,     \* IndexedDB: the last loaded document of each board
  jobs,      \* per slot, the frames of an async call, innermost first
  server,    \* the marks of each board's document
  rows,      \* the task rows that exist
  madeOn,    \* the board whose document a gesture was made on
  switches, failures

vars == <<active, shown, loading, busy, cache, jobs, server, rows, madeOn, switches, failures>>

Version(marks) == Cardinality(marks \ Quiet)
Fetched(b) == [board |-> b, marks |-> server[b], ver |-> Version(server[b]), ghosts |-> {}]

---------------------------------------------------------------------------
(* Frames of the call stack of one async function. *)

LoadFrame(b, sync, doc) ==
  [call |-> "load", at |-> "get", board |-> b, sync |-> sync,
   silent |-> doc # NoDoc, doc |-> NoDoc, missing |-> {}]
SendFrame(cmd, b, refresh, retry, doc) ==
  [call |-> "send", at |-> "ask", board |-> b, cmd |-> cmd, refresh |-> refresh,
   retry |-> retry, ver |-> IF doc = NoDoc THEN NoVer ELSE doc.ver, newVer |-> NoVer]
BootFrame(b) == [call |-> "boot", at |-> "cache", board |-> b]

Idle(j) == jobs[j] = <<>>
Top(j) == Head(jobs[j])
Is(j, call, at) == ~Idle(j) /\ Top(j).call = call /\ Top(j).at = at
SetTop(j, frame) == jobs' = [jobs EXCEPT ![j] = <<frame>> \o Tail(@)]
Become(j, frames) == jobs' = [jobs EXCEPT ![j] = frames]
At(j, label) == SetTop(j, [Top(j) EXCEPT !.at = label])

\* loadBoard ended with `doc` shown.  Inside a send it was the refresh, or the reload
\* before the one retry; the retry is returned without await, so the first
\* call's `finally` clears busy while the retry is under way.
LoadEnds(j, doc) ==
  LET rest == Tail(jobs[j]) IN
  /\ Become(j, IF rest # <<>> /\ Head(rest).at = "reloading"
               THEN <<SendFrame(Head(rest).cmd, Head(rest).board, Head(rest).refresh, FALSE, doc)>> \o Tail(rest)
               ELSE <<>>)
  /\ busy' = IF rest = <<>> THEN busy ELSE FALSE
  /\ loading' = IF Top(j).silent THEN loading ELSE FALSE

\* syncBoardProjectTasks places the next missing task, or the board is read once more.
\* sendCommand is called without a board: it takes the one active by then.
SpawnNext(j, load, doc) ==
  IF load.missing = {}
  THEN Become(j, <<[load EXCEPT !.at = "reget"]>>) /\ busy' = FALSE
  ELSE LET t == CHOOSE t \in load.missing : TRUE IN
       /\ Become(j, <<SendFrame(t, active, FALSE, TRUE, doc),
                      [load EXCEPT !.at = "spawn", !.missing = @ \ {t}]>>)
       /\ busy' = TRUE

---------------------------------------------------------------------------
Init ==
  /\ active = Default /\ shown = NoDoc /\ loading = TRUE /\ busy = FALSE
  /\ cache = [b \in Boards |-> NoDoc]
  /\ jobs = [j \in Jobs |-> IF j = 1 THEN <<BootFrame(Default)>> ELSE <<>>]
  /\ server = [b \in Boards |-> {}] /\ rows = {}
  /\ madeOn = [g \in Gestures |-> "nowhere"]
  /\ switches = 0 /\ failures = 0

tab   == <<active, shown, loading, busy, cache, madeOn, switches>>
world == <<server, rows, failures>>

(* The effect that follows a new address. *)
Boot(b, j) ==
  /\ switches < MaxSwitches /\ b # active /\ Idle(j)
  /\ active' = b /\ switches' = switches + 1
  /\ Become(j, <<BootFrame(b)>>)
  /\ UNCHANGED <<loading, busy, cache, madeOn, world>>

switchBoard(b, j) == Boot(b, j) /\ shown' = NoDoc
\* The browser's Back changes the address alone.
GoBack(b, j) == Boot(b, j) /\ UNCHANGED shown

\* A failed read of IndexedDB is an empty cache.
CachedBoardState(b) == {cache[b], NoDoc}

\* The cached document is shown at once, and the board is loaded.
CacheAnswers(j) ==
  /\ Is(j, "boot", "cache")
  /\ \E c \in CachedBoardState(Top(j).board) :
       /\ shown' = c /\ loading' = (c = NoDoc)
       /\ Become(j, <<LoadFrame(Top(j).board, TRUE, c)>>)
  /\ UNCHANGED <<active, busy, cache, madeOn, switches, world>>

\* Fault: the timer only loads a board that failed to load.
PollBlank(j) ==
  /\ shown = NoDoc /\ Idle(j) /\ Become(j, <<LoadFrame(active, FALSE, shown)>>)
  /\ loading' = TRUE
  /\ UNCHANGED <<active, shown, busy, cache, madeOn, switches, world>>

Poll(j) ==
  /\ Idle(j) /\ Become(j, <<LoadFrame(active, FALSE, shown)>>)
  /\ loading' = (loading \/ shown = NoDoc)
  /\ UNCHANGED <<active, shown, busy, cache, madeOn, switches, world>>

Refresh(j) ==
  /\ Idle(j) /\ switches < MaxSwitches /\ switches' = switches + 1
  /\ Become(j, <<LoadFrame(active, TRUE, shown)>>)
  /\ loading' = (loading \/ shown = NoDoc)
  /\ UNCHANGED <<active, shown, busy, cache, madeOn, world>>

---------------------------------------------------------------------------
(* loadBoard *)

ServeGet(j) ==
  /\ \E at \in {"get", "again", "reget"} :
       /\ Is(j, "load", at)
       /\ SetTop(j, [Top(j) EXCEPT !.doc = Fetched(Top(j).board),
                       !.at = CASE at = "get" -> "got" [] at = "again" -> "fresh" [] at = "reget" -> "synced"])
  /\ UNCHANGED <<tab, world>>

\* board.seed_default: refused, and the refusal ignored, on a board that has stacks.
ServeSeed(j) ==
  /\ Is(j, "load", "seed")
  /\ server' = [server EXCEPT ![Top(j).board] = IF @ = {} THEN {Seed} ELSE @]
  /\ At(j, "again")
  /\ UNCHANGED <<tab, rows, failures>>

\* Fault: an empty board is shown as it is.
NeverSeeds(doc) == FALSE

NeedsSeed(doc) == doc.marks = {}

GotEmptyBoard(j) ==
  /\ Is(j, "load", "got") /\ NeedsSeed(Top(j).doc)
  /\ At(j, "seed")
  /\ UNCHANGED <<tab, world>>

\* Fault: the document is kept under the board active by now.
FinishLoadUnderActive(j, load) ==
  /\ cache' = [cache EXCEPT ![active] = load.doc]
  /\ LoadEnds(j, shown')

\* The answer is shown whatever board is active by now, and kept under its own.
FinishLoad(j, load) ==
  /\ cache' = [cache EXCEPT ![load.board] = load.doc]
  /\ LoadEnds(j, shown')

ShowLoaded(j) ==
  /\ Is(j, "load", "fresh") \/ (Is(j, "load", "got") /\ ~NeedsSeed(Top(j).doc))
  /\ shown' = Top(j).doc
  /\ IF Top(j).sync
     THEN At(j, "list") /\ UNCHANGED <<loading, busy, cache>>
     ELSE FinishLoad(j, Top(j))
  /\ UNCHANGED <<active, madeOn, switches, world>>

taskIDsOnBoard(doc) == doc.marks \cap Tasks

\* The open rows of the load's board that have no card on it.
MissingRows(load) == {t \in rows : BoardOf[t] = load.board} \ taskIDsOnBoard(load.doc)

ServeList(j) ==
  /\ Is(j, "load", "list")
  /\ SetTop(j, [Top(j) EXCEPT !.at = "listed", !.missing = MissingRows(Top(j))])
  /\ UNCHANGED <<tab, world>>

Listed(j) ==
  /\ Is(j, "load", "listed") /\ UNCHANGED <<active, shown, madeOn, switches, world>>
  /\ IF Top(j).missing = {}
     THEN FinishLoad(j, Top(j))
     ELSE SpawnNext(j, Top(j), shown) /\ UNCHANGED <<loading, cache>>

Synced(j) ==
  /\ Is(j, "load", "synced")
  /\ shown' = Top(j).doc /\ FinishLoad(j, Top(j))
  /\ UNCHANGED <<active, madeOn, switches, world>>

\* A failed read ends the load; one of the task sync leaves the document it had.
LoadFails(j) ==
  /\ failures < MaxFailures /\ failures' = failures + 1
  /\ \/ /\ \E at \in {"get", "seed", "again"} : Is(j, "load", at)
        /\ LoadEnds(j, shown) /\ UNCHANGED <<shown, cache>>
     \/ /\ \E at \in {"list", "reget"} : Is(j, "load", at)
        /\ UNCHANGED shown /\ FinishLoad(j, Top(j))
  /\ UNCHANGED <<active, madeOn, switches, server, rows>>

---------------------------------------------------------------------------
(* sendCommand *)

Gesture(g, j) ==
  /\ madeOn[g] = "nowhere" /\ Idle(j) /\ shown # NoDoc /\ ~busy
  /\ madeOn' = [madeOn EXCEPT ![g] = shown.board]
  /\ shown' = IF g \in Optimistic THEN [shown EXCEPT !.ghosts = @ \cup {g}] ELSE shown
  /\ busy' = TRUE
  /\ Become(j, <<SendFrame(g, active, TRUE, TRUE, shown)>>)
  /\ UNCHANGED <<active, loading, cache, switches, world>>

\* Stack identifiers are unique, so another board knows nothing of a gesture's stacks.
Refuses(cmd, b) ==
  \/ cmd \in Refused \cup server[b]
  \/ cmd \in Gestures /\ madeOn[cmd] # b

ServeSend(j) ==
  /\ Is(j, "send", "ask") /\ UNCHANGED <<tab, rows, failures>>
  /\ LET s == Top(j)  b == s.board IN
     \/ /\ s.ver \notin {NoVer, Version(server[b])}
        /\ At(j, "conflict") /\ UNCHANGED server
     \/ /\ s.ver \in {NoVer, Version(server[b])}
        /\ IF Refuses(s.cmd, b) THEN At(j, "refused") /\ UNCHANGED server
           ELSE /\ server' = [server EXCEPT ![b] = @ \cup {s.cmd}]
                /\ SetTop(j, [s EXCEPT !.at = "ok", !.newVer = Version(server'[b])])

\* A load inside the send on top of slot j, which waits at `label`.
LoadWithin(j, label, doc) ==
  /\ Become(j, <<LoadFrame(Top(j).board, FALSE, doc), [Top(j) EXCEPT !.at = label]>> \o Tail(jobs[j]))
  /\ loading' = (loading \/ doc = NoDoc)
  /\ UNCHANGED <<busy, cache>>

SendSucceeds(j) ==
  /\ Is(j, "send", "ok")
  /\ shown' = IF shown = NoDoc THEN NoDoc ELSE [shown EXCEPT !.ver = Top(j).newVer]
  /\ IF Top(j).refresh
     THEN LoadWithin(j, "refreshing", shown')
     ELSE SpawnNext(j, jobs[j][2], shown') /\ UNCHANGED <<loading, cache>>
  /\ UNCHANGED <<active, madeOn, switches, world>>

SendConflicts(j) ==
  /\ Is(j, "send", "conflict") /\ Top(j).retry
  /\ LoadWithin(j, "reloading", shown)
  /\ UNCHANGED <<active, shown, madeOn, switches, world>>

\* The error reaches the user, or ends the task sync the send belongs to.
SendThrows(j) ==
  /\ UNCHANGED <<active, shown, madeOn, switches, server, rows>>
  /\ busy' = FALSE
  /\ \/ /\ Is(j, "send", "refused") \/ (Is(j, "send", "conflict") /\ ~Top(j).retry)
        /\ UNCHANGED failures
     \/ /\ Is(j, "send", "ask") \/ Is(j, "send", "ok")
        /\ failures < MaxFailures /\ failures' = failures + 1
  /\ Len(jobs[j]) = 1 \/ Top(j).at # "refused"
  /\ Become(j, <<>>)
  /\ IF Len(jobs[j]) = 1 THEN UNCHANGED <<loading, cache>>
     ELSE /\ cache' = [cache EXCEPT ![jobs[j][2].board] = jobs[j][2].doc]
          /\ loading' = IF jobs[j][2].silent THEN loading ELSE FALSE

\* "already on the board" is no error.
SpawnAlreadyDone(j) ==
  /\ Is(j, "send", "refused") /\ Len(jobs[j]) = 2
  /\ SpawnNext(j, jobs[j][2], shown)
  /\ UNCHANGED <<active, shown, loading, cache, madeOn, switches, world>>

---------------------------------------------------------------------------
(* Other tabs and users *)

ForeignCommand(f, b) ==
  /\ server[b] # {} /\ \A c \in Boards : f \notin server[c]
  /\ server' = [server EXCEPT ![b] = @ \cup {f}]
  /\ UNCHANGED <<tab, jobs, rows, failures>>

RowCreated(t) ==
  /\ t \notin rows /\ rows' = rows \cup {t}
  /\ UNCHANGED <<tab, jobs, server, failures>>

Step(j) ==
  \/ CacheAnswers(j) \/ ServeGet(j) \/ ServeSeed(j) \/ GotEmptyBoard(j) \/ ShowLoaded(j)
  \/ ServeList(j) \/ Listed(j) \/ Synced(j) \/ ServeSend(j) \/ SendSucceeds(j)
  \/ SendConflicts(j) \/ SendThrows(j) \/ SpawnAlreadyDone(j)

Next ==
  \/ \E j \in Jobs : Step(j) \/ Poll(j) \/ Refresh(j) \/ LoadFails(j)
  \/ \E j \in Jobs, b \in Boards : switchBoard(b, j) \/ GoBack(b, j)
  \/ \E j \in Jobs, g \in Gestures : Gesture(g, j)
  \/ \E f \in Foreign, b \in Boards : ForeignCommand(f, b)
  \/ \E t \in Tasks : RowCreated(t)

\* Calls are answered or fail, and the two-minute timer fires for ever.
Fairness ==
  /\ \A j \in Jobs : WF_vars(Step(j))
  /\ WF_vars(\E j \in Jobs : Poll(j))

Spec == Init /\ [][Next]_vars
FairSpec == Spec /\ Fairness

---------------------------------------------------------------------------
Docs == {NoDoc} \cup [board : Boards, marks : SUBSET Marks, ver : 0..Cardinality(Marks), ghosts : SUBSET Gestures]

(* The shown and the cached documents are documents, and every frame of a    *)
(* call names a board (the signals of Core:150-154).                         *)
TypeOK ==
  /\ active \in Boards /\ shown \in Docs /\ loading \in BOOLEAN /\ busy \in BOOLEAN
  /\ cache \in [Boards -> Docs] /\ server \in [Boards -> SUBSET Marks] /\ rows \subseteq Tasks
  /\ \A j \in Jobs : Len(jobs[j]) <= 3 /\ \A i \in DOMAIN jobs[j] : jobs[j][i].board \in Boards

(* What IndexedDB keeps for a board is a document the server had of that     *)
(* very board: no optimistic gesture, no other board and no borrowed version *)
(* reaches it, however loads, switches and failures interleave (Data:634).   *)
CacheKeepsBoards ==
  \A b \in Boards : cache[b] # NoDoc =>
     /\ cache[b].board = b /\ cache[b].ghosts = {}
     /\ cache[b].marks \subseteq server[b] /\ cache[b].ver = Version(cache[b].marks)

(* Apart from optimistic gestures the tab shows nothing its board's server   *)
(* document never contained, and a board that is shown is never unseeded.    *)
ShowsServerContent ==
  /\ TypeOK
  /\ shown # NoDoc => shown.marks # {} /\ shown.marks \subseteq server[shown.board]

(* However calls, switches and failures interleave, once the user and the    *)
(* others stop, the polls of Sync:170-178 ("reconcile with server every 2    *)
(* minutes") leave the tab idle, showing what the server has of the active   *)
(* board: old answers, ghosts and borrowed versions are gone.                *)
Reconciles == <>[](shown = Fetched(active) /\ ~loading /\ ~busy)
=============================================================================
