----------------------------- MODULE ProfilePage -----------------------------
(* The profile page of one browser tab (ProfileRoute) and the calendar        *)
(* service behind it (calendar/service.go, repository.go): the connections,   *)
(* one for each account and kept when deleted, the consents that make them,   *)
(* and the calls of the page.  Inside the application a page that is left     *)
(* still goes on; when the browser leaves for the provider only what the      *)
(* service has been sent does.                                                *)
EXTENDS Naturals, FiniteSets

CONSTANTS
  Accounts,      \* calendar accounts
  Boards,        \* whose quests the page can show
  Default,       \* the board of an address without one
  Consents,      \* bound: authorizations begun, numbers in order
  MaxFailures,   \* bound: lost calls
  None

VARIABLES
  held,      \* per account None, or its row: deleted, the number of its last sync, expired, refresh token
  consents,  \* per consent "none", "begun" or "used"
  away,      \* the consent the browser has gone to the provider for, or None
  page,      \* what the page shows, and its busy flags
  calls,     \* the calls under way
  stale,     \* whether calls crossed, were lost or belong to a page that was left: the list may be old
  misplaced, \* whether board loads overlapped or failed: the quests may be of another board
  connected, \* per consent how often it made or renewed a connection
  failures

service == <<held, consents, connected>>
tab == <<away, page, calls>>
excuses == <<stale, misplaced>>
vars == <<service, tab, excuses, failures>>

---------------------------------------------------------------------------
Held == {a \in Accounts : held[a] # None /\ ~held[a].deleted}
\* ListConnections, as far as the page shows it.
Listing == [a \in Accounts |-> IF a \in Held THEN held[a].synced + 1 ELSE 0]
Nothing == [a \in Accounts |-> 0]

Call(op, who) == [op |-> op, who |-> who, at |-> "sent", doc |-> None, left |-> {}, shown |-> TRUE]
Answered(c, status, doc) == (calls \ {c}) \cup {[c EXCEPT !.at = status, !.doc = doc]}
Ended(c, op) == c \in calls /\ c.op = op /\ c.at \in {"done", "late", "failed"}
\* An answer that was read before a later change is late.
Overtaken(cs) == {IF c.op \in {"base", "list"} /\ c.at = "done" THEN [c EXCEPT !.at = "late"] ELSE c : c \in cs}
Writing(cs) == {c \in cs : c.op \in {"sync", "remove"}}

Page(board) == [open |-> TRUE, loading |-> TRUE, list |-> Nothing, active |-> board, quests |-> None,
                syncing |-> None, removing |-> None, connecting |-> FALSE]
NoPage == [Page(Default) EXCEPT !.open = FALSE, !.loading = FALSE]
Hidden(cs) == {[c EXCEPT !.shown = FALSE] : c \in cs}
\* A page that comes after others finds their changes still under way.
Opens(board, rest, next) ==
  /\ page' = Page(board) /\ calls' = rest \cup {Call("base", next), Call("board", board)}
  /\ stale' = (Writing(rest) # {}) /\ misplaced' = FALSE

Init ==
  /\ held \in [Accounts -> {None} \cup [deleted : {FALSE}, synced : {0}, expired : BOOLEAN, refresh : BOOLEAN]]
  /\ consents = [k \in Consents |-> "none"] /\ connected = [k \in Consents |-> 0]
  /\ away = None /\ page = Page(Default) /\ calls = {Call("base", None), Call("board", Default)}
  /\ stale = FALSE /\ misplaced = FALSE /\ failures = 0

---------------------------------------------------------------------------
(* What the user does *)

switchBoard(b) ==
  /\ page.open /\ b # page.active /\ page' = [page EXCEPT !.active = b]
  /\ calls' = calls \cup {Call("board", b)}
  /\ misplaced' = (\E c \in calls : c.op = "board" /\ c.shown)
  /\ UNCHANGED <<service, away, stale, failures>>

Ready == page.open /\ ~page.loading
Listed == {a \in Accounts : page.list[a] # 0}

\* "Sync all" minds no connection that is being removed, the other buttons do.
syncCalendar(key) ==
  /\ Ready /\ page.syncing = None
  /\ IF key = "all" THEN Listed # {} ELSE key \in Listed /\ page.removing = None
  /\ page' = [page EXCEPT !.syncing = key] /\ calls' = calls \cup {Call("sync", key)}
  /\ stale' = (stale \/ page.removing # None)
  /\ UNCHANGED <<service, away, misplaced, failures>>

\* Fault: a connection can be removed while calendars are synchronised.
OffersRemovalAlways(a) == page.removing = None
OffersRemoval(a) == page.removing = None /\ page.syncing = None
disconnectCalendar(a) ==
  /\ Ready /\ a \in Listed /\ OffersRemoval(a)
  /\ page' = [page EXCEPT !.removing = a] /\ calls' = calls \cup {Call("remove", a)}
  /\ UNCHANGED <<service, away, excuses, failures>>

startCalendarConnect ==
  /\ Ready /\ ~page.connecting /\ (\E k \in Consents : consents[k] = "none")
  /\ page' = [page EXCEPT !.connecting = TRUE] /\ calls' = calls \cup {Call("connect", None)}
  /\ UNCHANGED <<service, away, excuses, failures>>

\* Another page of the application, and back.
Leave ==
  /\ page.open /\ page' = NoPage /\ calls' = Hidden(calls)
  /\ UNCHANGED <<service, away, excuses, failures>>
Return(b) ==
  /\ ~page.open /\ away = None /\ Opens(b, calls, None)
  /\ UNCHANGED <<service, away, failures>>

---------------------------------------------------------------------------
(* The calendar service *)

ServeRead(c) ==
  /\ c \in calls /\ c.at = "sent" /\ c.op \in {"base", "list", "board"}
  /\ calls' = Answered(c, "done", IF c.op = "board" THEN None ELSE Listing)
  /\ UNCHANGED <<service, away, page, excuses, failures>>

\* A change that no page waits for leaves the list of another one old.
Orphaned(c) == stale' = (stale \/ ~c.shown)

\* A connection is looked for among those that are not deleted, for every write.
DeleteConnection(c) ==
  /\ c \in calls /\ c.op = "remove" /\ c.at = "sent"
  /\ IF c.who \in Held
     THEN /\ held' = [held EXCEPT ![c.who].deleted = TRUE]
          /\ calls' = Overtaken(Answered(c, "done", None))
     ELSE held' = held /\ calls' = Answered(c, "failed", None)
  /\ Orphaned(c)
  /\ UNCHANGED <<consents, connected, away, page, misplaced, failures>>

Target(a) == [account |-> a, expired |-> held[a].expired, refresh |-> held[a].refresh, ready |-> FALSE]
\* The connections are listed, and then read one by one: one that is gone by then fails them all.
SyncLists(c) ==
  /\ c \in calls /\ c.op = "sync" /\ c.at = "sent"
  /\ calls' = (calls \ {c}) \cup {[c EXCEPT !.at = "listed", !.left = IF c.who = "all" THEN Held ELSE {c.who}]}
  /\ UNCHANGED <<service, away, page, excuses, failures>>
SyncReads(c) ==
  /\ c \in calls /\ c.op = "sync" /\ c.at = "listed"
  /\ calls' = IF c.left # {} /\ c.left \subseteq Held
              THEN (calls \ {c}) \cup {[c EXCEPT !.at = "working", !.left = {Target(a) : a \in c.left}]}
              ELSE (calls \ {c}) \cup {[c EXCEPT !.at = "failed", !.left = {}]}
  /\ UNCHANGED <<service, away, page, excuses, failures>>

\* ensureAccessToken: an expired one needs a refresh token, the provider and the row.
TokenReady(c, t) ==
  /\ c \in calls /\ c.at = "working" /\ t \in c.left /\ \A u \in c.left : ~u.ready
  /\ t.expired => t.refresh /\ t.account \in Held
  /\ held' = IF t.expired THEN [held EXCEPT ![t.account].expired = FALSE] ELSE held
  /\ calls' = (calls \ {c}) \cup {[c EXCEPT !.left = (@ \ {t}) \cup {[t EXCEPT !.ready = TRUE]}]}
  /\ UNCHANGED <<consents, connected, away, page, excuses, failures>>
\* The events were pulled; MarkConnectionSynced may find no row, which is ignored.
SyncMarks(c, t) ==
  /\ c \in calls /\ c.at = "working" /\ t \in c.left /\ t.ready
  /\ held' = IF t.account \in Held THEN [held EXCEPT ![t.account].synced = @ + 1] ELSE held
  /\ calls' = Overtaken((calls \ {c}) \cup {[c EXCEPT !.left = @ \ {t}]})
  /\ Orphaned(c)
  /\ UNCHANGED <<consents, connected, away, page, misplaced, failures>>
\* What goes wrong for one connection is told in the result, and the next one's turn comes.
SyncSkips(c, t) ==
  /\ c \in calls /\ c.at = "working" /\ t \in c.left /\ \A u \in c.left : u = t \/ ~u.ready
  /\ calls' = (calls \ {c}) \cup {[c EXCEPT !.left = @ \ {t}]}
  /\ UNCHANGED <<service, away, page, excuses, failures>>
SyncEnds(c) ==
  /\ c \in calls /\ c.at = "working" /\ c.left = {} /\ calls' = Answered(c, "done", None)
  /\ UNCHANGED <<service, away, page, excuses, failures>>

BeginConnect(c) ==
  /\ c \in calls /\ c.op = "connect" /\ c.at = "sent"
  /\ \E k \in Consents :
       /\ consents[k] = "none" /\ \A j \in Consents : j < k => consents[j] # "none"
       /\ consents' = [consents EXCEPT ![k] = "begun"] /\ calls' = Answered(c, "done", k)
  /\ UNCHANGED <<held, connected, away, page, excuses, failures>>

\* Fault: a consent that was used is taken again.
MayConsumeAlways(k) == consents[k] # "none"
MayConsume(k) == consents[k] = "begun"

\* The upsert revives the account's row, and keeps its refresh token when no other came.
Upserted(a, refresh) ==
  [held EXCEPT ![a] = [deleted |-> FALSE, synced |-> IF held[a] = None THEN 0 ELSE held[a].synced, expired |-> FALSE,
                       refresh |-> refresh \/ (held[a] # None /\ held[a].refresh)]]
Unloaded == {c \in Hidden(calls) : Writing({c}) # {} /\ c.at \in {"sent", "listed", "working"}}

\* handleCalendarConnectCallback: the browser comes to it from the provider, or once more
\* by itself.  The state is spent before the provider is asked; the profile page opens
\* whatever came of it, and after a success it synchronises.
Callback(k) ==
  /\ away = k \/ (page.open /\ consents[k] = "used")
  /\ away' = None
  /\ \/ /\ MayConsume(k) /\ consents' = [consents EXCEPT ![k] = "used"]
        /\ \/ /\ \E a \in Accounts, refresh \in BOOLEAN : held' = Upserted(a, refresh)
              /\ connected' = [connected EXCEPT ![k] = @ + 1]
              /\ Opens(Default, Unloaded, "sync")
           \/ UNCHANGED <<held, connected>> /\ Opens(Default, Unloaded, None)
     \/ UNCHANGED service /\ Opens(Default, Unloaded, None)
  /\ UNCHANGED failures

---------------------------------------------------------------------------
(* What the page does with the answers *)

\* Fault: the list of before is kept.
OldList(c) == page.list
NewList(c) == IF c.at # "failed" THEN c.doc ELSE page.list
\* A list that nothing can have changed since ends the doubt about the one shown.
Doubt(c) ==
  IF c.shown /\ c.at = "done" /\ ~\E d \in calls \ {c} : d.op \in {"list", "sync", "remove"} THEN FALSE
  ELSE stale \/ (c.shown /\ c.at = "failed")

\* After a consent the page goes on to synchronise all, whether it could load or not.
BaseLoaded(c) ==
  /\ Ended(c, "base")
  /\ calls' = (calls \ {c}) \cup IF c.who = "sync" THEN {[Call("sync", "all") EXCEPT !.shown = c.shown]} ELSE {}
  /\ page' = IF ~c.shown THEN page
             ELSE [page EXCEPT !.list = NewList(c), !.loading = FALSE, !.syncing = IF c.who = "sync" THEN "all" ELSE @]
  /\ stale' = Doubt(c)
  /\ UNCHANGED <<service, away, misplaced, failures>>

\* A synchronisation or a removal that went well is followed by a load of the list.
WriteAnswered(c) ==
  /\ Ended(c, "sync") \/ Ended(c, "remove")
  /\ IF c.at = "done"
     THEN calls' = (calls \ {c}) \cup {[Call("list", c.op) EXCEPT !.shown = c.shown]} /\ page' = page
     ELSE /\ calls' = calls \ {c}
          /\ page' = IF ~c.shown THEN page ELSE IF c.op = "sync" THEN [page EXCEPT !.syncing = None]
                                                                ELSE [page EXCEPT !.removing = None]
  /\ UNCHANGED <<service, away, excuses, failures>>

reloadCalendarConnections(c) ==
  /\ Ended(c, "list") /\ calls' = calls \ {c}
  /\ page' = IF ~c.shown THEN page
             ELSE IF c.who = "sync" THEN [page EXCEPT !.list = NewList(c), !.syncing = None]
                                    ELSE [page EXCEPT !.list = NewList(c), !.removing = None]
  /\ stale' = Doubt(c)
  /\ UNCHANGED <<service, away, misplaced, failures>>

\* Whatever board is shown by now.
BoardLoaded(c) ==
  /\ Ended(c, "board") /\ calls' = calls \ {c}
  /\ page' = IF c.shown THEN [page EXCEPT !.quests = IF c.at = "done" THEN c.who ELSE None] ELSE page
  /\ misplaced' = (misplaced \/ (c.shown /\ c.at = "failed"))
  /\ UNCHANGED <<service, away, stale, failures>>

\* The browser leaves for the provider, from whatever page of the application is open by now.
ConnectAnswered(c) ==
  /\ Ended(c, "connect")
  /\ IF c.at = "done" THEN away' = c.doc /\ page' = NoPage /\ calls' = Unloaded
     ELSE /\ calls' = calls \ {c} /\ UNCHANGED away
          /\ page' = IF c.shown THEN [page EXCEPT !.connecting = FALSE] ELSE page
  /\ UNCHANGED <<service, excuses, failures>>

\* The answer is lost; the service may go on with what it was sent.
CallFails(c) ==
  /\ c \in calls /\ c.at # "failed" /\ c.shown /\ failures < MaxFailures /\ failures' = failures + 1
  /\ \E alone \in {{}, {c} \cap Writing(calls)} :
       calls' = ((calls \ {c}) \cup {[c EXCEPT !.at = "failed", !.left = {}, !.doc = None]})
                \cup {[d EXCEPT !.shown = FALSE] : d \in alone}
  /\ stale' = (stale \/ Writing({c}) # {})
  /\ UNCHANGED <<service, away, page, misplaced>>

TokenExpires(a) ==
  /\ a \in Held /\ ~held[a].expired /\ held' = [held EXCEPT ![a].expired = TRUE]
  /\ UNCHANGED <<consents, connected, tab, excuses, failures>>

Gesture ==
  \/ \E b \in Boards : switchBoard(b) \/ Return(b)
  \/ \E key \in Accounts \cup {"all"} : syncCalendar(key)
  \/ \E a \in Accounts : disconnectCalendar(a) \/ TokenExpires(a)
  \/ startCalendarConnect \/ Leave
  \/ \E k \in Consents : Callback(k)
Progress ==
  \E c \in calls :
    \/ ServeRead(c) \/ DeleteConnection(c) \/ SyncLists(c) \/ SyncReads(c) \/ SyncEnds(c) \/ BeginConnect(c)
    \/ \E t \in c.left : c.at = "working" /\ (TokenReady(c, t) \/ SyncMarks(c, t) \/ SyncSkips(c, t))
    \/ BaseLoaded(c) \/ WriteAnswered(c) \/ reloadCalendarConnections(c) \/ BoardLoaded(c) \/ ConnectAnswered(c)
    \/ CallFails(c)
Next == Gesture \/ Progress
Spec == Init /\ [][Next]_vars

---------------------------------------------------------------------------
TypeOK ==
  /\ \A a \in Accounts : held[a] # None => held[a] \in [deleted : BOOLEAN, synced : Nat, expired : BOOLEAN, refresh : BOOLEAN]
  /\ page.list \in [Accounts -> Nat] /\ page.syncing \in Accounts \cup {"all", None} /\ page.removing \in Accounts \cup {None}
  /\ page.active \in Boards /\ page.quests \in Boards \cup {None} /\ away \in Consents \cup {None}

(* However syncs, removals, consents, board switches and visits to other      *)
(* pages interleave: at rest the profile page offers all its buttons again,   *)
(* and shows the connections there are with their last sync, and the quests   *)
(* of its board, unless calls crossed, were lost or belonged to a page that   *)
(* was left; and a consent connects once, however often the browser comes     *)
(* back with it.                                                              *)
ShowsWhatIsHeld ==
  /\ TypeOK
  /\ page.open /\ calls = {} =>
       /\ ~page.loading /\ page.syncing = None /\ page.removing = None /\ ~page.connecting
       /\ ~stale => page.list = Listing
       /\ ~misplaced => page.quests = page.active
  /\ \A k \in Consents : connected[k] <= 1
=============================================================================
