---------------------------- MODULE BoardSettings ----------------------------
(* The boards of a workspace and who may use them: the dialog of the board    *)
(* page that creates, renames, deletes and shares boards (BoardControllerData, *)
(* BoardSettingsModal), and the service behind it (httpapi/server_03.go,      *)
(* account/service_02.go, service_03.go, project/repository.go).  The user    *)
(* may manage members.  One list of members serves the board that is open and *)
(* the one the dialog manages.  Two equal loads that wait together are one.   *)
EXTENDS Naturals, FiniteSets

CONSTANTS
  Boards,
  Default,      \* the board everyone has
  Me, Mates,    \* the members of the workspace
  Strangers,    \* addresses of nobody in it
  Names,        \* of boards
  MaxFailures,  \* bound: lost calls and statements
  None

VARIABLES
  projects,  \* per board None, or its row: name, archived
  members,   \* per board who has access
  withTasks, \* boards some task is on
  invited,   \* strangers with an invitation
  list,      \* what the page knows: per board its name, or None
  known,     \* the invitations the page knows, None until the settings are loaded
  page,      \* active, managed, dialog, shown members, the two busy flags
  calls,     \* the chains of calls under way
  stale,     \* whether the last list was read before a change, or an answer was lost
  crossed,   \* the same of the members, or their load was for a board that is not managed
  skipped,   \* who was not added by a submission although nothing crossed it
  strayed,   \* whether the page went to a board already gone, or never heard that one was deleted
  failures

service == <<projects, members, withTasks, invited>>
excuses == <<stale, crossed, skipped, strayed>>
vars == <<service, list, known, page, calls, excuses, failures>>

Users == Mates \cup {Me}

---------------------------------------------------------------------------
\* project_list.sql: boards one has access to, also those only their tasks tell of.
Listing ==
  [b \in Boards |-> IF Me \notin members[b] THEN None
                    ELSE IF projects[b] # None /\ ~projects[b].archived THEN projects[b].name
                    ELSE IF b \in withTasks THEN "slug" ELSE None]
boardChoices == {b \in Boards : list[b] # None} \cup {Default, page.active}

Chain(op, board, stage) == [op |-> op, board |-> board, who |-> None, left |-> {}, stage |-> stage, at |-> "sent", doc |-> None]
LoadBoardMembers(by, board) == Chain(by, board, "members")
Answered(c, status, doc) == (calls \ {c}) \cup {[c EXCEPT !.at = status, !.doc = <<c.stage, doc>>]}
Going(c, stage) == [c EXCEPT !.stage = stage, !.at = "sent", !.doc = None]
Ended(c, stage) == c \in calls /\ c.stage = stage /\ c.at # "sent"
\* An answer that was read before a later change is late.
Overtaken(cs, stage) == {IF c.stage = stage /\ c.at \in {"done", "refused"} THEN [c EXCEPT !.at = "late"] ELSE c : c \in cs}

Sharing(cs) == {c \in cs : c.op \in {"add", "remove", "invite"}}

Init ==
  /\ projects \in [Boards -> {None} \cup [name : {"one"}, archived : BOOLEAN]]
  /\ members \in [Boards -> SUBSET Users] /\ \A b \in Boards : members[b] # {} => Me \in members[b]
  /\ \A b \in Boards : members[b] # {} <=> projects[b] # None /\ ~projects[b].archived
  /\ members[Default] # {} /\ withTasks \in SUBSET Boards /\ invited \in SUBSET Strangers
  /\ list = [b \in Boards |-> None] /\ known = None
  /\ page = [active |-> Default, managed |-> Default, open |-> FALSE, shown |-> {}, sharing |-> FALSE, changing |-> FALSE]
  /\ calls = {Chain("mount", Default, "projects"), Chain("mount", Default, "settings"), LoadBoardMembers("page", Default)}
  /\ stale = FALSE /\ crossed = FALSE /\ skipped = {} /\ strayed = FALSE /\ failures = 0

---------------------------------------------------------------------------
(* Gestures.  Opening a board empties the members shown and loads its own.    *)

Opens(pg, b) == IF b = pg.active THEN pg ELSE [pg EXCEPT !.active = b, !.shown = {}]
OpenLoads(pg, b) == IF b = pg.active THEN {} ELSE {LoadBoardMembers("page", b)}

switchBoard(b) ==
  /\ b # page.active /\ b \in boardChoices /\ (page.open => b = page.managed)
  /\ page' = Opens(page, b) /\ calls' = calls \cup OpenLoads(page, b)
\* The browser goes to another board by itself, whatever the dialog manages.
Back(b) ==
  /\ b # page.active /\ b \in boardChoices
  /\ page' = Opens(page, b) /\ calls' = calls \cup OpenLoads(page, b)

setManagedBoard(b) ==
  /\ page.open /\ b \in boardChoices
  /\ page' = [page EXCEPT !.managed = b] /\ calls' = calls \cup {LoadBoardMembers("dialog", b)}
openCreateBoardModal ==
  /\ ~page.open /\ page' = [page EXCEPT !.open = TRUE, !.managed = page.active]
  /\ calls' = calls \cup {LoadBoardMembers("dialog", page.active)}
closeCreateBoardModal == page.open /\ ~page.changing /\ page' = [page EXCEPT !.open = FALSE] /\ UNCHANGED calls

\* One change of boards at a time.
Changes(c) == page.open /\ ~page.changing /\ page' = [page EXCEPT !.changing = TRUE] /\ calls' = calls \cup {c}
createBoard(b) == b \notin boardChoices /\ Changes([Chain("create", b, "write") EXCEPT !.who = "one"])
deleteBoard == page.managed # Default /\ page.managed \in boardChoices /\ Changes(Chain("delete", page.managed, "write"))
renameManagedBoard(name) ==
  /\ page.managed \in boardChoices /\ name # list[page.managed]
  /\ Changes([Chain("rename", page.managed, "write") EXCEPT !.who = name])

\* One change of members at a time.
Shares(c) ==
  /\ page.open /\ ~page.sharing /\ page.managed \in boardChoices /\ known # None
  /\ page' = [page EXCEPT !.sharing = TRUE] /\ calls' = calls \cup {c}
toggleManagedBoardMember(u) ==
  /\ u = Me => Me \notin page.shown
  /\ Shares([Chain(IF u \in page.shown THEN "remove" ELSE "add", page.managed, "write") EXCEPT !.who = u])
inviteBoardMembersByEmail(emails) ==
  emails # {} /\ Shares([Chain("invite", page.managed, "next") EXCEPT !.left = emails, !.at = "done"])

---------------------------------------------------------------------------
(* The service.  Every change needs access to the board.                      *)

Allowed(c) == Me \in members[c.board]
Joined(c, u) == [members EXCEPT ![c.board] = @ \cup {u}]
Upserted(c) ==
  [projects EXCEPT ![c.board] = IF @ = None THEN [name |-> c.who, archived |-> FALSE] ELSE [@ EXCEPT !.name = c.who]]

Waits(c) == c \in calls /\ c.stage = "write" /\ c.at = "sent"
Refuse(c) == calls' = Answered(c, "failed", None) /\ UNCHANGED <<service, failures>>
\* What was read before the change is old.
Accept(c) == calls' = Overtaken(Overtaken(Answered(c, "done", None), "members"), "projects")

handleBoardMember(c) ==
  /\ Waits(c) /\ (c.op \in {"add", "remove"} \/ (c.op = "invite" /\ c.who \in Users))
  /\ IF Allowed(c) /\ (c.op = "remove" => c.who # Me /\ c.who \in members[c.board])
     THEN /\ members' = IF c.op = "remove" THEN [members EXCEPT ![c.board] = @ \ {c.who}] ELSE Joined(c, c.who)
          /\ Accept(c) /\ UNCHANGED <<projects, withTasks, invited, failures>>
     ELSE Refuse(c)
InviteMember(c) ==
  /\ Waits(c) /\ c.op = "invite" /\ c.who \in Strangers
  /\ invited' = invited \cup {c.who} /\ calls' = Answered(c, "done", None)
  /\ UNCHANGED <<projects, members, withTasks, failures>>

\* The access is granted before the row is written, which may fail.
handleCreateProject(c) ==
  /\ Waits(c) /\ c.op = "create" /\ members' = Joined(c, Me)
  /\ \/ projects' = Upserted(c) /\ Accept(c) /\ UNCHANGED failures
     \/ /\ failures < MaxFailures /\ failures' = failures + 1
        /\ UNCHANGED projects
        /\ calls' = Overtaken(Overtaken(Answered(c, "failed", None), "members"), "projects")
  /\ UNCHANGED <<withTasks, invited>>
handlePatchProject(c) ==
  /\ Waits(c) /\ c.op = "rename"
  /\ IF Allowed(c) THEN projects' = Upserted(c) /\ Accept(c) /\ UNCHANGED <<members, withTasks, invited, failures>>
     ELSE Refuse(c)
\* The row is archived before the access is taken away; whether that fails is not told.
handleDeleteProject(c) ==
  /\ Waits(c) /\ c.op = "delete"
  /\ IF Allowed(c) /\ projects[c.board] # None
     THEN /\ projects' = [projects EXCEPT ![c.board].archived = TRUE] /\ Accept(c)
          /\ \/ members' = [members EXCEPT ![c.board] = {}] /\ UNCHANGED failures
             \/ failures < MaxFailures /\ failures' = failures + 1 /\ UNCHANGED members
          /\ UNCHANGED <<withTasks, invited>>
     ELSE Refuse(c)

ServeRead(c) ==
  /\ c \in calls /\ c.at = "sent" /\ c.stage # "write"
  /\ calls' = IF c.stage = "members" /\ ~Allowed(c) THEN Answered(c, "refused", {})
              ELSE Answered(c, "done", IF c.stage = "members" THEN members[c.board] ELSE IF c.stage = "projects" THEN Listing ELSE invited)
  /\ UNCHANGED <<service, failures>>

\* The answer is lost; the service may have done the work.
CallFails(c) ==
  /\ c \in calls /\ c.at # "failed" /\ c.stage # "next" /\ failures < MaxFailures /\ failures' = failures + 1
  /\ calls' = Answered(c, "failed", None)
  /\ UNCHANGED service

Serve ==
  /\ \E c \in calls :
       \/ handleBoardMember(c) \/ InviteMember(c) \/ handleCreateProject(c) \/ handlePatchProject(c) \/ handleDeleteProject(c)
       \/ ServeRead(c) \/ CallFails(c)
  /\ UNCHANGED <<list, known, page, excuses>>

---------------------------------------------------------------------------
(* What the page does with the answers *)

\* A failed load of members shows none; whoever waited for it goes on.
MembersLoaded(c) ==
  /\ Ended(c, "members") /\ calls' = calls \ {c}
  /\ page' = [page EXCEPT !.shown = IF c.at = "failed" THEN {} ELSE c.doc[2],
                          !.sharing = IF c \in Sharing(calls) THEN FALSE ELSE @]
  /\ crossed' = (c.at \in {"late", "failed"} \/ c.board # page.managed)
  /\ UNCHANGED <<service, list, known, stale, skipped, strayed, failures>>

\* Fault: the dialog goes on with the board that is gone.
ManagedStill(b) == page.managed
ManagedAfter(b) == IF page.active = b THEN Default ELSE page.active

\* The boards are loaded; a change goes on with the board it made or left.
ProjectsLoaded(c) ==
  /\ Ended(c, "projects") /\ list' = IF c.at = "failed" THEN list ELSE c.doc[2]
  /\ stale' = (c.at # "done")
  /\ LET next == IF c.op = "create" THEN c.board ELSE IF c.op = "delete" THEN ManagedAfter(c.board) ELSE None
         active == IF c.op = "create" \/ (c.op = "delete" /\ page.active = c.board) THEN next ELSE page.active
         loads == IF next = None THEN {} ELSE {LoadBoardMembers("dialog", next)} \cup OpenLoads(page, active)
     IN /\ page' = [Opens(page, active) EXCEPT !.managed = IF next = None THEN @ ELSE next,
                                               !.changing = IF c.op = "mount" THEN @ ELSE FALSE]
        /\ calls' = (calls \ {c}) \cup loads
  /\ UNCHANGED <<service, known, crossed, skipped, strayed, failures>>

SettingsLoaded(c) ==
  /\ Ended(c, "settings") /\ known' = IF c.at = "failed" THEN known ELSE c.doc[2]
  /\ calls' = (calls \ {c}) \cup IF c.op = "invite" THEN {Going(c, "members")} ELSE {}
  /\ UNCHANGED <<service, list, page, excuses, failures>>

WriteAnswered(c) ==
  /\ Ended(c, "write")
  /\ IF c.at # "failed"
     THEN /\ calls' = (calls \ {c}) \cup
                        {IF c.op = "invite" THEN [Going(c, "next") EXCEPT !.at = "done", !.who = None]
                         ELSE IF c \in Sharing(calls) THEN Going(c, "members") ELSE Going(c, "projects")}
          /\ UNCHANGED <<page, stale, crossed, strayed>>
     ELSE /\ calls' = calls \ {c}
          /\ page' = IF c \in Sharing(calls) THEN [page EXCEPT !.sharing = FALSE] ELSE [page EXCEPT !.changing = FALSE]
          /\ stale' = TRUE /\ crossed' = TRUE
          /\ strayed' = (strayed \/ (c.op = "delete" /\ ~Allowed(c)))
  /\ UNCHANGED <<service, list, known, skipped, failures>>

Undisturbed(c) == ~crossed /\ page.managed = c.board /\ Allowed(c) /\ ~\E d \in calls : d.stage = "members"

\* The next address of a submission: who is shown as a member by then, or known to be invited, is passed over.
InviteNext(c) ==
  /\ Ended(c, "next")
  /\ IF c.left = {} THEN calls' = (calls \ {c}) \cup {Going(c, "settings")} /\ UNCHANGED skipped
     ELSE \E e \in c.left :
            LET rest == [c EXCEPT !.left = @ \ {e}]
                passed == IF e \in Users THEN e \in page.shown ELSE e \in known
            IN /\ calls' = (calls \ {c}) \cup {IF passed THEN rest ELSE [Going(rest, "write") EXCEPT !.who = e]}
               /\ skipped' = IF passed /\ e \in Users \ members[c.board] /\ Undisturbed(c) THEN skipped \cup {e} ELSE skipped
  /\ UNCHANGED <<service, list, known, page, stale, crossed, strayed, failures>>

\* A board the page had not been on, which is gone, and whose deletion is not about to send it elsewhere.
Lures(b) == b \notin {page.active, page.managed} /\ Me \notin members[b] /\ ~\E c \in calls : c.op = "delete" /\ c.board = b
Gesture ==
  /\ \/ \E b \in Boards : switchBoard(b) \/ Back(b) \/ setManagedBoard(b) \/ createBoard(b)
     \/ openCreateBoardModal \/ closeCreateBoardModal \/ deleteBoard
     \/ \E name \in Names : renameManagedBoard(name)
     \/ \E u \in Users : toggleManagedBoardMember(u)
     \/ \E emails \in SUBSET (Mates \cup Strangers) : inviteBoardMembersByEmail(emails)
  /\ strayed' = (strayed \/ Lures(page'.active) \/ Lures(page'.managed))
  /\ UNCHANGED <<service, list, known, stale, crossed, skipped, failures>>
Progress ==
  \/ Serve
  \/ \E c \in calls : MembersLoaded(c) \/ ProjectsLoaded(c) \/ SettingsLoaded(c) \/ WriteAnswered(c) \/ InviteNext(c)
Next == Gesture \/ Progress
Spec == Init /\ [][Next]_vars

---------------------------------------------------------------------------
TypeOK ==
  /\ members \in [Boards -> SUBSET Users] /\ list \in [Boards -> Names \cup {"slug", None}]
  /\ page.active \in Boards /\ page.managed \in Boards /\ page.shown \subseteq Users
  /\ known = None \/ known \subseteq Strangers

(* At rest the dialog offers its buttons again, the boards listed are those    *)
(* there are unless the list was read before a change or an answer was lost,   *)
(* the members shown are those of the managed board unless a load crossed a    *)
(* change or another board's, and neither the board that is open nor the       *)
(* managed one was deleted under the page; and a submission of addresses       *)
(* passes over nobody but members of its board.                                *)
SettingsShowTheBoard ==
  /\ TypeOK
  /\ skipped = {}
  /\ calls = {} =>
       /\ ~page.sharing /\ ~page.changing
       /\ ~stale => list = Listing
       /\ page.open /\ ~crossed => page.shown = members[page.managed]
       /\ ~strayed => Me \in members[page.active] /\ (page.open => Me \in members[page.managed])
=============================================================================
