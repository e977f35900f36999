------------------------------- MODULE MCPages ------------------------------
(* Six parts of the client, one of them in each behaviour: the list of the   *)
(* home page (TaskList, three rows), its task dialog, the task dialog of the  *)
(* board, the boards dialog of the board, the team settings, and the profile  *)
(* page.  In each of them the gestures are limited, in number or in kind, and *)
(* a second chain of calls or the loss of one is left out; of the team page,  *)
(* addresses, submissions or calls at a time; of the profile page, boards or  *)
(* calendars; the boards dialog is open before anything else happens.         *)
EXTENDS TaskList, ClientPages

CONSTANT MaxGestures
VARIABLES scenario, gestures

mcvars == <<listvars, pagesvars, scenario, gestures>>

CardTexts == {[content |-> c, prio |-> p] : c \in {"new", ""}, p \in {None, 1}}

Lists == {"drags", "views", "texts"}
Opened ==
  CASE scenario \in Lists -> "list"
    [] scenario \in {"boardOne", "boardTwo"} -> "cards"
    [] scenario \in {"homeOne", "homeTwo"} -> "home"
    [] scenario \in {"teamInvites", "teamOverlaps", "teamLosses"} -> "team"
    [] scenario \in {"profileCalendars", "profileLosses", "profileBoards"} -> "profile"
    [] OTHER -> "share"

---------------------------------------------------------------------------
Row(t, status, project, due) ==
  [status |-> status, order |-> t, title |-> "old", project |-> project, due |-> due, live |-> FALSE]
RowsInit ==
  \/ scenario = "drags" /\ stored = [t \in Tasks |-> Row(t, "open", "inbox", "none")]
  \/ scenario = "views" /\ \E due \in {"overdue", "later"}, second \in {"open", "done"} :
       stored = [t \in Tasks |-> IF t = 3 THEN None ELSE IF t = 1 THEN Row(1, "open", "inbox", due) ELSE Row(2, second, "board", "none")]
  \/ scenario = "texts" /\ stored = [t \in Tasks |-> IF t = 3 THEN None ELSE Row(t, "open", IF t = 1 THEN "inbox" ELSE "board", "none")]
RowsNext ==
  /\ scenario \in Lists /\ UNCHANGED <<scenario, pagesvars>>
  /\ \/ Gesture /\ gestures < (IF scenario = "drags" THEN MaxGestures ELSE MaxGestures + 3) /\ gestures' = gestures + 1
     \/ Progress /\ UNCHANGED gestures
  /\ scenario = "drags" => view' = "inbox" /\ ~content' /\ editing' = None /\ search' = None /\ detail' = None
                           /\ \A c \in calls' : c.op \in {"mount", "order", "leftover", "remove"} /\ (c.op = "order" => drag' = None)
  /\ scenario = "views" => ~content' /\ editing' = None /\ drag' = None /\ \A c \in calls' : c.op # "order"
  /\ scenario = "texts" => drag' = None /\ view' \in {"inbox", "board"} /\ detail' = None /\ search' = None
                           /\ \A c \in calls' : c.op \in {"mount", "title", "add"}

BoardCard(t) == [board |-> "b1", task |-> t, title |-> "old", prio |-> 4]
BoardInit ==
  /\ cardActive = "b1" /\ cardRows[2] = None /\ cardRows[3] = None
  /\ \/ cardCards[1] = BoardCard(1) /\ cardCards[2] \in {None} \cup IF scenario = "boardOne" THEN {BoardCard(None)} ELSE {}
     \/ scenario = "boardTwo" /\ cardRows[1] = None /\ cardCards[1] = None /\ cardCards[2] = BoardCard(None)
BoardNext ==
  /\ OnlyCards /\ UNCHANGED <<listvars, scenario>>
  /\ \/ Card!Gesture /\ gestures < (IF scenario = "boardOne" THEN MaxGestures + 1 ELSE MaxGestures) /\ gestures' = gestures + 1
     \/ Card!Progress /\ UNCHANGED gestures
  /\ IF scenario = "boardOne" THEN cardJobs'[2] = None
     ELSE cardActive' = "b1" /\ cardFailures' = 0 /\ (cardDialog'.text # None => cardDialog'.text.prio = None /\ cardDialog'.text.content # "")

InBoard(s) == [project |-> "board", section |-> s, prio |-> 4, live |-> FALSE]
Section == [project |-> "board", name |-> "s"]
HomeInit == homeRows = [t \in {1, 2} |-> IF t = 1 THEN InBoard(Section) ELSE InBoard(None)] /\ homeExists = {Section}
HomeNext ==
  /\ OnlyHome /\ UNCHANGED <<listvars, scenario>>
  /\ \/ Home!Gesture /\ gestures < MaxGestures /\ gestures' = gestures + 1
     \/ Home!Progress /\ UNCHANGED gestures
  /\ IF scenario = "homeOne" THEN homeSaves'[2] = None ELSE homeFailures' = 0

TeamInit == teamServer.plan # "enterprise" /\ (scenario = "teamOverlaps" => teamServer.mine = "owner")
TeamNext ==
  /\ OnlyTeam /\ Team!Next /\ UNCHANGED <<listvars, scenario, gestures>>
  /\ IF scenario = "teamInvites" THEN Cardinality(teamCalls') <= 1 /\ teamForm'.name = "old" /\ \A c \in teamCalls' : c.op \in {"load", "checkout", "endTrial"}
     ELSE teamForm'.emails \subseteq {"x"} /\ teamForm'.role = "editor" /\ teamSubmissions' <= 1
  /\ scenario = "teamOverlaps" => teamFailures' = 0
  /\ scenario = "teamLosses" => teamSubmissions' = 0

ProfileInit ==
  /\ profileHeld["two"] # None /\ profileHeld["one"] = [deleted |-> FALSE, synced |-> 0, expired |-> FALSE, refresh |-> TRUE]
BoardCalls(cs) == {c \in cs : c.op = "board"}
ProfileNext ==
  /\ OnlyProfile /\ UNCHANGED <<listvars, scenario>>
  /\ \/ Profile!Gesture /\ gestures < MaxGestures - (IF scenario = "profileLosses" THEN 2 ELSE 1) /\ gestures' = gestures + 1
     \/ Profile!Progress /\ UNCHANGED gestures
  /\ IF scenario = "profileBoards" THEN \A c \in profileCalls' : c.op \in {"base", "board"}
     ELSE /\ BoardCalls(profileCalls) # {} => BoardCalls(profileCalls') # BoardCalls(profileCalls)
          /\ profilePage'.active = "b1" /\ (scenario = "profileCalendars" => profileFailures' = 0)

SettingsInit ==
  /\ shareMembers["b1"] = {"me", "mate"} /\ shareMembers["b2"] \in {{}, {"me", "mate"}} /\ shareInvited = {}
  /\ shareWithTasks \subseteq {"b2"} /\ (shareProjects["b2"] # None => shareWithTasks = {})
SettingsNext ==
  /\ OnlyShare /\ UNCHANGED <<listvars, scenario>>
  /\ \/ /\ Share!Gesture /\ \A c \in shareCalls : c.op # "mount"
        /\ gestures < MaxGestures - (IF scenario = "settings" THEN 1 ELSE 2) /\ gestures' = gestures + 1
        /\ gestures = 0 => sharePage'.open
        /\ scenario = "settingsLosses" => gestures = 0 \/ sharePage'.managed = "b2"
     \/ Share!Progress /\ UNCHANGED gestures
  /\ scenario = "settings" => shareFailures' = 0

MCInit ==
  /\ scenario \in Lists \cup {"boardOne", "boardTwo", "homeOne", "homeTwo", "teamInvites", "teamOverlaps", "teamLosses",
                             "profileCalendars", "profileLosses", "profileBoards", "settings", "settingsLosses"}
  /\ gestures = 0 /\ opened = Opened /\ ListInit
  /\ IF scenario \in Lists THEN RowsInit /\ NoCards /\ NoHome /\ NoTeam /\ NoProfile /\ NoShare
     ELSE /\ stored = [t \in Tasks |-> None] /\ PagesInit
          /\ OnCards => BoardInit
          /\ OnHome => HomeInit
          /\ OnTeam => TeamInit
          /\ OnProfile => ProfileInit
          /\ OnShare => SettingsInit
MCNext == RowsNext \/ BoardNext \/ HomeNext \/ TeamNext \/ ProfileNext \/ SettingsNext
MCSpec == MCInit /\ [][MCNext]_mcvars
=============================================================================
