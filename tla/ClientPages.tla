----------------------------- MODULE ClientPages -----------------------------
(* Five parts of the client, one of them in each behaviour: the task dialog of *)
(* the board, that of the home page, the team settings, the profile page and   *)
(* the dialog in which boards are made and shared.                             *)
EXTENDS Naturals, FiniteSets

CONSTANTS
  OfBoards, DefaultBoard,                    \* the boards
  Cards, CardTasks, Texts, Levels,           \* the task cards, their rows, titles typed, priorities
  HomeTasks, HomeProjects, LiveProjects, SectionNames,
  TeamMates, User, Addresses, GivenRoles,    \* members, the user, addresses to invite, roles to give
  Calendars, Consents,                       \* calendar accounts, authorizations begun
  Outsiders, BoardTitles,                    \* addresses of nobody in the workspace, names of boards
  Chains, MaxLost, MaxSubmissions, MaxTeamCalls,   \* bounds: saves at a time, lost calls, submissions, calls of the team page
  Nil

VARIABLES
  opened,    \* which part there is
  cardRows, cardCards, cardActive, cardShown, cardDialog, cardJobs, cardTorn, cardFailures,
  homeRows, homeExists, homeTasks, homeDetail, homeForm, homePreview, homeSections, homeLoading, homeAsks, homeLists,
  homeSaves, homeActivated, homeCrossed, homeMixed, homeFailures,
  teamServer, teamSettings, teamLoading, teamForm, teamInvite, teamCalls, teamRemoving, teamCanceling, teamBilling,
  teamSent, teamStale, teamSubmissions, teamFailures,
  profileHeld, profileConsents, profileAway, profilePage, profileCalls, profileStale, profileMisplaced, profileConnected,
  profileFailures,
  shareProjects, shareMembers, shareWithTasks, shareInvited, shareList, shareKnown, sharePage, shareCalls, shareStale,
  shareCrossed, shareSkipped, shareStrayed, shareFailures

Card == INSTANCE BoardTaskDialog WITH
  Boards <- OfBoards, Tasks <- CardTasks, Priorities <- Levels, Slots <- Chains, MaxFailures <- MaxLost, None <- Nil,
  rows <- cardRows, cards <- cardCards, active <- cardActive, shown <- cardShown, dialog <- cardDialog, jobs <- cardJobs,
  torn <- cardTorn, failures <- cardFailures
Home == INSTANCE HomeTaskDialog WITH
  Tasks <- HomeTasks, Projects <- HomeProjects, Boards <- LiveProjects, Names <- SectionNames, Priorities <- Levels,
  Slots <- Chains, MaxFailures <- MaxLost, None <- Nil,
  rows <- homeRows, exists <- homeExists, tasks <- homeTasks, detail <- homeDetail, form <- homeForm, preview <- homePreview,
  sections <- homeSections, loading <- homeLoading, asks <- homeAsks, lists <- homeLists, saves <- homeSaves,
  activated <- homeActivated, crossed <- homeCrossed, mixed <- homeMixed, failures <- homeFailures
Team == INSTANCE TeamPage WITH
  Mates <- TeamMates, Emails <- Addresses, Assignable <- GivenRoles, MaxFailures <- MaxLost, MaxCalls <- MaxTeamCalls, None <- Nil,
  server <- teamServer, settings <- teamSettings, loading <- teamLoading, form <- teamForm, invite <- teamInvite,
  calls <- teamCalls, removing <- teamRemoving, canceling <- teamCanceling, billing <- teamBilling, sent <- teamSent,
  stale <- teamStale, submissions <- teamSubmissions, failures <- teamFailures
Profile == INSTANCE ProfilePage WITH
  Accounts <- Calendars, Boards <- OfBoards, Default <- DefaultBoard, MaxFailures <- MaxLost, None <- Nil,
  held <- profileHeld, consents <- profileConsents, away <- profileAway, page <- profilePage, calls <- profileCalls,
  stale <- profileStale, misplaced <- profileMisplaced, connected <- profileConnected, failures <- profileFailures
Share == INSTANCE BoardSettings WITH
  Boards <- OfBoards, Default <- DefaultBoard, Me <- User, Mates <- TeamMates, Strangers <- Outsiders, Names <- BoardTitles,
  MaxFailures <- MaxLost, None <- Nil,
  projects <- shareProjects, members <- shareMembers, withTasks <- shareWithTasks, invited <- shareInvited,
  list <- shareList, known <- shareKnown, page <- sharePage, calls <- shareCalls, stale <- shareStale,
  crossed <- shareCrossed, skipped <- shareSkipped, strayed <- shareStrayed, failures <- shareFailures

---------------------------------------------------------------------------
(* What the constants are: Nil is no card, task, row, call or submission, and  *)
(* a page finds the values it starts with.                                     *)

CardTitles == {text.content : text \in Texts} \cup {"old", Card!Untitled}
CardPrios == Levels \cup {4, Nil}
CardTypes == [board : OfBoards, task : CardTasks \cup {Nil}, title : CardTitles, prio : CardPrios]
CardRowTypes == [board : OfBoards \cup {Nil}, title : CardTitles, prio : CardPrios, done : BOOLEAN]
CardTextTypes == [content : CardTitles, prio : Levels \cup {Nil}]
CardJobTypes == [op : {"save", "complete"}, card : Cards, task : CardTasks \cup {Nil}, fresh : BOOLEAN, text : CardTextTypes,
                 typed : CardPrios, clean : BOOLEAN, step : Card!Steps, at : {"sent", "done", "refused"}, board : OfBoards, prio : CardPrios]

CardsAssumption ==
  /\ Texts \subseteq CardTextTypes
  /\ Nil \notin Cards /\ Nil \notin CardTasks
  /\ Nil \notin CardTypes /\ Nil \notin CardRowTypes /\ Nil \notin CardJobTypes

HomeAssumption == Nil \notin HomeTasks /\ Nil \notin HomeProjects /\ Nil \notin Home!Sections

TeamSubmissions == [left : SUBSET Addresses, all : SUBSET Addresses]
TeamAssumption == "editor" \in GivenRoles /\ Nil \notin TeamSubmissions

ShareAssumption == DefaultBoard \in OfBoards /\ Nil \notin OfBoards /\ "one" \in BoardTitles

ProfileHeldTypes == [deleted : BOOLEAN, synced : Nat, expired : BOOLEAN, refresh : BOOLEAN]
ProfileAssumption == Nil \notin Calendars /\ Nil \notin ProfileHeldTypes /\ Nil # "all" /\ DefaultBoard \in OfBoards

ASSUME PagesAssumption ==
  CardsAssumption /\ HomeAssumption /\ TeamAssumption /\ ShareAssumption /\ ProfileAssumption

OnCards == opened = "cards"
OnHome == opened = "home"
OnTeam == opened = "team"
OnProfile == opened = "profile"
OnShare == opened = "share"

cardVars == <<cardRows, cardCards, cardActive, cardShown, cardDialog, cardJobs, cardTorn, cardFailures>>
homeVars == <<homeRows, homeExists, homeTasks, homeDetail, homeForm, homePreview, homeSections, homeLoading,
              homeAsks, homeLists, homeSaves, homeActivated, homeCrossed, homeMixed, homeFailures>>
teamVars == <<teamServer, teamSettings, teamLoading, teamForm, teamInvite, teamCalls, teamRemoving, teamCanceling,
              teamBilling, teamSent, teamStale, teamSubmissions, teamFailures>>
profileVars == <<profileHeld, profileConsents, profileAway, profilePage, profileCalls, profileStale, profileMisplaced,
                 profileConnected, profileFailures>>
shareVars == <<shareProjects, shareMembers, shareWithTasks, shareInvited, shareList, shareKnown, sharePage,
               shareCalls, shareStale, shareCrossed, shareSkipped, shareStrayed, shareFailures>>
pagesvars == <<opened, cardVars, homeVars, teamVars, profileVars, shareVars>>

---------------------------------------------------------------------------
(* The part that is open starts and steps; of the others there is nothing. *)

NoCards ==
  /\ cardRows = Nil /\ cardCards = Nil /\ cardActive = Nil /\ cardShown = Nil /\ cardDialog = Nil
  /\ cardJobs = Nil /\ cardTorn = Nil /\ cardFailures = Nil
NoHome ==
  /\ homeRows = Nil /\ homeExists = Nil /\ homeTasks = Nil /\ homeDetail = Nil /\ homeForm = Nil
  /\ homePreview = Nil /\ homeSections = Nil /\ homeLoading = Nil /\ homeAsks = Nil /\ homeLists = Nil
  /\ homeSaves = Nil /\ homeActivated = Nil /\ homeCrossed = Nil /\ homeMixed = Nil /\ homeFailures = Nil
NoTeam ==
  /\ teamServer = Nil /\ teamSettings = Nil /\ teamLoading = Nil /\ teamForm = Nil /\ teamInvite = Nil
  /\ teamCalls = Nil /\ teamRemoving = Nil /\ teamCanceling = Nil /\ teamBilling = Nil /\ teamSent = Nil
  /\ teamStale = Nil /\ teamSubmissions = Nil /\ teamFailures = Nil
NoProfile ==
  /\ profileHeld = Nil /\ profileConsents = Nil /\ profileAway = Nil /\ profilePage = Nil
  /\ profileCalls = Nil /\ profileStale = Nil /\ profileMisplaced = Nil /\ profileConnected = Nil
  /\ profileFailures = Nil
NoShare ==
  /\ shareProjects = Nil /\ shareMembers = Nil /\ shareWithTasks = Nil /\ shareInvited = Nil
  /\ shareList = Nil /\ shareKnown = Nil /\ sharePage = Nil /\ shareCalls = Nil /\ shareStale = Nil
  /\ shareCrossed = Nil /\ shareSkipped = Nil /\ shareStrayed = Nil /\ shareFailures = Nil

PagesInit ==
  \/ OnCards /\ Card!Init /\ NoHome /\ NoTeam /\ NoProfile /\ NoShare
  \/ OnHome /\ Home!Init /\ NoCards /\ NoTeam /\ NoProfile /\ NoShare
  \/ OnTeam /\ Team!Init /\ NoCards /\ NoHome /\ NoProfile /\ NoShare
  \/ OnProfile /\ Profile!Init /\ NoCards /\ NoHome /\ NoTeam /\ NoShare
  \/ OnShare /\ Share!Init /\ NoCards /\ NoHome /\ NoTeam /\ NoProfile

OnlyCards == OnCards /\ UNCHANGED <<opened, homeVars, teamVars, profileVars, shareVars>>
OnlyHome == OnHome /\ UNCHANGED <<opened, cardVars, teamVars, profileVars, shareVars>>
OnlyTeam == OnTeam /\ UNCHANGED <<opened, cardVars, homeVars, profileVars, shareVars>>
OnlyProfile == OnProfile /\ UNCHANGED <<opened, cardVars, homeVars, teamVars, shareVars>>
OnlyShare == OnShare /\ UNCHANGED <<opened, cardVars, homeVars, teamVars, profileVars>>
PagesNext ==
  \/ OnlyCards /\ Card!Next
  \/ OnlyHome /\ Home!Next
  \/ OnlyTeam /\ Team!Next
  \/ OnlyProfile /\ Profile!Next
  \/ OnlyShare /\ Share!Next
PagesSpec == PagesInit /\ [][PagesNext]_pagesvars

---------------------------------------------------------------------------
(* BoardTaskDialog!CardsAgree: with nothing under way, a card of the board     *)
(* and the row it is linked to hold the same task.                             *)
BoardCardsAgree == OnCards => Card!TypeOK /\ Card!CardsAgree

(* HomeTaskDialog!PreviewOfShownTask, LiveOnlyWhenActivated: what the board    *)
(* said is shown with the task it is about, and saving gives no task the mark  *)
(* of a live one.                                                              *)
PreviewsAreTheTasks == OnHome => Home!TypeOK /\ Home!PreviewOfShownTask /\ Home!LiveOnlyWhenActivated

(* TeamPage!ShowsWhatIsThere: at rest, and when no calls overlapped, the team  *)
(* page shows the members, invitations, name and plan the service has.         *)
TeamShowsWhatIsThere == OnTeam => Team!ShowsWhatIsThere

(* TeamPage!OneSubmissionOneRole: the invitations of one submission carry one  *)
(* role, although each call reads the form when it is sent.                    *)
TeamInvitesWithOneRole == OnTeam => Team!OneSubmissionOneRole

(* ProfilePage!ShowsWhatIsHeld: at rest, and when no calls crossed, the        *)
(* profile page offers its buttons and shows the calendar connections there    *)
(* are and the quests of its board; a consent connects once.                   *)
ProfileShowsWhatIsHeld == OnProfile => Profile!ShowsWhatIsHeld

(* BoardSettings!SettingsShowTheBoard: at rest, and when nothing was late or    *)
(* lost, the dialog lists the boards there are, shows who has access to the     *)
(* managed one, and stays with boards the user has; who is no member of a       *)
(* board is not passed over when addresses are added to it.                     *)
SettingsShowTheBoard == OnShare => Share!SettingsShowTheBoard

(* SavesWhatWasTyped of BoardTaskDialog and HomeTaskDialog, and SectionStays:  *)
(* an undisturbed save leaves in the row, and on the card, what the form said, *)
(* and a list of sections that arrives clears no section chosen.               *)
DialogsKeepWhatWasTyped ==
  [][/\ OnCards => Card!SaveKeepsForm
     /\ OnHome => Home!SaveKeepsForm /\ Home!ListKeepsSection]_pagesvars
=============================================================================
