SPECIFICATION MCSpec
CONSTANTS
  None = None
  Nil = None
  OfBoards = {"b1", "b2"}
  DefaultBoard = "b1"
  Cards = {1, 2}
  CardTasks = {1, 2, 3}
  Texts <- CardTexts
  Levels = {1, 4}
  HomeTasks = {1, 2}
  HomeProjects = {"board", "work"}
  LiveProjects = {"board"}
  SectionNames = {"s"}
  TeamMates = {"mate"}
  User = "me"
  Addresses = {"x", "y"}
  GivenRoles = {"editor", "reader"}
  Calendars = {"one", "two"}
  Consents = {1}
  Outsiders = {"x"}
  BoardTitles = {"one", "two"}
  Chains = {1, 2}
  MaxLost = 1
  MaxSubmissions = 2
  MaxTeamCalls = 2
  Tasks = {1, 2, 3}
  Projects = {"board"}
  Boards = {"board"}
  Days = {"none", "overdue", "later"}
  PageLimit = 3
  MaxCalls = 1
  MaxFailures = 1
  MaxGestures = 4
INVARIANTS
  ShowsRows
  BoardCardsAgree
  PreviewsAreTheTasks
  TeamShowsWhatIsThere
  TeamInvitesWithOneRole
  ProfileShowsWhatIsHeld
  SettingsShowTheBoard
PROPERTIES
  DialogsKeepWhatWasTyped
CHECK_DEADLOCK FALSE
