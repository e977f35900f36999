SPECIFICATION MCSpec
CONSTANTS
  home = home
  team = team
  seed = seed
  refused = refused
  accepted = accepted
  f1 = f1
  t1 = t1
  Boards <- TwoBoards
  Default = home
  Seed = seed
  Gestures = {refused, accepted}
  Optimistic = {refused, accepted}
  Refused = {refused}
  Foreign = {f1}
  Tasks = {t1}
  BoardOf <- OnHome
  Quiet = {accepted}
  Jobs <- TwoSlots
  MaxSwitches = 1
  MaxFailures = 1
INVARIANTS
  CacheKeepsBoards
  ShowsServerContent
PROPERTY
  Reconciles
CHECK_DEADLOCK FALSE
