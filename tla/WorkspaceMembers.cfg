SPECIFICATION MCSpec
CONSTANTS
  olga = olga
  ada = ada
  ben = ben
  None = None
  Users = {olga, ada, ben}
  Owner = olga
  Slots = {1, 2}
  Codes = {1, 2}
  Subscriptions = {1}
  FirstPlan = "personal"
  MaxDays = 1
  MaxFailures = 1

  
  
PROPERTY
  JoinsByInvitation
CHECK_DEADLOCK FALSE
