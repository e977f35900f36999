SPECIFICATION MCSpec
CONSTANTS
  None = None
  Emails = {"a", "b"}
  Invited = "a"
  Challenges = {1, 2}
  MaxAttempts = 1
  MaxFailures = 1
  MaxGestures = 6
INVARIANTS
  OneSessionPerCode
  InvitedSignsIn
  
PROPERTIES
  ComesToRest
CHECK_DEADLOCK FALSE
