SPECIFICATION MCFairSpec
CONSTANTS
  north = north
  south = south
  None = None
  Stacks = {north, south}
  First <- OneCharge
  Slots = {1, 2}
  Others = {"stamina", "remove", "refill"}
  MaxAge = 6
  MaxChanges = 2
  MaxFailures = 1
INVARIANTS
  PaidWhatItEarned
PROPERTY
  MinesOut
CHECK_DEADLOCK FALSE
