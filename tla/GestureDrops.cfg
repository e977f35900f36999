SPECIFICATION MCSpec
CONSTANTS
  None = None
  FirstStacks <- TaskBoard
  Pointers = {1}
  MaxRefusals = 1
  MaxForeign = 1
  MaxZ = 15
INVARIANTS
  
  
  SplitTakesWhatWasDragged
CHECK_DEADLOCK FALSE
