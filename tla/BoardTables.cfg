SPECIFICATION MCSpec
CONSTANTS
  Cmds <- SeedCmds
  SpawnDefs = {}
  DrawDefs = {"loot.coin"}
  RowMods = {}
  ProgressionDecks <- CollectDeck
  MaxLeft = 2
  MaxDraws = 1
  MaxZombies = 0
  MaxZ = 19
  MaxCards = 8
INVARIANTS
  TypeOK
  EveryCardPlacedOnce
  DrawOrderTotal
  
PROPERTY VillagersSurvive
CHECK_DEADLOCK FALSE
