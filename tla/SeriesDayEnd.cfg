SPECIFICATION Spec
CONSTANTS
  c1 = c1
  c2 = c2
  Clients <- TwoClients
  Ops <- DailyOps
  MaxCount = 2
  MaxSeries = 1
  MaxRows = 3
  MaxProcessed = 2
SYMMETRY AnyClient
CHECK_DEADLOCK FALSE
INVARIANT OneOpenPerSeries
