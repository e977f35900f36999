SPECIFICATION MCSpec
CONSTANTS
  c1 = c1
  c2 = c2
  c3 = c3
  Clients <- ThreeClients
  Ops <- ClosingOps
  MaxCount = 3
  MaxSeries = 2
  MaxRows = 4
  MaxProcessed = 2
SYMMETRY AnyClient
CHECK_DEADLOCK FALSE
INVARIANT PaidFor
INVARIANT ClosingOpensOne
INVARIANT ClosingKeepsCount
PROPERTY Implements
