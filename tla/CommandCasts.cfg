SPECIFICATION MCSpec
CONSTANTS
  c1 = c1
  c2 = c2
  create = create
  place = place
  edit = edit
  d1 = d1
  d2 = d2
  s1 = s1
  t1 = t1
  Gestures <- Tabs
  KindOf <- KindOfTab
  Target <- OneTask
  Tasks = {t1}
  Sessions = {s1}
  Deliveries = {d1, d2}
  SessionOf <- Session
  MaxFaults = 2
INVARIANTS
  
  NoPlacingUnseen
PROPERTIES
  Linearizable
  PayingIsAnswered
  PaidSessionDelivered
CHECK_DEADLOCK FALSE
