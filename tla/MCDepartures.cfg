SPECIFICATION Spec
CONSTANTS
  a1 = a1
  a2 = a2
  b1 = b1
  b2 = b2
  c1 = c1
  t1 = t1
  t2 = t2
  t3 = t3
  t4 = t4
  t5 = t5
  x = x
  y = y
  None = None
  Day = 8
  Cutover = 1
  Window = 2
  Week = 2
  Stops = {a1, a2, b1, b2, c1}
  Trips = {t1, t2, t3, t4, t5}
  Station <- MCStation
  Platform <- MCPlatform
  Schedule <- MCSchedule
  Watches <- MCWatches
  Feeds <- MCFeeds
  Lags = {0, 3}
  Horizon = 20
INVARIANTS
  TypeOK
  ShownDeparts
  
  DestinationServed
  Catchable
  
PROPERTIES
  StaysOnBoard
