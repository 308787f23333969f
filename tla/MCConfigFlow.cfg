SPECIFICATION FairSpec
CONSTANTS
  train = train
  bus = bus
  a1 = a1
  a2 = a2
  a3 = a3
  b = b
  x = x
  y = y
  Modes = {train, bus}
  Types = {1, 2}
  RouteTypes <- MCRouteTypes
  Stops = {a1, a2, a3, b}
  Siblings <- MCSiblings
  Code <- MCCode
  Ahead <- MCAhead
  Routes = {x, y}
  MaxRelease = 2
  Legs <- MCLegs
  Ids = {i1, i2}
  None = None
INVARIANTS
  TypeOK
  ImportComesFirst
  WatchesReachable
  FiltersServed
  KeyKnown
  LinkedToWatch
PROPERTIES
  WaitEnds
