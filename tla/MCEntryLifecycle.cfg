SPECIFICATION FairSpec
CONSTANTS
  w1 = w1
  v1 = v1
  r1 = r1
  Watches <- MCWatches
  Trackers <- MCTrackers
  RouteTrackers <- MCRouteTrackers
  Parent <- MCParent
  Coordinators = {c1, c2, c3}
  Counts <- MCCounts
  DefaultCount = 2
  Trips = {t1, t2}
  OnRoute = {t1, t2}
  MaxVehicles = 1
  None = None
INVARIANTS TypeOK HandlesHeld OptionsApplied LimiterThere OneEntityPerTrip
PROPERTIES RetryEnds TrackerCatchesUp
