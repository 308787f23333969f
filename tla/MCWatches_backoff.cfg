CONSTANTS
  w1 = w1
  w2 = w2
  None = None
  Clients <- MCClients
  Feeds <- MCFeeds
  TTL = 2
  Timeout = 1
  BackoffInitial = 2
  BackoffMax = 3
SPECIFICATION FairSpec
PROPERTY
  BackoffRunsOut
