CONSTANTS
  t1 = t1
  t2 = t2
  NoFile = NoFile
  Tasks <- MCTwoTasks
  Modes <- MCBus
  ModeBundles <- MCBusBundles
  MaxRelease = 2
  Folders <- MCBusFolders
  Shares <- MCShares
  MaxTag = 2
  MaxFaults = 1
SPECIFICATION FairSpec
INVARIANTS
  ReadyHasRows
PROPERTIES
  Heals
