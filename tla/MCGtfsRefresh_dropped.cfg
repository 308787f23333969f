CONSTANTS
  t1 = t1
  t2 = t2
  NoFile = NoFile
  Tasks <- MCOneTask
  Modes <- MCModes
  ModeBundles <- MCModeBundles
  MaxRelease = 3
  Folders <- MCFolders
  Shares <- MCShares
  MaxTag = 4
  MaxFaults = 0
SPECIFICATION FairSpec
PROPERTY
  EntriesKeepBundles
