CONSTANTS
  c1 = c1
  c2 = c2
  f1 = f1
  f2 = f2
  StagedFile <- Files
  Client <- Connections
  MaxStarts = 3
  MaxCalls = 2
  MaxCrashes = 1
  MaxFailures = 1
  MaxEjects = 1
  MaxWrites = 2
  MaxEvents = 3
SPECIFICATION FairSpec
INVARIANTS OneDaemon VolumeKnown
PROPERTIES ReusesOwn NothingLost StartEnds
CHECK_DEADLOCK FALSE
