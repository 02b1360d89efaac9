SPECIFICATION FairSpec
CONSTANTS
  i1 = i1
  i2 = i2
  Requests = {i1, i2}
  MaxLifetimes = 2
  MaxConfigs = 1
INVARIANTS FreshMeansDrained CapacityAccounted
PROPERTIES CommitsInOrder CleanEnd AmbiguityCleared
CHECK_DEADLOCK FALSE
