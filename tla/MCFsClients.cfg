SPECIFICATION ClientsSpec
CONSTANTS
  MaxTries = 1
  FS_RETRY_MAX = 2
  MaxEvents = 3
INVARIANTS   PassedMeansStored
CHECK_DEADLOCK FALSE
