SPECIFICATION Spec
CONSTANTS
  Names <- MCNames
  BadNames <- MCBadNames
  Pids = {1, 2}
  Handles = {0, 1, 2}
  MAX_SERVICES = 3
INVARIANTS
  UniqueNames
PROPERTY
  RefinesNameService
