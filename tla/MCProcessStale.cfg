SPECIFICATION Spec
CONSTANTS
  MaxPid = 2
  MaxQueue = 0
  Data <- MCData
  Paths <- MCPaths
  Preloaded <- MCPreloaded
  has_virtio_in_dtb = TRUE
INVARIANT DeadHasNoTableEntry
