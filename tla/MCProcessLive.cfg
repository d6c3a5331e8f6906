SPECIFICATION FairSpec
CONSTANTS
  MaxPid = 3
  Data <- MCData
  MaxQueue = 0
  Paths <- MCPaths
  Preloaded <- MCPreloaded
  has_virtio_in_dtb = TRUE
PROPERTIES
  ExitReclaims
  
