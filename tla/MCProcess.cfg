SPECIFICATION Spec
CONSTANTS
  MaxPid = 3
  Data <- MCData
  MaxQueue = 1
  Paths <- MCPaths
  Preloaded <- MCPreloaded
  has_virtio_in_dtb = TRUE
INVARIANTS
  PidsUnique
  EndpointMatches
  LifecycleMatches
  SpawnedIsVisible
  SpawnElfCallerIsFs
  CapsDenoteService
