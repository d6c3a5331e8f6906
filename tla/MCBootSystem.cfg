SPECIFICATION FairSystemSpec
CONSTANTS
  BootCfgs <- MCBootCfgs
  Preloaded <- MCPreloaded
  Names = {}
  DeviceKeys = {}
  Pids = {}
  Caps = {}
  Data = {}
  MaxPid = 6
  MaxQueue = 0
  MAX_SERVICES = 8
  MAX_DEPS = 4
  PING_TRIES = 1
  EXEC_TRIES = 1
  PROBE_INTERVAL = 1
  RETRY_DELAY = 1
  STREAK_MAX = 3
INVARIANTS StartOrder LogsReachSerial StartedOnce 
PROPERTIES ServersComeUp
