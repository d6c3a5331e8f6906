SPECIFICATION FairSpec
CONSTANTS
  BootCfgs <- LiveCfgs
  Preloaded <- MCPreloaded
  Names <- MCNames
  DeviceKeys <- MCDeviceKeys
  Pids = {2}
  Caps = {1, 2}
  MAX_SERVICES = 3
  MAX_DEPS = 2
  PING_TRIES = 2
  EXEC_TRIES = 2
  PROBE_INTERVAL = 2
  RETRY_DELAY = 2
  STREAK_MAX = 4
PROPERTIES
  ReturnsToLoop
  FailureIsResolved
  RestartComesBack
