SPECIFICATION Spec
CONSTANTS
  Procs = {2, 3}
  Vmm = 3
  NumFrames = 3
  NumPages = 2
  MaxLen = 2
INVARIANTS    NoCircularWait
 
CHECK_DEADLOCK FALSE
