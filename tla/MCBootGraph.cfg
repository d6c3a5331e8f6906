SPECIFICATION TextSpec
CONSTANTS
  MAX_SERVICES = 2
  MAX_DEPS = 2
  MaxLines = 6
  TextLines <- MCLines
INVARIANT
  ParseIsDeclarative
PROPERTY
  ParseIsStable
CHECK_DEADLOCK FALSE
