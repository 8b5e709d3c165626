SPECIFICATION Spec
CONSTANTS
  Modes <- MCModes
  MaxRestarts = 2
  RestartCap = 4
INVARIANT NoLeftovers
CHECK_DEADLOCK FALSE
