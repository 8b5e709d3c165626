SPECIFICATION Spec
CONSTANTS
  Modes <- MCModes
  MaxRestarts = 2
  RestartCap = 4
PROPERTY KillEndsStop
CHECK_DEADLOCK FALSE
