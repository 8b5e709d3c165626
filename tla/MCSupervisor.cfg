SPECIFICATION Spec
CONSTANTS
  Modes <- MCModes
  MaxRestarts = 2
  RestartCap = 4
INVARIANTS
  TypeOK
  LeaderWatched
  SpawnBudget
  PublishedTruth
  EndVerdict
  HookPerRestart
PROPERTIES
  StopWins
  CancelEnds
  CrashLoopEnds
  LifecycleSpec
\* The goroutine returns and the processes end: the system really stops.
CHECK_DEADLOCK FALSE
