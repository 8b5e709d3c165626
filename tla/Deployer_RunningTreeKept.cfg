SPECIFICATION Spec
CONSTANTS
  Handlers = {h1}
  Jobs = {j1}
  NoJob = NoJob
  Calls = {"deploy"}
INVARIANT RunningTreeKept
\* Commands stop coming.
CHECK_DEADLOCK FALSE
