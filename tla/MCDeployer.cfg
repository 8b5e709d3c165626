SPECIFICATION Spec
CONSTANTS
  Handlers = {h1, h2}
  Jobs = {j1}
  NoJob = NoJob
  Calls = {"deploy", "redeploy", "commit", "delete", "cliStart", "cliDelete"}
INVARIANTS
  TypeOK
  Exclusive
  
  DeletedIsGone
PROPERTIES
  SwapOnSuccess
  PhaseEnds
