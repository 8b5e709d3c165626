SPECIFICATION Spec
CONSTANTS
  Handlers = {h1}
  Jobs = {j1}
  NoJob = NoJob
  Calls = {"deploy", "delete"}
INVARIANT DeletedStaysDeleted
