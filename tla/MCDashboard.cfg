SPECIFICATION Spec
CONSTANTS
  Checkouts <- MCCheckouts
  ErrorLists <- MCErrorLists
  Forms <- MCForms
  Tags = {"out", "err"}
  Selections = {"all", "stderr"}
  FirstSelection = "all"
  Shows <- MCShows
  Limit = 2
  LogCap = 3
  MaxRows = 3
  MaxTicks = 2
  CredNames = {"n"}
  MaxLists = 2
  MaxTimers = 2
  MaxFleetPolls = 2
  Unserved = Unserved
  Unanswered = Unanswered
  Waiting = Waiting
  Failed = Failed
  Lost = Lost
  Nothing = Nothing
  NoData = NoData
  NoCfg = NoCfg
  NoSecret = NoSecret
  NoName = NoName
INVARIANTS TypeOK Listed LogShown ErrorsCurrent CfgCurrent
PROPERTIES CatchesUp ErrorStays LoginHolds
\* A log whose rows are all logged stops when the view is paused, and a page left
\* behind when its calls are answered.
CHECK_DEADLOCK FALSE
