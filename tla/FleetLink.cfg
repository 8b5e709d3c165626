SPECIFICATION Spec
CONSTANTS
  Callers = {c1}
  MaxStreams = 2
  MaxWork = 2
INVARIANTS TypeOK PrefixStored ResultOfOwnCommand
PROPERTIES CallsReturn ShownConnected
CHECK_DEADLOCK FALSE
