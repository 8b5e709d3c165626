SPECIFICATION Spec
CONSTANTS
  a = a
  b = b
  Names = {a, b}
  Slots <- MCSlots
  Envs = {e1, e2}
  Rpc = {r1, r2}
  Background = {}
  Main = Main
  All = All
  NoOne = NoOne
  Gens = {1, 2}
  MaxId = 2
INVARIANTS
  TypeOK
  OneLivePerLabel
  NoOrphanGoroutine
  SpecCurrent
  RollingReload
  NoneOutlivesDaemon
  UniqueIds
PROPERTIES
  CallsReturn
  ShutdownEnds
\* The daemon exits.
CHECK_DEADLOCK FALSE
