SPECIFICATION Spec
CONSTANTS
  a = a
  b = b
  Names = {a, b}
  Slots <- MCSlots
  Envs = {e1, e2}
  Rpc = {r1}
  Background = {m1}
  Main = Main
  All = All
  NoOne = NoOne
  Gens = {1, 2}
  MaxId = 2
INVARIANT NoneOutlivesDaemon
\* The daemon exits.
CHECK_DEADLOCK FALSE
