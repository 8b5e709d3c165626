SPECIFICATION Spec
CONSTANTS
  Savers = {s1, s2}
  Names = {a, b}
  Specs = {v}
  None = None
  Open = Open
  Empty = Empty
  Garbled = Garbled
  Inodes = {1, 2, 3}
INVARIANTS TypeOK PromiseKept
SYMMETRY Symmetry
