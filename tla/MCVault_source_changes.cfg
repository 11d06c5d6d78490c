\* The source changes while it is being added.
SPECIFICATION Spec
CONSTANTS
  Proc = {w}
  Writer = {w}
  Name = {a, b}
  MaxTmp = 0
  Id = {i, j}
  c1 = c1
  c2 = c2
  Content = {c1, c2}
  Size <- MCSize
  Careful = FALSE
  Faults = {}
SYMMETRY Symmetry
INVARIANT EveryEntryRecoverable
