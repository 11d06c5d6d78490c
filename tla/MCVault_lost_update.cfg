\* Two writing runs have the vault open at once.
SPECIFICATION Spec
CONSTANTS
  Proc = {w, x}
  Writer = {w, x}
  Name = {a, b}
  MaxTmp = 0
  Id = {i, j}
  c1 = c1
  c2 = c2
  Content = {c1}
  Size <- MCSize
  Careful = TRUE
  Faults = {}
SYMMETRY Symmetry
PROPERTY EntriesLeaveOnlyOnRequest
