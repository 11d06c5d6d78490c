\* Two writing runs save at once, through one temporary name.
SPECIFICATION Spec
CONSTANTS
  Proc = {w, x}
  Writer = {w, x}
  Name = {a, b}
  MaxTmp = 0
  Id = {i, j}
  c1 = c1
  c2 = c2
  Content = {c1}
  Size <- MCSize
  Careful = TRUE
  Faults = {}
SYMMETRY Symmetry
INVARIANT ManifestReadable
