\* A writing run and one that extracts beside it.
SPECIFICATION Spec
CONSTANTS
  Proc = {w, r}
  Writer = {w}
  Name = {a, b}
  MaxTmp = 0
  Id = {i}
  c1 = c1
  c2 = c2
  Content = {c1, c2}
  Size <- MCSize
  Careful = TRUE
  Faults = {"write"}
SYMMETRY Symmetry
INVARIANTS ObjectInv NoOrphanObject
