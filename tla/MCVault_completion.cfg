\* Nothing fails and every command goes on.  No symmetry: the properties are temporal.
SPECIFICATION FairSpec
CONSTANTS
  Proc = {w, r}
  Writer = {w}
  Name = {a, b}
  MaxTmp = 0
  Id = {i}
  c1 = c1
  c2 = c2
  Content = {c1, c2}
  Size <- MCSize
  Careful = TRUE
  Faults = {}
PROPERTIES MoveInCompletes MoveOutCompletes
