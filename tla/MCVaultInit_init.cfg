\* Two init commands and a run that adds, overlapping in every way.
SPECIFICATION Spec
CONSTANTS
  Initer = {i1, i2}
  User = {u1}
  Key = {k1, k2, k3}
  Entry = {e1, e2}
  Faults = {"write", "crash"}
SYMMETRY Symmetry
INVARIANTS VaultOpens OneKeyPerEntry
PROPERTIES KeyNeverReplaced AddedEntriesStay
CHECK_DEADLOCK FALSE
