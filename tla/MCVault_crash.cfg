\* One writing run; every call can fail, and the run can die between any two.
SPECIFICATION Spec
CONSTANTS
  Proc = {w}
  Writer = {w}
  Name = {a, b}
  MaxTmp = 0
  Id = {i, j}
  c1 = c1
  c2 = c2
  Content = {c1}
  Size <- MCSize
  Careful = TRUE
  Faults = {"write", "unlink", "crash"}
SYMMETRY Symmetry
INVARIANTS TypeOK ManifestReadable EveryEntryRecoverable NamesAndIdsUnique MemoryMatchesDisk
PROPERTIES EntriesLeaveOnlyOnRequest TransferSpec
