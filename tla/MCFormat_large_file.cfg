\* A content longer than its length field can say.
CONSTANTS
  Byte <- MCByte
  Word = 4
  MaxEntries = 2
  MinIterations = 2
  MinSalt = 1
  MaxSalt = 2
  MaxFileBytes = 32
  Kind = {"object"}
  MaxString = 1
  MaxList = 1
  MaxContent = 4
  Cells = 128
  Stream <- MCStream
  TagBase = 200
  Password = {1}
SPECIFICATION SealingSpec
CHECK_DEADLOCK FALSE
INVARIANT LoadsWhatWasSaved
