CONSTANTS
  Byte <- MCByte
  Word = 16
  MaxEntries = 2
  MinIterations = 2
  MinSalt = 1
  MaxSalt = 2
  MaxFileBytes = 32
  Kind = {"list", "manifest", "object", "meta"}
  MaxString = 2
  MaxList = 2
  MaxContent = 3
  Cells = 128
  Stream <- MCStream
  TagBase = 200
  Password = {1, 2}
SPECIFICATION SealingSpec
CHECK_DEADLOCK FALSE
INVARIANTS LoadsWhatWasSaved DamageIsRefused AadIsInjective OpensWhatWasSealed AlteredIsRefused
