\* Every input of up to thirteen bytes, in blocks of two; a share of one block may
\* leave a later thread nothing, and counters wrap.
SPECIFICATION FairSpec
CONSTANTS
  BlockSize = 2
  Threshold = 4
  BytesPerWorker = 2
  MaxWorkers = 4
  Period = 8
  Base = 2
  Bytes = 3
  Word = 16
  Sizes <- MCSizes
  Cores <- MCCores
INVARIANTS CtrInv CountersAreNumbers
PROPERTIES ImplementsCtr Terminates
CHECK_DEADLOCK FALSE
