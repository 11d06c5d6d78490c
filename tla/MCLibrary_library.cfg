\* SM3 up to nine bytes; HKDF up to and past its last block, PBKDF2 up to,
\* at and past the sizes whose blocks its counter numbers and cannot count past.
SPECIFICATION LibrarySpec
CONSTANTS
  Base = 3
  Block = 4
  LengthSize = 2
  Bits = 1
  Word = 14
  MaxMessage = 9
  Piece <- MCPiece
  Key <- MCKey
  Digest <- MCDigest
  Ipad <- MCIpad
  Opad <- MCOpad
  Object = {a, b}
  Local = 2
  MaxBytes = 3
  Bit = {0, 1}
  Rounds = 5
  Transform <- MCTransform
  TransformKey <- MCTransformKey
  Fk <- MCFk
  Ck <- MCCk
  CipherKey <- MCCipherKey
  Plain <- MCPlain
  MacSize = 3
  CounterValues = 8
  BlockValues = 8
  MaxIterations = 4
  HkdfSizes = {0, 1, 2, 3, 4, 11, 12, 13, 20, 21, 22, 24, 25}
  Pbkdf2Sizes = {0, 1, 2, 3, 4, 8, 9, 10, 16, 17, 18, 21, 22, 24, 25}
  MaxSize = 10
  Line <- MCLine
  Stoul <- MCStoul
  UInt32Max = 15
  Default = "7"
INVARIANTS BufferInv NothingLeft OneOwner RoundTrip IsHkdf IsPbkdf2 NoByteUnfilled
INVARIANTS Understood EveryWordUsed KeptIfAsked EchoRestored LeavesNoVaultKey
PROPERTIES ImplementsHash IsHmac Answered Answers
CHECK_DEADLOCK FALSE
