SPECIFICATION Spec
CONSTANTS
  ByteBits = 3
  MaxBytes = 3
  uint32_t = 8
  int64_t = 64
  MaxFiles = 3
  MaxLength = 3
  MaxPieceLength = 4
  MaxWords = 5
  RECURSION_LIMIT = 2
  MAX_STRING_LENGTH = 2
  Base = 2
INVARIANTS BitfieldAgreesWithSets BytesInPlace ReadsBack EncodedIsDecoded CutIsRefused ReturnsTheBody
CHECK_DEADLOCK FALSE
