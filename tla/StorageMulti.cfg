SPECIFICATION FairSpec
CONSTANTS
  NumPieces = 4
  NumFiles = 2
  FilesOf <- MCTwoFiles
  SingleFile = FALSE
  ByteBits = 3
  MaxCrashes = 2
  MaxFails = 2
INVARIANTS IndInv
PROPERTIES PiecesAreDurable ResumesToTheEnd
CHECK_DEADLOCK FALSE
