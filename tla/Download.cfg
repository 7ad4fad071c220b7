SPECIFICATION Spec
CONSTANTS
  NumPieces = 2
  BlockCount <- MCBlockCount
  Peers = {r1, r2}
  Objs = {o1, o2, o3, o4, o5}
  None = None
  MaxPending = 2
  SingleFile = TRUE
  Bitfields <- MCBitfields
  MaxLate = 1
  MaxBad = 1
  MaxFails = 1
  MaxChokes = 1
  MaxDrops = 1
  MaxUploads = 1
VIEW MCView
SYMMETRY MCSymmetry
CONSTRAINT MCScenario
INVARIANTS IndInv PublishedStays PendingIsOutstanding
PROPERTIES FirstCompletionIsGood PiecesAreKept
CHECK_DEADLOCK FALSE
