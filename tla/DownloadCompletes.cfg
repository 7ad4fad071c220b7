SPECIFICATION FairSpec
CONSTANTS
  NumPieces = 2
  BlockCount <- MCBlockCount
  Peers = {r1}
  Objs = {o1, o2, o3, o4, o5}
  None = None
  MaxPending = 2
  SingleFile = FALSE
  Bitfields <- MCSeeds
  MaxLate = 0
  MaxBad = 1
  MaxFails = 0
  MaxChokes = 1
  MaxDrops = 1
  MaxUploads = 0
PROPERTIES DownloadCompletes CompleteIsSettled
CHECK_DEADLOCK FALSE
