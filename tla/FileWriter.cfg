SPECIFICATION FairSpec
CONSTANTS
  Pieces = {p1, p2}
  MaxAdds = 3
  MaxReads = 2
INVARIANTS IndInv ReadsWholePieces
PROPERTIES InOrder AddedIsHandled StopFinishes
CHECK_DEADLOCK FALSE
