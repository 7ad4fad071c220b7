SPECIFICATION FairSpec
CONSTANTS
  Pieces = {p1, p2}
  MaxAdds = 1
  MaxReads = 1
PROPERTIES ReadReturns
CHECK_DEADLOCK FALSE
