SPECIFICATION FairSpec
CONSTANTS
  a = a
  b = b
  d = d
  Clients = {a, b, d}
  NumPieces = 2
  Dials <- MCDials
  Has <- MCHas
  SingleFile = TRUE
  MaxPending = 1
  MaxSlots = 2
  MaxTrouble = 1
INVARIANTS Inv
PROPERTIES RequestsAreServed AllComplete
CHECK_DEADLOCK FALSE
