SPECIFICATION FairSpec
CONSTANTS
  Endpoints = 2
  MaxWrites = 4
  MaxNotify = 2
INVARIANTS Inv SentInOrder
PROPERTIES AllSent
CHECK_DEADLOCK FALSE
