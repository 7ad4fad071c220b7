SPECIFICATION FairSpec
CONSTANTS
  Scripts <- MCScripts
  Incoming <- MCIncoming
INVARIANTS Inv
PROPERTIES AllHandled
CHECK_DEADLOCK FALSE
