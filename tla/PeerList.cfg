SPECIFICATION FairPeersSpec
CONSTANTS
  u1 = u1
  u2 = u2
  Urls = {u1, u2}
  Replies <- MCReplies
  Times <- MCTimes
  Failing = TRUE
  MaxAccept = 2
INVARIANTS PeersInv
PROPERTIES Reconnects ErasesInactive
CHECK_DEADLOCK FALSE
