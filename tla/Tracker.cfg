SPECIFICATION FairSpec
CONSTANTS
  t1 = t1
  t2 = t2
  main = main
  second = second
  h1 = h1
  h2 = h2
  u1 = u1
  Trackers = {h1, h2, u1}
  Torrents = {t1, t2}
  Threads = {main, second}
  torrent <- MCTorrent
  Udp = {u1}
  announce_list <- MCTiers
  Requested = {"UNSPECIFIED", "STOPPED", "COMPLETED"}
  MaxRequests = 1
INVARIANTS Inv HttpTiersAreTried
PROPERTIES RequestEnds
CHECK_DEADLOCK FALSE
