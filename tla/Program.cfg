SPECIFICATION FairSpec
CONSTANTS
  t1 = t1
  t2 = t2
  r1 = r1
  None = None
  Torrents = {t1, t2}
  Remotes = {r1}
  wants <- MCWants
  MaxThrown = 1
INVARIANTS Inv
PROPERTIES TimersGoOn Served AllEnd
CHECK_DEADLOCK FALSE
