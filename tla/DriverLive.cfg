CONSTANTS
  Intfs = {i1}
  Devs = {d1}
  Threads = {t1, t2}
  NULL = NULL
  RingSize = 2
  SeqMod = 1
  MaxReports = 1
  Calls <- MixedCalls
SPECIFICATION FairSpec
PROPERTIES ReadersReleased DisconnectCompletes IoctlReturns
