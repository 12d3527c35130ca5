CONSTANTS
  Intfs = {i1}
  Devs = {d1}
  Threads = {t1}
  NULL = NULL
  RingSize = 2
  SeqMod = 2
  MaxReports = 0
  Calls <- NoCalls
SPECIFICATION Spec
PROPERTY CdevOutlivesFile
