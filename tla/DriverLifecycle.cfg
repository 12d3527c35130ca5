CONSTANTS
  Intfs = {i1, i2}
  Devs = {d1, d2, d3}
  Threads = {t1, t2}
  NULL = NULL
  RingSize = 2
  SeqMod = 4
  MaxReports = 0
  Calls <- NoCalls
SPECIFICATION Spec
SYMMETRY Symmetry
INVARIANTS TypeOK KrefAccounts FileKeepsDevice OneController ExitFreesAll
