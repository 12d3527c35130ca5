CONSTANTS
  Intfs = {i1}
  Devs = {d1}
  Threads = {t1, t2}
  NULL = NULL
  RingSize = 4
  SeqMod = 4
  MaxReports = 4
  Calls <- ReaderCalls
SPECIFICATION Spec
INVARIANTS StreamMemory NoLostWakeup RingIsNewest DeliveredOnce PollThenRead
