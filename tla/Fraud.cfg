\* Two members, three threads and a cache of one model.
SPECIFICATION Spec
CONSTANTS
  Users = {ann, bob}
  Threads = {t1, t2, t3}
  HistoryLimit = 4
  MinHistory = 1
  RefitInterval = 2
  CacheSize = 1
  MaxPaid = 4
SYMMETRY Symmetry
INVARIANTS FreshBelowLimit MissingOnlyIfPushed CacheHoldsMembers
