\* Two callers ask a process that has just started.
SPECIFICATION PriceSpec
CONSTANTS
  Callers = {c1, c2}
  CacheTime = 1
  MaxAge = 3
  Backoff = 2
  MaxFetch = 1
  MaxClock = 7
SYMMETRY Symmetry
INVARIANT NeverPaysInvented
