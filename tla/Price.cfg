\* Two callers from a cold start: quotes go stale and the back-off ends within the clock.
SPECIFICATION PriceSpec
CONSTANTS
  Callers = {c1, c2}
  CacheTime = 1
  MaxAge = 3
  Backoff = 2
  MaxFetch = 1
  MaxClock = 7
SYMMETRY Symmetry
INVARIANTS PaidIsRecent OutageIsWaitedForOnce
