\* Two threads, a short window and a long one, and sweeps between.
SPECIFICATION Spec
CONSTANTS
  Callers = {c1, c2}
  Keys = {"tx", "register"}
  Limit <- MCLimit
  Window <- MCWindow
  SweepInterval = 2
  MaxClock = 5
  MaxHits = 3
SYMMETRY Symmetry
INVARIANTS LimitIsLimit IdleKeysReclaimed
PROPERTY FailsOnlyOverlapped
