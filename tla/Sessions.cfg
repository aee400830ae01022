\* Two threads; two passwords, two changes, two set-ups, two backup codes.
SPECIFICATION Spec
CONSTANTS
  Threads = {t1, t2}
  Passwords = {"old", "new"}
  Codes = {1, 2}
  NoFingerprint = NoFingerprint
  MaxChanges = 1
  MaxSetups = 2
CONSTRAINT Scenarios
SYMMETRY Symmetry
INVARIANTS CodesAreExact EnabledIsProven
PROPERTY TokensEndWithPassword
