\* Two purchases meant, two sessions, two calls in flight.
SPECIFICATION Spec
CONSTANTS
  MaxCalls = 2
  MaxMeant = 2
  MaxSessions = 2
INVARIANTS KeysFollowPurchases
PROPERTIES ForgottenOnlyWhenEnded SpinnersEnd
