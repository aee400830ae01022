\* Two users, two alerts, three requests, and a price on either side of a target.
SPECIFICATION FairSpec
CONSTANTS
  Users = {"ann", "bob"}
  AlertIds = {1, 2}
  Requests = {1, 2, 3}
  Prices = {1, 2}
  Levels <- MCLevels
  FallbackPrice = 1
  MaxAlerts = 1
INVARIANTS ToldOnce FiredAtCrossing CapKept
PROPERTY EventuallyFires
