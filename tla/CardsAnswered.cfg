\* Every request is answered.
SPECIFICATION FairSpec
CONSTANTS
  Users = {"ann", "bob"}
  Requests = {r1, r2, r3}
  Keys = {"k1", ""}
  NoKey = NoKey
  EmptyKey = ""
  Nobody = Nobody
  NoOwner = NoOwner
  Categories = {"dining", "travel"}
  GoalIds = {1, 2}
  Members = {"ann"}
  Menu <- WaitingMenu
  OpeningGoal <- OneGoal
  LEVELS <- MCLevels
  BadgeAt <- MCBadgeAt
  Payments <- MCPayments
  WelcomeSats = 8
  ReferrerSats = 5
  BoostLasts = 2
  MaxClock = 0
PROPERTIES EveryRequestAnswered
