\* The referral count misses a referral.
SPECIFICATION Spec
CONSTANTS
  Users = {"ann", "bob", "cat"}
  Requests = {r1, r2, r3}
  Keys = {"k1", ""}
  NoKey = NoKey
  EmptyKey = ""
  Nobody = Nobody
  NoOwner = NoOwner
  Categories = {"dining", "travel"}
  GoalIds = {1, 2}
  Members = {"ann"}
  Menu <- ReferralMenu
  OpeningGoal <- NoGoals
  LEVELS <- MCLevels
  BadgeAt <- MCBadgeAt
  Payments <- MCPayments
  WelcomeSats = 8
  ReferrerSats = 5
  BoostLasts = 2
  MaxClock = 0
INVARIANTS ReferralsCounted
