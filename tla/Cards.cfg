\* Money, goals, referrals, closed accounts, settings, days and boosts, one scenario at a time.
SPECIFICATION Spec
CONSTANTS
  Users = {"ann", "bob", "cat"}
  Requests = {r1, r2, r3, r4}
  Keys = {"k1", ""}
  NoKey = NoKey
  EmptyKey = ""
  Nobody = Nobody
  NoOwner = NoOwner
  Categories = {"dining", "travel"}
  GoalIds = {1, 2}
  Members = {"ann"}
  Menu <- CardsMenu
  OpeningGoal <- OneGoal
  LEVELS <- MCLevels
  BadgeAt <- MCBadgeAt
  Payments <- MCPayments
  WelcomeSats = 8
  ReferrerSats = 5
  BoostLasts = 2
  MaxClock = 6
CONSTRAINT CardsScenario
SYMMETRY Symmetry
INVARIANTS TypeOK WalletIsLedger NeverOverdrawn PaidOnce LedgerIsBacked AnswersAreTrue
INVARIANTS ReferralsPaid RacesNeverErr OnlyDeletionDeadlocks NoOrphans
INVARIANTS StreakIsRun CountedBadges NeverOverpaid
PROPERTY ImplementsBank
