\* Purchases of up to MaxNum/den base sats at every level, prices to two dollars, and
\* histories of MaxHistory purchases over a little more than the forecast's weeks.
SPECIFICATION Spec
CONSTANTS
  LEVELS <- MCLevels
  BaseRate <- MCRates
  Names <- MCNames
  PERIOD_DAYS = {2, 7, 30}
  WALLET_PERIOD_DAYS = {2, 7, 10}
  YEAR = 7
  LOOKBACK_WEEKS = 3
  LOOKBACK_DAYS = 7
  MaxNum = 60
  Dens = {1, 3, 7, 10}
  MaxTotal = 16
  Step = 84
  MaxNow = 588
  MaxHistory = 3
INVARIANTS RewardIsExplained RiskFollowsDepartures ViewsAddUp
INVARIANT PredictionsFollowHistory
PROPERTY NeverPaysLess
CHECK_DEADLOCK FALSE
