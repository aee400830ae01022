---------------------------- MODULE Gamification ----------------------------
(***************************************************************************)
(* Streaks and badges: app/gamification.py, with the clock of app/clock.py.*)
(*                                                                         *)
(* Time is counted in half days: an even instant lies in the first hours   *)
(* of a UTC day (before NIGHT_OWL_END_HOUR), the odd one in the rest of it.*)
(***************************************************************************)
EXTENDS Integers, FiniteSets

CONSTANT
  BadgeAt       \* the thresholds of the badge table, one field a badge

\* No badge is given for nothing.
ASSUME BadgeAtAssumption ==
  LET Threshold == Nat \ {0}
  IN  BadgeAt \in [centurion : Threshold, streak_master : Threshold,
                   mountain_climber : Threshold, whale_alert : Threshold,
                   category_explorer : Threshold, precision_spender : Threshold,
                   lightning_fast : Threshold]

-----------------------------------------------------------------------------
utctoday(t) == t \div 2

IsNight(t) == t % 2 = 0

NoDay == -2     \* last_transaction_date before the first purchase

Streak == [current : Nat, longest : Nat, last : Nat \cup {NoDay}]

NewStreak == [current |-> 0, longest |-> 0, last |-> NoDay]

Extended_GapKeepsRun(streak, today) ==
  IF streak.last = today THEN streak.current ELSE streak.current + 1

\* update_streak: the same day leaves it, the next day extends it, a gap resets it.
Extended(streak, today) ==
  IF streak.last = today THEN streak.current
  ELSE IF streak.last = today - 1 THEN streak.current + 1
  ELSE 1

update_streak(streak, today) ==
  LET current == Extended(streak, today)
  IN  [current |-> current,
       longest |-> IF current > streak.longest THEN current ELSE streak.longest,
       last    |-> today]

-----------------------------------------------------------------------------
Badges == {"first_swipe", "centurion", "streak_master", "mountain_climber",
           "whale_alert", "category_explorer", "precision_spender",
           "lightning_fast", "night_owl", "diamond_hands"}

InCategory(mine, c) == {t \in mine : t.cat = c}

\* check_badges' conditions over the purchases `mine`, the running total of sats,
\* the level reached with it and the streak, at an instant of day `today`.
Conditions(mine, sats, level, streak, today) ==
  LET cats == {t.cat : t \in mine}
  IN  [first_swipe       |-> mine # {},
       centurion         |-> Cardinality(mine) >= BadgeAt.centurion,
       streak_master     |-> streak.current >= BadgeAt.streak_master,
       mountain_climber  |-> sats >= BadgeAt.mountain_climber,
       whale_alert       |-> sats >= BadgeAt.whale_alert,
       category_explorer |-> Cardinality(cats) >= BadgeAt.category_explorer,
       precision_spender |-> \E c \in cats :
                                Cardinality(InCategory(mine, c)) >= BadgeAt.precision_spender,
       lightning_fast    |-> Cardinality({t \in mine : utctoday(t.at) >= today})
                                >= BadgeAt.lightning_fast,
       night_owl         |-> \E t \in mine : IsNight(t.at),
       diamond_hands     |-> level = 5]

MetBadges(mine, sats, level, streak, today) ==
  {b \in Badges : Conditions(mine, sats, level, streak, today)[b]}
=============================================================================
