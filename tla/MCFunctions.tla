------------------------------ MODULE MCFunctions ------------------------------
(***************************************************************************)
(* The pure functions on small inputs, in two parts.  A purchase of        *)
(* num/den base sats grows by one step at a time, beside a total of sats   *)
(* earned that grows through the levels, and beside a price in cents.  Or  *)
(* a member buys and time passes, and the functions of the history follow. *)
(***************************************************************************)
EXTENDS RewardEngine, FraudRules, Insights

CONSTANTS
  MaxNum, Dens, MaxTotal,
  Step,         \* the hours that pass at a time
  MaxNow,
  MaxHistory    \* purchases and other moves of the wallet

MCLevels ==
  << [min_sats |-> 0,  multiplier |-> 10], [min_sats |-> 2,  multiplier |-> 11],
     [min_sats |-> 5,  multiplier |-> 12], [min_sats |-> 9,  multiplier |-> 13],
     [min_sats |-> 14, multiplier |-> 15] >>

MCRates == [dining |-> 3, travel |-> 1]
MCNames == <<"dining", "travel">>

ASSUME FunctionsAssumption == Dens \subseteq Nat \ {0} /\ Step \in Nat

VARIABLES num, den, total, boost, cents, history, moves, now

reward == <<num, den, total, boost, cents>>
member == <<history, moves, now>>
vars == <<reward, member>>

Init ==
  /\ num = 0 /\ total = 0 /\ cents = 0
  /\ den \in Dens
  /\ boost \in {10, 20}
  /\ history = << >> /\ moves = << >> /\ now = 0

NoMember == now = 0 /\ history = << >> /\ moves = << >>
NoReward == num = 0 /\ total = 0 /\ cents = 0 /\ den = 1 /\ boost = 10

Grow ==
  /\ num < MaxNum /\ cents = 0 /\ NoMember
  /\ num' = num + 1
  /\ UNCHANGED <<den, total, boost, cents, member>>

Earn ==
  /\ total < MaxTotal /\ cents = 0 /\ NoMember
  /\ total' = total + 1
  /\ UNCHANGED <<num, den, boost, cents, member>>

Price ==
  /\ num = 0 /\ total = 0 /\ cents < 200 /\ NoMember
  /\ cents' = cents + 1
  /\ UNCHANGED <<num, den, total, boost, member>>

ledger == WalletTransactions(history, moves)

Room == NoReward /\ Len(history) + Len(moves) < MaxHistory

Purchase(at, amount, category) ==
  [at |-> at, rewarded |-> at, entered |-> now, amount |-> amount, category |-> category,
   merchant |-> category, sats |-> amount * BaseRate[category]]

\* A purchase that waits for the wallet's lock is entered later than it is stamped.
Candidates ==
  {Purchase(at, amount, category) :
     at \in {now, now - 1} \cap Nat, amount \in {1, 4}, category \in DOMAIN BaseRate}

Buy ==
  /\ Room
  /\ \E p \in Candidates : history' = Append(history, p)
  /\ UNCHANGED <<reward, moves, now>>

\* A bonus, or what goes to a goal as far as the wallet has it.
Move ==
  /\ Room
  /\ \E sats \in {2, -1} :
       /\ Sats(ledger, DOMAIN ledger) + sats >= 0
       /\ moves' = Append(moves, [at |-> now, sats |-> sats])
  /\ UNCHANGED <<reward, history, now>>

Wait ==
  /\ NoReward /\ now < MaxNow
  /\ now' = now + Step
  /\ UNCHANGED <<reward, history, moves>>

Next == Grow \/ Earn \/ Price \/ Buy \/ Move \/ Wait

Spec == Init /\ [][Next]_vars

-----------------------------------------------------------------------------
Breakdown == calculate_reward(num, den, Multiplier(total), boost)

\* The parts shown to the cardholder are never negative, are exactly zero where the
\* multiplier is 1, and add up to what is paid; rounding up takes less than a dollar to
\* the next whole one, and nothing from whole dollars; sats_to_next is exactly what the
\* next level takes (reward_engine.py:26-45, 60-71, 88-102).
RewardIsExplained ==
  LET b == Breakdown
      i == LevelIndex(total)
      n == SatsToNext(total)
  IN  /\ b.base_sats >= 0 /\ b.level_bonus >= 0 /\ b.boost_bonus >= 0
      /\ Multiplier(total) = 10 => b.level_bonus = 0
      /\ boost = 10 => b.boost_bonus = 0
      /\ b.base_sats + b.level_bonus + b.boost_bonus = b.total_sats
      /\ (cents + spare_cents(cents)) % 100 = 0 /\ spare_cents(cents) < 100
      /\ cents % 100 = 0 => round_up_sats(cents, 30, 1700) = 0
      /\ IF i = 5 THEN n = 0 ELSE LevelIndex(total + n) = i + 1 /\ LevelIndex(total + n - 1) = i

\* A larger purchase, or a higher level, never pays less: rounding does not turn the
\* order of two rewards around (reward_engine.py:48-72).
NeverPaysLess == [][Breakdown'.total_sats >= Breakdown.total_sats]_vars

-----------------------------------------------------------------------------
Departures(f) ==
  {k \in {"amount"} : f.amount > 0}
    \cup {k \in {"expensive", "rare_hour", "merchant_is_new", "rare_category"} : f[k]}

AllFeatures ==
  [amount : 0..35, expensive : BOOLEAN, rare_hour : BOOLEAN, merchant_is_new : BOOLEAN,
   rare_category : BOOLEAN]

Values == {-1500, -301, -300, -17, -1, 0, 1, 49, 50, 77, 1500}

Trained == [train_min : {-300, -17, 0}, train_max : {0, 50, 77}]

\* It takes three departures from a member's habits to raise an alert by the rules, and
\* what is bought again at a usual price and hour departs in nothing else, as long as one
\* purchase in its category is a twentieth of them all; an outlier of the forest always
\* alerts, and a purchase no more normal than another is rated no lower
\* (anomaly_detector.py:113-203).
RiskFollowsDepartures ==
  /\ NoMember /\ NoReward =>
       /\ \A f \in AllFeatures :
            IsAnomaly(_heuristic_score(f)) => Cardinality(Departures(f)) >= 3
       /\ \A m \in Trained : \A d, e \in Values :
            /\ d < 0 => IsAnomaly(calibrate(d, m))
            /\ calibrate(d, m) \in 0..100
            /\ d <= e => calibrate(d, m) >= calibrate(e, m)
  /\ \A p \in Candidates : \A i \in DOMAIN history :
       LET h == history[i]
       IN  h.category = p.category /\ Hour(h) = Hour(p) /\ p.amount = 1 /\ Len(history) <= 20
             => Departures(_features(p, history)) \subseteq {"amount"}
  /\ LET scores == [i \in DOMAIN history |->
                      _heuristic_score(_features(history[i], SubSeq(history, 1, i - 1)))]
         s == get_fraud_summary(scores)
     IN  /\ s.low_risk_count >= 0
         /\ (\A i \in DOMAIN scores : ~ IsAnomaly(scores[i])) => s.protection_score = 100

\* The views agree as far as their rows do.  A wallet's curve ends at its balance, in every
\* period; it has grown by what was earned in the period, as the spending view has it and
\* its categories share it out, and by the wallet's other moves, and by the purchases
\* stamped before the period and entered in it; and the tax reports of all years share out
\* all rewards (analytics.py:41-63, 159-173, wallet.py:36-72).
ViewsAddUp ==
  /\ \A days \in WALLET_PERIOD_DAYS :
       LET growth == wallet_growth(ledger, now, days)
       IN  growth.points[Max(DOMAIN growth.points)] = Sats(ledger, DOMAIN ledger)
  /\ \A days \in PERIOD_DAYS :
       LET spent == spending(history, now, days)
       IN  spent.total_sats =
             SumOf([c \in DOMAIN spent.categories |-> spent.categories[c].sats_earned],
                   DOMAIN spent.categories)
  /\ \A days \in PERIOD_DAYS \cap WALLET_PERIOD_DAYS :
       LET since == days_ago(now, days)
       IN  wallet_growth(ledger, now, days).growth_sats =
             spending(history, now, days).total_sats
               + Sats(ledger, {i \in Since(ledger, since) : i < 0})
               + Sats(history, Rows(history, LAMBDA p : p.at < since /\ p.entered >= since))
  /\ LET events == RewardEvents(history)
         years  == 0..Date(now) \div YEAR
     IN  SumOf([y \in years |-> Sats(events, tax_report(events, y))], years)
           = Sats(events, DOMAIN events)

\* What a boost of a category, twice as much for its purchases, would have paid.
BoostWorth(c) ==
  Total(history, {i \in Considered(history, now) : history[i].category = c},
        LAMBDA p : calculate_reward(p.sats, 1, 10, 20).boost_bonus)

\* The forecast's weeks hold all the rewards of its window and start with one that has
\* some; a history of equal weeks, a new account's included, is called stable, and one
\* that never falls is not called decreasing, nor the other way round.  The boost that
\* is recommended is the one that would have paid the most (ml_forecast.py:77-133,
\* 272-281, smart_recommender.py:46-132).
PredictionsFollowHistory ==
  LET events == RewardEvents(history)
      y == _weekly_series(events, now)
      d == trend_direction(y)
      Over(R(_, _)) == \A i \in 2..Len(y) : R(y[i - 1], y[i])
      pick == recommend_boost(history, now)
  IN  /\ SumOf(y, DOMAIN y) = Sats(events, Rows(events, LAMBDA p :
                           p.at >= days_ago(now, 7 * LOOKBACK_WEEKS) /\ p.at < now))
      /\ y # << >> => y[1] > 0
      /\ has_enough_data(events, now) =>
           /\ Over(LAMBDA a, b : a = b) => d = "stable"
           /\ Over(LAMBDA a, b : a <= b) => d # "decreasing"
           /\ Over(LAMBDA a, b : a >= b) => d # "increasing"
      /\ pick # "none" => \A c \in Spending(history, now) : BoostWorth(c) <= BoostWorth(pick)
=============================================================================
