-------------------------------- MODULE Insights --------------------------------
(***************************************************************************)
(* What the app tells a member about a history: routers/analytics.py,      *)
(* routers/wallet.py, ml_forecast.py and smart_recommender.py.             *)
(*                                                                         *)
(* A history is a sequence of purchases in the order they were committed:  *)
(* [at, rewarded, entered, amount, category, sats, ...], with the hours,   *)
(* from midnight of a first of January, its transaction, its reward event  *)
(* and its row of the wallet's ledger are stamped with.  The events and    *)
(* the ledger have rows [at, sats].                                        *)
(***************************************************************************)
EXTENDS Integers, Sequences, FiniteSets, Sums, Rounding

CONSTANTS
  PERIOD_DAYS,      \* of the periods on offer: wallet.py has days of its own
  WALLET_PERIOD_DAYS,
  YEAR,             \* the days of a year
  LOOKBACK_WEEKS,   \* of the forecast
  LOOKBACK_DAYS,    \* of the recommender
  BaseRate,         \* of each category, in thousandths
  Names             \* the categories in alphabetical order

\* Every category has a rate, and its place among the names.
ASSUME InsightsAssumption ==
  /\ PERIOD_DAYS \subseteq Nat /\ WALLET_PERIOD_DAYS \subseteq Nat
  /\ {YEAR, LOOKBACK_WEEKS, LOOKBACK_DAYS} \subseteq Nat \ {0}
  /\ BaseRate \in [DOMAIN BaseRate -> Nat]
  /\ Names \in Seq(DOMAIN BaseRate)
  /\ \A c \in DOMAIN BaseRate : \E i \in DOMAIN Names : Names[i] = c

Date(at) == at \div 24

days_ago(now, days) == now - 24 * days

Rows(history, P(_)) == {i \in DOMAIN history : P(history[i])}

Since(history, at) == Rows(history, LAMBDA p : p.at >= at)

Total(history, rows, f(_)) == SumOf([i \in rows |-> f(history[i])], rows)

Sats(history, rows) == Total(history, rows, LAMBDA p : p.sats)

\* What a purchase is entered as in the other two tables.  The ledger holds the wallet's
\* other moves as well: round-ups, bonuses, what goes to a goal and comes back.  They are
\* numbered downwards from -1.
RewardEvents(history) ==
  [i \in DOMAIN history |-> [at |-> history[i].rewarded, sats |-> history[i].sats]]

WalletTransactions(history, moves) ==
  [i \in DOMAIN history \cup {- k : k \in DOMAIN moves} |->
     IF i > 0 THEN [at |-> history[i].entered, sats |-> history[i].sats] ELSE moves[- i]]

-----------------------------------------------------------------------------
(* The wallet over time: wallet_growth. *)

Opening(ledger, now, days) ==
  Sats(ledger, Rows(ledger, LAMBDA e : e.at < days_ago(now, days)))

Bucket(ledger, now, days, date) ==
  Sats(ledger, {i \in Since(ledger, days_ago(now, days)) : Date(ledger[i].at) = date})

PointDays_UpToYesterday(now, days) == 0..(days - 1)

\* One point for each date from that of days_ago to today's.
PointDays(now, days) == 0..days

\* The balance at the end of the i-th date.
Balance(ledger, now, days, i) ==
  Opening(ledger, now, days)
    + SumOf([j \in 0..i |-> Bucket(ledger, now, days, Date(days_ago(now, days)) + j)], 0..i)

Growth_SinceTheFirstPoint(points, opening) == points[Max(DOMAIN points)] - points[0]

\* What accrued during the period, day zero's activity included.
Growth(points, opening) == points[Max(DOMAIN points)] - opening

wallet_growth(ledger, now, days) ==
  LET points == [i \in PointDays(now, days) |-> Balance(ledger, now, days, i)]
  IN  [points |-> points, growth_sats |-> Growth(points, Opening(ledger, now, days))]

-----------------------------------------------------------------------------
(* Spending and the tax report. *)

spending(history, now, days) ==
  LET rows == Since(history, days_ago(now, days))
      cats == {history[i].category : i \in rows}
      In(c) == {i \in rows : history[i].category = c}
  IN  [total_spent |-> Total(history, rows, LAMBDA p : p.amount),
       total_sats  |-> Sats(history, rows),
       categories  |-> [c \in cats |->
                          [total_spent |-> Total(history, In(c), LAMBDA p : p.amount),
                           sats_earned |-> Sats(history, In(c)),
                           transaction_count |-> Cardinality(In(c))]]]

January1(year) == 24 * YEAR * year

InYear_Inclusive(at, year) == January1(year) <= at /\ at <= January1(year + 1)

InYear(at, year) == January1(year) <= at /\ at < January1(year + 1)

tax_report(events, year) == Rows(events, LAMBDA p : InYear(p.at, year))

-----------------------------------------------------------------------------
(* The forecast. *)

\* The rewards of each of the last weeks, from the first week with any.
WeekOf(at, now) == (at - days_ago(now, 7 * LOOKBACK_WEEKS)) \div (7 * 24)

Weeks(events, now) ==
  [w \in 1..LOOKBACK_WEEKS |->
     Sats(events, Rows(events, LAMBDA p : p.at >= days_ago(now, 7 * LOOKBACK_WEEKS) /\ p.at < now
                                            /\ WeekOf(p.at, now) = w - 1))]

_weekly_series_FromTheStart(events, now) == Weeks(events, now)

_weekly_series(events, now) ==
  LET weeks  == Weeks(events, now)
      active == {w \in DOMAIN weeks : weeks[w] > 0}
  IN  IF active = {} THEN << >> ELSE SubSeq(weeks, Min(active), LOOKBACK_WEEKS)

ActiveDays(events, now) ==
  {Date(events[i].at) : i \in Rows(events, LAMBDA p :
                                      p.at >= days_ago(now, 7 * LOOKBACK_WEEKS) /\ p.at < now)}

NonEmpty(y) == {i \in DOMAIN y : y[i] > 0}

has_enough_data(events, now) ==
  /\ Cardinality(ActiveDays(events, now)) >= 3
  /\ Cardinality(NonEmpty(_weekly_series(events, now))) >= 2

\* The least-squares slope of at least two weeks is Rise / Run.
Numbers(y) == [i \in DOMAIN y |-> i]

Rise(y) == Len(y) * SumOf([i \in DOMAIN y |-> i * y[i]], DOMAIN y)
             - SumOf(Numbers(y), DOMAIN y) * SumOf(y, DOMAIN y)

Run(y) == Rise(Numbers(y))

\* A slope of more than a twentieth of the mean of the weeks with rewards.
trend_direction(y) ==
  LET slope     == 20 * Rise(y) * Cardinality(NonEmpty(y))
      tolerance == SumOf(y, DOMAIN y) * Run(y)
  IN  IF slope > tolerance THEN "increasing"
      ELSE IF slope < - tolerance THEN "decreasing" ELSE "stable"

-----------------------------------------------------------------------------
(* The boost recommender. *)

Considered(history, now) ==
  Rows(history, LAMBDA p : p.at >= days_ago(now, LOOKBACK_DAYS) /\ p.at < now)

Volume(history, now, c) ==
  Total(history, {i \in Considered(history, now) : history[i].category = c}, LAMBDA p : p.amount)

ExpectedValue_ByVolume(history, now, c) == Volume(history, now, c)

\* What a boost of the category would have paid on top.
ExpectedValue(history, now, c) == Volume(history, now, c) * BaseRate[c]

Spending(history, now) == {history[i].category : i \in Considered(history, now)}

Rank(c) == CHOOSE i \in DOMAIN Names : Names[i] = c

\* Exact ties go to the category that comes first by name.
Ahead(history, now, c, d) ==
  LET value(x) == ExpectedValue(history, now, x)
  IN  value(c) > value(d) \/ (value(c) = value(d) /\ Rank(c) < Rank(d))

recommend_boost(history, now) ==
  LET cats == Spending(history, now)
  IN  IF Cardinality(Considered(history, now)) < 3 THEN "none"
      ELSE CHOOSE c \in cats : \A d \in cats \ {c} : Ahead(history, now, c, d)
=============================================================================
