------------------------------- MODULE FraudRules -------------------------------
(***************************************************************************)
(* From a purchase to its risk score: app/anomaly_detector.py without the  *)
(* cache, which FraudDetector models.                                      *)
(*                                                                         *)
(* A purchase is [at, amount, category, merchant, ...], `at` in hours.     *)
(* The isolation forest is its decision value, a number of thousandths     *)
(* between the extremes of its training set and beyond.                    *)
(***************************************************************************)
EXTENDS Integers, Sequences, FiniteSets, Sums, Rounding

HOUR_WINDOW == 2
ANOMALY_THRESHOLD == 56

CALIBRATION_ANCHOR_AsCommented == 50

CALIBRATION_ANCHOR == 60
HOUR_NOVELTY_MARGIN == 10     \* in hundredths, as every rarity
MEDIUM_RISK == 30

Hour(p) == p.at % 24

Capped(x, limit) == IF x < limit THEN x ELSE limit

-----------------------------------------------------------------------------
(* The features of a purchase, as what the rules ask of them. *)

_circular_hour_distance(a, b) == LET gap == Max({a - b, b - a}) IN Capped(gap, 24 - gap)

Where(history, P(_)) == {i \in DOMAIN history : P(history[i])}

Nearby(hour, history) ==
  Where(history, LAMBDA h : _circular_hour_distance(Hour(h), hour) <= HOUR_WINDOW)

SumOver(history, rows, f(_)) == SumOf([i \in rows |-> f(history[i])], rows)

Spent(history, rows) == SumOver(history, rows, LAMBDA h : h.amount)

SameCategory(p, history) == Where(history, LAMBDA h : h.category = p.category)

\* How far the amount is from the mean of its category, and the variance of that
\* category, both times the square of their number.
Deviation(p, history) ==
  LET same == SameCategory(p, history)
  IN  Cardinality(same) * p.amount - Spent(history, same)

Variance(p, history) ==
  LET same  == SameCategory(p, history)
      spent == Spent(history, same)
  IN  Cardinality(same) * SumOver(history, same, LAMBDA h : h.amount * h.amount) - spent * spent

\* min(35, |z| * 11) to the point below; 0 with fewer than two purchases in the
\* category, or when those were all of one amount.
AmountPoints(p, history) ==
  LET variance  == Variance(p, history)
      deviation == Deviation(p, history)
  IN  IF Cardinality(SameCategory(p, history)) < 2 \/ variance = 0 THEN 0
      ELSE Max({k \in 0..35 : k * k * variance <= 121 * (deviation * deviation)})

\* hour_rarity > 0.95: as long as a history is capped at 500 rows, that is an hour none
\* of it is near.
_hour_rarity(p, history) == history # << >> /\ Nearby(Hour(p), history) = {}

_features(p, history) ==
  LET all == DOMAIN history
      n   == Len(history)
  IN  [amount     |-> AmountPoints(p, history),
       expensive  |-> n > 0 /\ Spent(history, all) > 0 /\ p.amount * n > 3 * Spent(history, all),
       rare_hour  |-> _hour_rarity(p, history),
       merchant_is_new |-> \A i \in all : history[i].merchant # p.merchant,
       rare_category   |-> 20 * Cardinality(SameCategory(p, history)) < n \/ n = 0]

Points(condition, n) == IF condition THEN n ELSE 0

_heuristic_score_Expensive25(f) ==
  Capped(f.amount + Points(f.expensive, 25) + Points(f.rare_hour, 15)
           + Points(f.merchant_is_new, 10) + Points(f.rare_category, 15), 100)

\* Until there is enough history to train on.
_heuristic_score(f) ==
  Capped(f.amount + Points(f.expensive, 20) + Points(f.rare_hour, 15)
           + Points(f.merchant_is_new, 10) + Points(f.rare_category, 15), 100)

-----------------------------------------------------------------------------
(* The forest's decision value d as a risk. *)

Thousand == 1000

\* Outliers between the anchor and 100, the deepest in training at 100; the others
\* below the anchor, the most normal in training at 0.
calibrate(d, m) ==
  IF d < 0
    THEN LET span == IF m.train_min < 0 THEN - m.train_min ELSE Thousand
         IN  Rounded(CALIBRATION_ANCHOR * span + (100 - CALIBRATION_ANCHOR) * Capped(- d, span),
                     span)
    ELSE LET span == IF m.train_max > 0 THEN m.train_max ELSE Thousand
         IN  Rounded(CALIBRATION_ANCHOR * (span - Capped(d, span)), span)

\* An hour beyond anything in the training set is flagged whatever the forest says.
WithNovelty(risk, rarity, m) ==
  IF rarity > m.hour_rarity_max + HOUR_NOVELTY_MARGIN THEN Max({risk, ANOMALY_THRESHOLD})
  ELSE risk

IsAnomaly(risk) == risk >= ANOMALY_THRESHOLD

-----------------------------------------------------------------------------
(* The summary of the risks of a member's purchases. *)

get_fraud_summary(risks) ==
  LET total  == Len(risks)
      high   == Cardinality(Where(risks, LAMBDA r : r >= ANOMALY_THRESHOLD))
      medium == Cardinality(Where(risks, LAMBDA r : r >= MEDIUM_RISK /\ r < ANOMALY_THRESHOLD))
  IN  [total_transactions_analyzed |-> total,
       high_risk_count   |-> high,
       medium_risk_count |-> medium,
       low_risk_count    |-> total - high - medium,
       protection_score  |-> IF total = 0 THEN 100 ELSE Rounded(100 * (total - high), total)]
=============================================================================
