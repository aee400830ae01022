---------------------------- MODULE RewardEngine ----------------------------
(***************************************************************************)
(* Cashback arithmetic: app/reward_engine.py.                              *)
(*                                                                         *)
(* Every operator is pure, as in the source.  Sats before rounding are the *)
(* exact rational num/den, where the code has a double; multipliers are    *)
(* whole tenths (1.1 is 11), which is how every multiplier of LEVELS and   *)
(* the 2x boost can be written.                                            *)
(***************************************************************************)
EXTENDS Integers, Sequences, Rounding

CONSTANT
  LEVELS        \* the level table, a sequence of [min_sats, multiplier]

LevelRow == [min_sats : Nat, multiplier : Nat]

\* Five levels, the first one held from the start at the base rate, a higher one taking
\* more sats and never paying less (reward_engine.py:11-17).
ASSUME LevelsAssumption ==
  /\ LEVELS \in [1..5 -> LevelRow]
  /\ LEVELS[1] = [min_sats |-> 0, multiplier |-> 10]
  /\ \A i, j \in 1..5 : i < j => /\ LEVELS[i].min_sats < LEVELS[j].min_sats
                                 /\ LEVELS[i].multiplier <= LEVELS[j].multiplier

-----------------------------------------------------------------------------
(* Levels. *)

Reached_SwappedComparison(total) == {i \in 1..5 : i = 1 \/ total <= LEVELS[i].min_sats}

\* get_level walks the table in order and keeps the last row it has reached.
Reached(total) == {i \in 1..5 : i = 1 \/ total >= LEVELS[i].min_sats}

LevelIndex(total) == CHOOSE i \in Reached(total) : \A j \in Reached(total) : j <= i

Multiplier(total) == LEVELS[LevelIndex(total)].multiplier

SatsToNext_Inclusive(total) ==
  LET i == LevelIndex(total)
  IN  IF i = 5 THEN 0 ELSE LEVELS[i + 1].min_sats - total + 1

\* sats_to_next: 0 at the top level.
SatsToNext(total) ==
  LET i == LevelIndex(total)
  IN  IF i = 5 \/ LEVELS[i + 1].min_sats <= total
        THEN 0 ELSE LEVELS[i + 1].min_sats - total

-----------------------------------------------------------------------------
(* Rewards. *)

calculate_reward_RoundsEachPart(num, den, level, boost) ==
  LET base  == Rounded(num, den)
      bonus == Rounded(num * (level - 10), den * 10)
      total == Rounded(num * level * boost, den * 100)
  IN  [base_sats   |-> base,
       level_bonus |-> bonus,
       boost_bonus |-> total - base - bonus,
       total_sats  |-> total]

\* The running totals are rounded, and the parts are their differences.
calculate_reward(num, den, level, boost) ==
  LET base      == Rounded(num, den)
      withLevel == Rounded(num * level, den * 10)
      total     == Rounded(num * level * boost, den * 100)
  IN  [base_sats   |-> base,
       level_bonus |-> withLevel - base,
       boost_bonus |-> total - withLevel,
       total_sats  |-> total]

spare_cents_WholeDollarToo(cents) == 100 - (cents % 100)

\* Spare change of `cents` to the next dollar, scaled by `multiplier` tenths, as
\* sats at `satsPerDollar` sats for one dollar.
spare_cents(cents) == (-cents) % 100

round_up_sats(cents, multiplier, satsPerDollar) ==
  Rounded(spare_cents(cents) * multiplier * satsPerDollar, 1000)
=============================================================================
