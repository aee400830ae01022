---------------------------- MODULE FunctionsProofs ----------------------------
(***************************************************************************)
(* What the functions promise, for any level table, rates, periods and     *)
(* histories: rewards that are explained and keep the order, risks that    *)
(* follow departures, views that add up, and predictions that follow the   *)
(* history; and the survey's summary, for any scale, items and sources.    *)
(***************************************************************************)
EXTENDS MCFunctions, Survey, ArithmeticProofs, SequenceTheorems

Row == [at : Nat, rewarded : Nat, entered : Nat, amount : Nat, category : DOMAIN BaseRate,
        merchant : DOMAIN BaseRate, sats : Nat]

InOrder(p, t) == p.at <= p.rewarded /\ p.rewarded <= p.entered /\ p.entered <= t

\* A member's purchases h, at an hour t.
Dated(h, t) == h \in Seq(Row) /\ \A i \in DOMAIN h : InOrder(h[i], t)

\* The rows of any of the tables, at an hour t.
Stamped(h, t) ==
  /\ IsFiniteSet(DOMAIN h)
  /\ \A i \in DOMAIN h : h[i].at \in Nat /\ h[i].at <= t /\ h[i].sats \in Int

\* Of the purchases that the member may make.
Offered(h) ==
  \A i \in DOMAIN h : /\ h[i].amount \in {1, 4} /\ h[i].merchant = h[i].category
                      /\ h[i].sats = h[i].amount * BaseRate[h[i].category]

TypeOK ==
  /\ num \in Nat /\ den \in Dens /\ total \in Nat /\ boost \in {10, 20} /\ cents \in Nat
  /\ now \in Nat /\ Dated(history, now) /\ Offered(history)
  /\ moves \in Seq([at : Nat, sats : Int]) /\ \A k \in DOMAIN moves : moves[k].at <= now

-----------------------------------------------------------------------------
(* Types. *)

\* A purchase on offer is a row of the present, stamped in order.
LEMMA CandidateTyped ==
  ASSUME now \in Nat, NEW p \in Candidates
  PROVE  /\ p \in Row /\ InOrder(p, now) /\ p.amount \in {1, 4} /\ p.merchant = p.category
         /\ p.sats = p.amount * BaseRate[p.category]
<1>1. PICK at \in {now, now - 1} \cap Nat, amount \in {1, 4}, c \in DOMAIN BaseRate :
        p = Purchase(at, amount, c)
  BY DEF Candidates
<1>2. BaseRate[c] \in Nat
  BY InsightsAssumption
<1>3. amount * BaseRate[c] \in Nat
  BY <1>2
<1>4. at \in Nat /\ at <= now
  BY <1>1
<1> QED BY <1>1, <1>3, <1>4 DEF Purchase, Row, InOrder

\* What a dated history holds.
LEMMA DatedRows ==
  ASSUME NEW h, NEW t \in Nat, Dated(h, t)
  PROVE  /\ DOMAIN h = 1..Len(h) /\ Len(h) \in Nat /\ IsFiniteSet(DOMAIN h)
         /\ \A i \in DOMAIN h : /\ h[i].at \in Nat /\ h[i].at <= t
                                /\ h[i].rewarded \in Nat /\ h[i].rewarded <= t
                                /\ h[i].entered \in Nat /\ h[i].entered <= t
                                /\ h[i].at <= h[i].entered
                                /\ h[i].amount \in Nat /\ h[i].sats \in Nat
                                /\ h[i].category \in DOMAIN BaseRate
<1>1. h \in Seq(Row) /\ \A i \in DOMAIN h : InOrder(h[i], t)
  BY DEF Dated
<1>2. DOMAIN h = 1..Len(h) /\ Len(h) \in Nat /\ \A i \in DOMAIN h : h[i] \in Row
  BY <1>1, ElementOfSeq, LenProperties
<1>3. IsFiniteSet(DOMAIN h)
  BY <1>2, FS_Interval
<1>4. ASSUME NEW i \in DOMAIN h
      PROVE  /\ h[i].at \in Nat /\ h[i].amount \in Nat /\ h[i].sats \in Nat
             /\ h[i].rewarded \in Nat /\ h[i].entered \in Nat
             /\ h[i].category \in DOMAIN BaseRate
  <2>1. h[i] \in Row
    BY <1>2, <1>4
  <2> QED BY ONLY <2>1 DEF Row
<1>5. ASSUME NEW i \in DOMAIN h
      PROVE  h[i].at <= t /\ h[i].rewarded <= t /\ h[i].entered <= t /\ h[i].at <= h[i].entered
  BY ONLY <1>1, <1>4, <1>5, t \in Nat DEF InOrder
<1> QED BY <1>2, <1>3, <1>4, <1>5

\* What is dated stays so as time passes.
LEMMA DatedLater ==
  ASSUME NEW h, NEW t \in Nat, NEW u \in Nat, t <= u, Dated(h, t)
  PROVE  Dated(h, u)
<1>1. h \in Seq(Row)
  BY DEF Dated
<1>2. ASSUME NEW i \in DOMAIN h PROVE InOrder(h[i], u)
  <2>1. InOrder(h[i], t)
    BY <1>2 DEF Dated
  <2>2. h[i].entered \in Nat
    BY <1>2, DatedRows
  <2> QED BY ONLY <2>1, <2>2, t \in Nat, u \in Nat, t <= u DEF InOrder
<1> QED BY <1>1, <1>2 DEF Dated

\* What the wallet has been moved by stays so as time passes.
LEMMA EarlierMoves ==
  ASSUME NEW m \in Seq([at : Nat, sats : Int]), NEW t \in Nat, NEW u \in Nat, t <= u,
         \A k \in DOMAIN m : m[k].at <= t
  PROVE  \A k \in DOMAIN m : m[k].at <= u
<1>1. ASSUME NEW k \in DOMAIN m PROVE m[k].at \in Nat
  <2>1. m[k] \in [at : Nat, sats : Int]
    BY ONLY <1>1, m \in Seq([at : Nat, sats : Int]), ElementOfSeq, LenProperties
  <2> QED BY ONLY <2>1
<1> QED BY <1>1

\* The rows of each table are stamped: the transactions, the reward events and the ledger.
LEMMA TablesStamped ==
  ASSUME TypeOK
  PROVE  /\ Stamped(history, now) /\ Stamped(RewardEvents(history), now)
         /\ \A i \in DOMAIN RewardEvents(history) : RewardEvents(history)[i].sats \in Nat
         /\ Stamped(ledger, now)
         /\ DOMAIN history \subseteq DOMAIN ledger
         /\ \A i \in DOMAIN history : /\ i > 0 /\ i \in Int /\ ledger[i].at = history[i].entered
                                      /\ ledger[i].sats = history[i].sats
         /\ \A i \in DOMAIN ledger \ DOMAIN history : i \in Int /\ i < 0
<1>1. now \in Nat /\ Dated(history, now)
  BY DEF TypeOK
<1>2. /\ DOMAIN history = 1..Len(history) /\ Len(history) \in Nat /\ IsFiniteSet(DOMAIN history)
      /\ \A i \in DOMAIN history :
           /\ history[i].at \in Nat /\ history[i].at <= now
           /\ history[i].rewarded \in Nat /\ history[i].rewarded <= now
           /\ history[i].entered \in Nat /\ history[i].entered <= now
           /\ history[i].sats \in Nat
  BY <1>1, DatedRows
<1>3. Stamped(history, now)
  BY <1>2 DEF Stamped
<1>4. PICK ev : ev = RewardEvents(history)
  OBVIOUS
<1>5. /\ DOMAIN ev = DOMAIN history
      /\ \A i \in DOMAIN ev : ev[i].at = history[i].rewarded /\ ev[i].sats = history[i].sats
  BY <1>4 DEF RewardEvents
<1>6. Stamped(ev, now) /\ \A i \in DOMAIN ev : ev[i].sats \in Nat
  BY <1>2, <1>5 DEF Stamped
<1>7. PICK others : others = {- k : k \in DOMAIN moves}
  OBVIOUS
<1>8. PICK n \in Nat : n = Len(moves) /\ DOMAIN moves = 1..n
  BY DEF TypeOK
<1>9. IsFiniteSet(others) /\ \A i \in others : i \in Int /\ i < 0 /\ - i \in DOMAIN moves
  <2>1. IsFiniteSet(1..n)
    BY FS_Interval
  <2>2. PICK f : f = [k \in 1..n |-> - k]
    OBVIOUS
  <2>3. f \in Surjection(1..n, others)
    BY <1>7, <1>8, <2>2 DEF Surjection
  <2> QED BY <1>7, <1>8, <2>1, <2>3, FS_Surjection
<1>10. \A k \in DOMAIN moves : moves[k].at \in Nat /\ moves[k].at <= now /\ moves[k].sats \in Int
  <2>1. ASSUME NEW k \in DOMAIN moves PROVE moves[k] \in [at : Nat, sats : Int] /\ moves[k].at <= now
    <3>1. moves \in Seq([at : Nat, sats : Int]) /\ moves[k].at <= now
      BY <2>1 DEF TypeOK
    <3> QED BY ONLY <1>8, <2>1, <3>1, ElementOfSeq
  <2> QED BY ONLY <2>1
<1>11. PICK rows : rows = ledger
  OBVIOUS
<1>12. /\ DOMAIN rows = DOMAIN history \cup others
       /\ \A i \in DOMAIN rows :
            rows[i] = IF i > 0 THEN [at |-> history[i].entered, sats |-> history[i].sats]
                      ELSE moves[- i]
  BY <1>7, <1>11 DEF ledger, WalletTransactions
<1>13. IsFiniteSet(DOMAIN rows)
  BY <1>2, <1>9, <1>12, FS_Union
<1>14. \A i \in DOMAIN history : /\ i > 0 /\ i \in Int /\ rows[i].at = history[i].entered
                                 /\ rows[i].sats = history[i].sats
  <2>1. ASSUME NEW i \in DOMAIN history
        PROVE  i > 0 /\ i \in Int
    BY ONLY <1>2, <2>1
  <2>2. ASSUME NEW i \in DOMAIN history
        PROVE  rows[i] = [at |-> history[i].entered, sats |-> history[i].sats]
    BY ONLY <1>12, <2>1, <2>2
  <2>3. ASSUME NEW i \in DOMAIN history
        PROVE  rows[i].at = history[i].entered /\ rows[i].sats = history[i].sats
    <3>1. PICK row : row = rows[i]
      OBVIOUS
    <3>2. row = [at |-> history[i].entered, sats |-> history[i].sats]
      BY ONLY <2>2, <2>3, <3>1
    <3>3. row.at = history[i].entered /\ row.sats = history[i].sats
      BY ONLY <3>2
    <3> QED BY ONLY <3>1, <3>3
  <2> QED BY ONLY <2>1, <2>3, Zenon
<1>15. \A i \in others : rows[i] = moves[- i]
  <2>1. ASSUME NEW i \in others PROVE rows[i] = moves[- i]
    <3>1. i \in DOMAIN rows /\ ~ i > 0
      BY ONLY <1>9, <1>12, <2>1
    <3> QED BY ONLY <1>12, <3>1
  <2> QED BY ONLY <2>1
<1>16. Stamped(rows, now)
  <2>1. ASSUME NEW i \in DOMAIN rows
        PROVE  rows[i].at \in Nat /\ rows[i].at <= now /\ rows[i].sats \in Int
    <3>1. CASE i \in DOMAIN history
      BY <1>2, <1>14, <3>1
    <3>2. CASE i \in others
      BY <1>9, <1>10, <1>15, <3>2
    <3> QED BY <1>12, <2>1, <3>1, <3>2
  <2> QED BY <1>13, <2>1 DEF Stamped
<1> QED BY <1>3, <1>4, <1>6, <1>9, <1>11, <1>12, <1>14, <1>16

\* The member and the reward keep their types.
LEMMA Typed == Spec => []TypeOK
<1>1. Init => TypeOK
  BY FunctionsAssumption DEF Init, TypeOK, Dated, Offered
<1>2. ASSUME TypeOK, [Next]_vars PROVE TypeOK'
  <2>1. CASE Grow \/ Earn \/ Price \/ UNCHANGED vars
    BY <1>2, <2>1 DEF Grow, Earn, Price, vars, member, reward, TypeOK, Dated, Offered, InOrder
  <2>2. CASE Buy
    <3>1. PICK p \in Candidates : history' = Append(history, p)
      BY <2>2 DEF Buy
    <3>2. /\ p \in Row /\ InOrder(p, now) /\ p.amount \in {1, 4} /\ p.merchant = p.category
          /\ p.sats = p.amount * BaseRate[p.category]
      BY <1>2, CandidateTyped DEF TypeOK
    <3>3. history \in Seq(Row)
      BY <1>2 DEF TypeOK, Dated
    <3>4. /\ history' \in Seq(Row) /\ DOMAIN history' = 1..(Len(history) + 1)
          /\ \A i \in 1..Len(history) : history'[i] = history[i]
          /\ history'[Len(history) + 1] = p
      BY <3>1, <3>2, <3>3, AppendProperties
    <3>5. ASSUME NEW i \in DOMAIN history'
          PROVE  history'[i] = p \/ (i \in DOMAIN history /\ history'[i] = history[i])
      BY <3>3, <3>4
    <3>6. Dated(history', now) /\ Offered(history')
      BY <1>2, <3>2, <3>4, <3>5 DEF TypeOK, Dated, Offered
    <3>7. UNCHANGED <<num, den, total, boost, cents, moves, now>>
      BY <2>2 DEF Buy, reward
    <3> QED BY <1>2, <3>6, <3>7 DEF TypeOK
  <2>3. CASE Wait
    <3>1. now' \in Nat /\ now <= now' /\ UNCHANGED <<num, den, total, boost, cents, history, moves>>
      BY <1>2, <2>3, FunctionsAssumption DEF Wait, reward, TypeOK
    <3>2. Dated(history, now')
      BY <1>2, <3>1, DatedLater DEF TypeOK
    <3>3. \A k \in DOMAIN moves : moves[k].at <= now'
      BY <1>2, <3>1, EarlierMoves DEF TypeOK
    <3> QED BY <1>2, <3>1, <3>2, <3>3 DEF TypeOK
  <2>4. CASE Move
    <3>1. PICK sats \in {2, -1} : moves' = Append(moves, [at |-> now, sats |-> sats])
      BY <2>4 DEF Move
    <3>2. PICK m \in [at : Nat, sats : Int] : m = [at |-> now, sats |-> sats]
      <4>1. now \in Nat /\ sats \in Int
        BY <1>2 DEF TypeOK
      <4>2. [at |-> now, sats |-> sats] \in [at : Nat, sats : Int]
        BY ONLY <4>1
      <4> QED BY ONLY <4>2
    <3>3. moves \in Seq([at : Nat, sats : Int]) /\ moves' = Append(moves, m)
      BY <1>2, <3>1, <3>2 DEF TypeOK
    <3>4. /\ moves' \in Seq([at : Nat, sats : Int]) /\ DOMAIN moves' = 1..(Len(moves) + 1)
          /\ \A k \in 1..Len(moves) : moves'[k] = moves[k]
          /\ moves'[Len(moves) + 1] = m
      BY ONLY <3>3, AppendProperties
    <3>5. ASSUME NEW k \in DOMAIN moves' PROVE moves'[k].at <= now
      <4>1. moves'[k] = m \/ (k \in DOMAIN moves /\ moves'[k] = moves[k])
        BY <3>3, <3>4, <3>5
      <4> QED BY <1>2, <3>2, <4>1 DEF TypeOK
    <3>6. UNCHANGED <<num, den, total, boost, cents, history, now>>
      BY <2>4 DEF Move, reward
    <3> QED BY <1>2, <3>4, <3>5, <3>6 DEF TypeOK
  <2> QED BY <1>2, <2>1, <2>2, <2>3, <2>4 DEF Next
<1> QED BY <1>1, <1>2, PTL DEF Spec

-----------------------------------------------------------------------------
(* Rewards. *)

\* The spare change is what a whole dollar lacks, and nothing of whole dollars.
LEMMA SpareIsSpare ==
  ASSUME NEW c \in Nat
  PROVE  /\ (c + spare_cents(c)) % 100 = 0 /\ spare_cents(c) < 100
         /\ c % 100 = 0 => round_up_sats(c, 30, 1700) = 0
<1>1. (c + spare_cents(c)) % 100 = 0 /\ spare_cents(c) < 100
  BY DEF spare_cents
<1>2. ASSUME c % 100 = 0 PROVE round_up_sats(c, 30, 1700) = 0
  <2>1. spare_cents(c) = 0
    BY <1>2 DEF spare_cents
  <2>2. 0 * 30 * 1700 = 1000 * 0
    OBVIOUS
  <2>3. Rounded(1000 * 0, 1000) = 0
    BY RoundedWhole
  <2> QED BY <2>1, <2>2, <2>3 DEF round_up_sats
<1> QED BY <1>1, <1>2

\* The parts of a reward are never negative, are nothing where the multiplier is 1 and add up
\* to what is paid; rounding up takes what a dollar lacks; and sats_to_next is exactly what
\* the next level takes (reward_engine.py:26-45, 60-71, 88-102).
THEOREM RewardsExplained == Spec => []RewardIsExplained
<1>1. ASSUME TypeOK PROVE RewardIsExplained
  <2>1. PICK level \in Nat : level = Multiplier(total) /\ 10 <= level
    BY MultiplierAtLeast
  <2>2. num \in Nat /\ den \in Nat \ {0} /\ boost \in Nat /\ 10 <= boost /\ total \in Nat /\ cents \in Nat
    BY <1>1, FunctionsAssumption DEF TypeOK
  <2>3. PICK b : b = Breakdown
    OBVIOUS
  <2>4. /\ b.base_sats >= 0 /\ b.level_bonus >= 0 /\ b.boost_bonus >= 0
        /\ level = 10 => b.level_bonus = 0
        /\ boost = 10 => b.boost_bonus = 0
        /\ b.base_sats + b.level_bonus + b.boost_bonus = b.total_sats
    BY <2>1, <2>2, <2>3, RewardParts DEF Breakdown
  <2>5. IF LevelIndex(total) = 5 THEN SatsToNext(total) = 0
        ELSE /\ LevelIndex(total + SatsToNext(total)) = LevelIndex(total) + 1
             /\ LevelIndex(total + SatsToNext(total) - 1) = LevelIndex(total)
    BY <2>2, NextLevel
  <2>6. /\ (cents + spare_cents(cents)) % 100 = 0 /\ spare_cents(cents) < 100
        /\ cents % 100 = 0 => round_up_sats(cents, 30, 1700) = 0
    BY <2>2, SpareIsSpare
  <2> QED BY <2>1, <2>3, <2>4, <2>5, <2>6 DEF RewardIsExplained
<1> QED BY <1>1, Typed, PTL

\* No purchase that is larger, or made at a higher level, pays less (reward_engine.py:48-72).
THEOREM LargerPaysNoLess == Spec => NeverPaysLess
<1>1. ASSUME TypeOK, TypeOK', [Next]_vars
      PROVE  Breakdown'.total_sats >= Breakdown.total_sats
  <2>1. /\ num \in Nat /\ num' \in Nat /\ num <= num' /\ den' = den /\ den \in Nat \ {0}
        /\ total \in Int /\ total' \in Int /\ total <= total' /\ boost' = boost /\ boost \in Nat
    BY <1>1, FunctionsAssumption
       DEF TypeOK, Next, Grow, Earn, Price, Buy, Move, Wait, vars, member, reward
  <2>2. PICK level \in Nat, higher \in Nat :
          level = Multiplier(total) /\ higher = Multiplier(total') /\ level <= higher
    BY <2>1, MultiplierType, MultiplierGrows
  <2>3. calculate_reward(num, den, level, boost).total_sats
          <= calculate_reward(num', den, higher, boost).total_sats
    BY <2>1, <2>2, RewardGrows
  <2>4. PICK x \in Int, y \in Int :
          /\ x = calculate_reward(num, den, level, boost).total_sats
          /\ y = calculate_reward(num', den, higher, boost).total_sats
    BY <2>1, <2>2, RoundedNear, RewardType
  <2>5. Breakdown.total_sats = x /\ Breakdown'.total_sats = y
    BY <2>1, <2>2, <2>4 DEF Breakdown
  <2> QED BY <2>3, <2>4, <2>5
<1>2. [][Breakdown'.total_sats >= Breakdown.total_sats]_vars <=> NeverPaysLess
  BY DEF NeverPaysLess
<1> QED BY <1>1, <1>2, Typed, PTL DEF Spec

-----------------------------------------------------------------------------
(* Views. *)

SatsOf(h) == [i \in DOMAIN h |-> h[i].sats]

\* The sats of some purchases are the sum of theirs.
LEMMA SatsIs ==
  ASSUME NEW h, NEW t \in Nat, Stamped(h, t), NEW rows \in SUBSET DOMAIN h
  PROVE  /\ Sats(h, rows) = SumOf(SatsOf(h), rows)
         /\ Sats(h, rows) \in Int /\ IsFiniteSet(rows)
         /\ \A i \in DOMAIN h : SatsOf(h)[i] = h[i].sats /\ SatsOf(h)[i] \in Int
<1>1. PICK w : w = [i \in rows |-> h[i].sats]
  OBVIOUS
<1>2. IsFiniteSet(rows) /\ \A i \in DOMAIN h : h[i].sats \in Int
  BY FS_Subset DEF Stamped
<1>3. \A i \in rows : w[i] = SatsOf(h)[i] /\ w[i] \in Int
  BY <1>1, <1>2 DEF SatsOf
<1>4. SumOf(w, rows) = SumOf(SatsOf(h), rows) /\ SumOf(w, rows) \in Int
  BY <1>2, <1>3, SumCongruent, SumInt
<1>5. Sats(h, rows) = SumOf(w, rows)
  BY <1>1 DEF Sats, Total
<1> QED BY <1>2, <1>4, <1>5 DEF SatsOf

\* Purchases shared out among parts add up, one sum a part.
LEMMA SatsShared ==
  ASSUME NEW h, NEW t \in Nat, Stamped(h, t), NEW rows \in SUBSET DOMAIN h,
         NEW J, IsFiniteSet(J), NEW part, NEW sums,
         \A j \in J : part[j] \subseteq rows /\ sums[j] = Sats(h, part[j]),
         \A i \in rows : \E j \in J : i \in part[j],
         \A j, k \in J : j # k => part[j] \cap part[k] = {}
  PROVE  SumOf(sums, J) = Sats(h, rows)
<1>1. PICK w : w = SatsOf(h)
  OBVIOUS
<1>2. IsFiniteSet(rows) /\ Sats(h, rows) = SumOf(w, rows) /\ \A i \in rows : w[i] \in Int
  BY <1>1, SatsIs
<1>3. \A j \in J : part[j] \subseteq rows /\ sums[j] = SumOf(w, part[j])
  BY <1>1, SatsIs
<1> QED BY <1>2, <1>3, SumOfParts

\* The days of a period, a date from the first to today.
LEMMA DaysOfPeriod ==
  ASSUME NEW t \in Nat, NEW days \in Nat, NEW at \in Nat, days_ago(t, days) <= at, at <= t
  PROVE  Date(at) - Date(days_ago(t, days)) \in 0..days
BY DEF Date, days_ago

\* A wallet's curve ends at its balance, and has grown by the period's rows of the ledger.
LEMMA CurveEnds ==
  ASSUME NEW h, NEW t \in Nat, Stamped(h, t), NEW days \in Nat
  PROVE  LET growth == wallet_growth(h, t, days)
         IN  /\ growth.points[Max(DOMAIN growth.points)] = Sats(h, DOMAIN h)
             /\ growth.growth_sats = Sats(h, Since(h, days_ago(t, days)))
<1>1. PICK start \in Int : start = days_ago(t, days)
  BY DEF days_ago
<1>2. PICK rows, before : /\ rows = Since(h, start)
                          /\ before = Rows(h, LAMBDA e : e.at < start)
  OBVIOUS
<1>3. /\ rows = {i \in DOMAIN h : h[i].at >= start}
      /\ before = {i \in DOMAIN h : h[i].at < start}
  BY <1>2 DEF Since, Rows
<1>4. rows \subseteq DOMAIN h /\ before \subseteq DOMAIN h
  BY <1>3
<1>5. rows \cap before = {} /\ before \cup rows = DOMAIN h
  <2>1. \A i \in DOMAIN h : h[i].at >= start <=> ~ h[i].at < start
    BY <1>1 DEF Stamped
  <2> QED BY ONLY <1>3, <2>1, Zenon
<1>6. PICK first \in Int : first = Date(start)
  BY <1>1 DEF Date
<1> DEFINE part == [j \in 0..days |-> {i \in rows : Date(h[i].at) = first + j}]
           sums == [j \in 0..days |-> Bucket(h, t, days, first + j)]
<1>7. SumOf(sums, 0..days) = Sats(h, rows)
  <2>1. \A j \in 0..days : part[j] \subseteq rows /\ sums[j] = Sats(h, part[j])
    BY <1>1, <1>2 DEF Bucket
  <2>2. ASSUME NEW i \in rows PROVE \E j \in 0..days : i \in part[j]
    <3>1. PICK at \in Nat : at = h[i].at /\ start <= at /\ at <= t
      BY <1>1, <1>3, <2>2 DEF Stamped
    <3>2. PICK j \in 0..days : j = Date(at) - first
      BY <1>1, <1>6, <3>1, DaysOfPeriod
    <3>3. Date(at) \in Int
      BY <3>1 DEF Date
    <3>4. Date(h[i].at) = first + j
      BY <3>1, <3>2, <3>3
    <3> QED BY <3>4
  <2>3. \A j, k \in 0..days : j # k => part[j] \cap part[k] = {}
    OBVIOUS
  <2>4. IsFiniteSet(0..days)
    BY FS_Interval
  <2> HIDE DEF part, sums
  <2> QED BY <1>4, <2>1, <2>2, <2>3, <2>4, SatsShared
<1>8. Opening(h, t, days) = Sats(h, before)
  BY <1>1, <1>2 DEF Opening
<1>9. Balance(h, t, days, days) = Sats(h, before) + Sats(h, rows)
  BY <1>1, <1>6, <1>7, <1>8 DEF Balance
<1>10. Sats(h, before) + Sats(h, rows) = Sats(h, DOMAIN h)
       /\ Sats(h, before) \in Int /\ Sats(h, rows) \in Int
  <2>1. SumOf(SatsOf(h), before \cup rows) = SumOf(SatsOf(h), before) + SumOf(SatsOf(h), rows)
    BY <1>4, <1>5, SatsIs, SumUnion
  <2> QED BY <1>4, <1>5, <2>1, SatsIs, DOMAIN h \in SUBSET DOMAIN h
<1>11. PICK points : points = [i \in PointDays(t, days) |-> Balance(h, t, days, i)]
  OBVIOUS
<1>12. DOMAIN points = 0..days /\ points[days] = Balance(h, t, days, days)
  BY <1>11 DEF PointDays
<1>13. Max(0..days) = days
  BY DEF Max
<1>14. wallet_growth(h, t, days) =
         [points |-> points, growth_sats |-> points[days] - Sats(h, before)]
  BY <1>8, <1>11, <1>12, <1>13 DEF wallet_growth, Growth
<1>15. PICK growth : growth = wallet_growth(h, t, days)
  OBVIOUS
<1>16. growth.points = points /\ growth.growth_sats = points[days] - Sats(h, before)
  BY <1>14, <1>15
<1>17. points[Max(DOMAIN points)] = Sats(h, DOMAIN h) /\ points[days] - Sats(h, before) = Sats(h, rows)
  BY <1>9, <1>10, <1>12, <1>13
<1> QED BY <1>1, <1>2, <1>15, <1>16, <1>17

\* The categories of a period share out its rewards.
LEMMA CategoriesAddUp ==
  ASSUME NEW h, NEW t \in Nat, Stamped(h, t), NEW days \in Nat
  PROVE  LET spent == spending(h, t, days)
         IN  /\ spent.total_sats = Sats(h, Since(h, days_ago(t, days)))
             /\ spent.total_sats =
                  SumOf([c \in DOMAIN spent.categories |-> spent.categories[c].sats_earned],
                        DOMAIN spent.categories)
<1>1. PICK rows : rows = Since(h, days_ago(t, days))
  OBVIOUS
<1>2. PICK cats : cats = {h[i].category : i \in rows}
  OBVIOUS
<1>3. rows \in SUBSET DOMAIN h /\ IsFiniteSet(rows)
  BY <1>1, SatsIs DEF Since, Rows
<1>4. IsFiniteSet(cats)
  <2>1. PICK f : f = [i \in rows |-> h[i].category]
    OBVIOUS
  <2>2. f \in Surjection(rows, cats)
    BY <1>2, <2>1 DEF Surjection
  <2> QED BY <1>3, <2>2, FS_Surjection
<1>5. PICK part, sums : /\ part = [c \in cats |-> {i \in rows : h[i].category = c}]
                        /\ sums = [c \in cats |-> Sats(h, {i \in rows : h[i].category = c})]
  OBVIOUS
<1>6. SumOf(sums, cats) = Sats(h, rows)
  <2>1. \A c \in cats : part[c] \subseteq rows /\ sums[c] = Sats(h, part[c])
    BY <1>5
  <2>2. \A i \in rows : \E c \in cats : i \in part[c]
    BY <1>2, <1>5
  <2>3. \A c, d \in cats : c # d => part[c] \cap part[d] = {}
    BY <1>5
  <2> QED BY <1>3, <1>4, <2>1, <2>2, <2>3, SatsShared
<1>7. PICK spent : spent = spending(h, t, days)
  OBVIOUS
<1>8. /\ spent.total_sats = Sats(h, rows) /\ DOMAIN spent.categories = cats
      /\ \A c \in cats : spent.categories[c].sats_earned = sums[c]
  BY <1>1, <1>2, <1>5, <1>7 DEF spending
<1>9. [c \in cats |-> spent.categories[c].sats_earned] = sums
  BY <1>5, <1>8
<1> QED BY <1>1, <1>6, <1>7, <1>8, <1>9

\* The tax reports of all years share out all rewards.
LEMMA YearsShareOut ==
  ASSUME NEW h, NEW t \in Nat, Stamped(h, t)
  PROVE  SumOf([y \in 0..Date(t) \div YEAR |-> Sats(h, tax_report(h, y))], 0..Date(t) \div YEAR)
           = Sats(h, DOMAIN h)
<1>1. PICK d \in Nat \ {0} : d = 24 * YEAR
  BY InsightsAssumption
<1>2. YEAR \in Nat \ {0} /\ Date(t) \in Nat
  BY InsightsAssumption DEF Date
<1>3. PICK last \in Nat : last = Date(t) \div YEAR
  BY <1>2, QuotientNat
<1>4. ASSUME NEW y \in Int, NEW at \in Int
      PROVE  InYear(at, y) <=> at \div d = y
  <2>1. January1(y) = d * y /\ January1(y + 1) = d * y + d
    BY <1>1, <1>2 DEF January1
  <2>2. PICK m \in Int : m = d * y
    OBVIOUS
  <2>3. (m <= at /\ at < m + d) <=> at \div d = y
    <3>1. (d * y <= at /\ at < d * y + d) <=> at \div d = y
      BY QuotientBetween
    <3> QED BY ONLY <2>2, <3>1
  <2>4. InYear(at, y) <=> (m <= at /\ at < m + d)
    BY ONLY <2>1, <2>2 DEF InYear
  <2> QED BY ONLY <2>3, <2>4
<1>5. PICK part, sums : /\ part = [y \in 0..last |-> tax_report(h, y)]
                        /\ sums = [y \in 0..last |-> Sats(h, tax_report(h, y))]
  OBVIOUS
<1>6. ASSUME NEW y \in 0..last
      PROVE  part[y] = {i \in DOMAIN h : h[i].at \div d = y}
  <2>1. part[y] = {i \in DOMAIN h : InYear(h[i].at, y)}
    BY <1>5 DEF tax_report, Rows
  <2>2. ASSUME NEW i \in DOMAIN h
        PROVE  InYear(h[i].at, y) <=> h[i].at \div d = y
    <3>1. PICK at \in Int : at = h[i].at
      BY <2>2 DEF Stamped
    <3>2. InYear(at, y) <=> at \div d = y
      BY ONLY <1>4, <1>6
    <3> QED BY ONLY <3>1, <3>2
  <2> QED BY ONLY <2>1, <2>2, Zenon
<1>7. ASSUME NEW i \in DOMAIN h
      PROVE  h[i].at \div d \in 0..last
  <2>1. h[i].at \in Nat /\ h[i].at <= t
    BY <1>7 DEF Stamped
  <2>2. h[i].at \div d \in Nat /\ h[i].at \div d <= t \div d
    BY <2>1, QuotientNat, QuotientGrows
  <2>3. t \div d = last
    <3>1. t \in Int /\ 24 \in Nat \ {0}
      OBVIOUS
    <3>2. (t \div 24) \div YEAR = t \div (24 * YEAR)
      BY ONLY <1>2, <3>1, QuotientTwice
    <3> QED BY ONLY <1>1, <1>3, <3>2 DEF Date
  <2> QED BY ONLY <2>2, <2>3, <1>3
<1>8. SumOf(sums, 0..last) = Sats(h, DOMAIN h)
  <2>1. \A y \in 0..last : part[y] \subseteq DOMAIN h /\ sums[y] = Sats(h, part[y])
    BY <1>5, <1>6
  <2>2. \A y, z \in 0..last : y # z => part[y] \cap part[z] = {}
    BY <1>6
  <2>3. \A i \in DOMAIN h : \E y \in 0..last : i \in part[y]
    BY <1>6, <1>7
  <2>4. IsFiniteSet(0..last)
    BY FS_Interval
  <2>5. PICK all, years : all = DOMAIN h /\ years = 0..last
    OBVIOUS
  <2>6. t \in Nat /\ Stamped(h, t) /\ all \in SUBSET DOMAIN h
    BY <2>5
  <2>7. SumOf(sums, years) = Sats(h, all)
    BY ONLY <2>1, <2>2, <2>3, <2>4, <2>5, <2>6, SatsShared
  <2> QED BY ONLY <2>5, <2>7
<1> QED BY <1>3, <1>5, <1>8

\* A ledger's rows of a period are the purchases stamped in it, those stamped before it and
\* entered in it, and the wallet's other moves.
LEMMA GrowthShared ==
  ASSUME TypeOK, NEW since \in Int
  PROVE  Sats(ledger, Since(ledger, since))
           = Sats(history, Since(history, since))
               + Sats(ledger, {i \in Since(ledger, since) : i < 0})
               + Sats(history, Rows(history, LAMBDA p : p.at < since /\ p.entered >= since))
<1>1. PICK h, l : h = history /\ l = ledger
  OBVIOUS
<1>2. /\ now \in Nat /\ Stamped(h, now) /\ Stamped(l, now) /\ DOMAIN h \subseteq DOMAIN l
      /\ \A i \in DOMAIN h : /\ i > 0 /\ i \in Int /\ l[i].at = h[i].entered
                             /\ l[i].sats = h[i].sats
      /\ \A i \in DOMAIN l \ DOMAIN h : i \in Int /\ i < 0
  BY <1>1, TablesStamped DEF TypeOK
<1>3. \A i \in DOMAIN h : /\ h[i].at \in Nat /\ h[i].entered \in Nat /\ h[i].at <= h[i].entered
                          /\ h[i].sats \in Int
  BY <1>1, DatedRows DEF TypeOK
<1>4. PICK all, spent, others, late :
        /\ all = {i \in DOMAIN l : l[i].at >= since}
        /\ spent = {i \in DOMAIN h : h[i].at >= since}
        /\ others = {i \in all : i < 0}
        /\ late = {i \in DOMAIN h : h[i].at < since /\ h[i].entered >= since}
  OBVIOUS
<1>5. /\ all = Since(l, since) /\ spent = Since(h, since)
      /\ late = Rows(h, LAMBDA p : p.at < since /\ p.entered >= since)
  BY <1>4 DEF Since, Rows
<1>6. /\ all = (spent \cup late) \cup others
      /\ spent \cap late = {} /\ (spent \cup late) \cap others = {}
  <2>1. ASSUME NEW i \in DOMAIN h
        PROVE  /\ i \in all <=> i \in spent \/ i \in late
               /\ ~ (i \in spent /\ i \in late) /\ i \notin others
    BY ONLY <1>2, <1>3, <1>4, <2>1, since \in Int
  <2>2. ASSUME NEW i \in DOMAIN l \ DOMAIN h
        PROVE  i \notin spent /\ i \notin late /\ (i \in all <=> i \in others)
    BY ONLY <1>2, <1>4, <2>2
  <2>3. all \subseteq DOMAIN l /\ spent \subseteq DOMAIN h /\ late \subseteq DOMAIN h
    BY ONLY <1>4
  <2> QED BY ONLY <1>2, <1>4, <2>1, <2>2, <2>3
<1>7. /\ all \in SUBSET DOMAIN l /\ spent \in SUBSET DOMAIN l /\ late \in SUBSET DOMAIN l
      /\ others \in SUBSET DOMAIN l /\ spent \in SUBSET DOMAIN h /\ late \in SUBSET DOMAIN h
  BY ONLY <1>2, <1>4
<1>8. PICK w : w = SatsOf(l)
  OBVIOUS
<1>9. /\ Sats(l, all) = SumOf(w, all) /\ Sats(l, others) = SumOf(w, others)
      /\ IsFiniteSet(spent) /\ IsFiniteSet(late) /\ IsFiniteSet(others)
      /\ \A i \in DOMAIN l : w[i] = l[i].sats /\ w[i] \in Int
  BY ONLY <1>2, <1>7, <1>8, SatsIs
<1>10. SumOf(w, all) = SumOf(w, spent) + SumOf(w, late) + SumOf(w, others)
  <2>1. SumOf(w, spent \cup late) = SumOf(w, spent) + SumOf(w, late)
    BY ONLY <1>6, <1>7, <1>9, SumUnion
  <2>2. IsFiniteSet(spent \cup late)
    BY ONLY <1>9, FS_Union
  <2>3. SumOf(w, (spent \cup late) \cup others) = SumOf(w, spent \cup late) + SumOf(w, others)
    BY ONLY <1>6, <1>7, <1>9, <2>2, SumUnion
  <2> QED BY ONLY <1>6, <2>1, <2>3
<1>11. PICK v : v = SatsOf(h)
  OBVIOUS
<1>12. /\ Sats(h, spent) = SumOf(v, spent) /\ Sats(h, late) = SumOf(v, late)
       /\ \A i \in DOMAIN h : v[i] = h[i].sats
  BY ONLY <1>2, <1>7, <1>11, SatsIs
<1>13. \A i \in DOMAIN h : v[i] = w[i]
  BY ONLY <1>2, <1>9, <1>12
<1>14. SumOf(w, spent) = SumOf(v, spent) /\ SumOf(w, late) = SumOf(v, late)
  BY ONLY <1>7, <1>9, <1>13, SumCongruent
<1>15. /\ SumOf(w, spent) \in Int /\ SumOf(w, late) \in Int /\ SumOf(w, others) \in Int
  BY ONLY <1>7, <1>9, SumInt
<1>16. Sats(l, all) = Sats(h, spent) + Sats(l, others) + Sats(h, late)
  BY ONLY <1>9, <1>10, <1>12, <1>14, <1>15
<1> QED BY ONLY <1>1, <1>4, <1>5, <1>16

\* The views agree as far as their rows do: the wallet's curve ends at its balance and has grown
\* by the period's purchases, which the categories of the spending view share out, by its other
\* moves and by what was stamped earlier and entered late; the tax reports share out the
\* rewards of all years (analytics.py:41-63, 159-173, wallet.py:36-72).
THEOREM ViewsAgree == Spec => []ViewsAddUp
<1>1. ASSUME TypeOK PROVE ViewsAddUp
  <2>1. /\ now \in Nat /\ PERIOD_DAYS \subseteq Nat /\ WALLET_PERIOD_DAYS \subseteq Nat
        /\ Stamped(history, now) /\ Stamped(ledger, now) /\ Stamped(RewardEvents(history), now)
    BY <1>1, InsightsAssumption, TablesStamped DEF TypeOK
  <2>2. ASSUME NEW days \in WALLET_PERIOD_DAYS
        PROVE  LET growth == wallet_growth(ledger, now, days)
               IN  /\ growth.points[Max(DOMAIN growth.points)] = Sats(ledger, DOMAIN ledger)
                   /\ growth.growth_sats = Sats(ledger, Since(ledger, days_ago(now, days)))
    <3>1. days \in Nat
      BY <2>1, <2>2
    <3> QED BY ONLY <2>1, <3>1, CurveEnds
  <2>3. ASSUME NEW days \in PERIOD_DAYS
        PROVE  LET spent == spending(history, now, days)
               IN  /\ spent.total_sats = Sats(history, Since(history, days_ago(now, days)))
                   /\ spent.total_sats =
                        SumOf([c \in DOMAIN spent.categories |-> spent.categories[c].sats_earned],
                              DOMAIN spent.categories)
    <3>1. days \in Nat
      BY <2>1, <2>3
    <3> QED BY ONLY <2>1, <3>1, CategoriesAddUp
  <2>4. ASSUME NEW days \in PERIOD_DAYS \cap WALLET_PERIOD_DAYS
        PROVE  LET since == days_ago(now, days)
               IN  wallet_growth(ledger, now, days).growth_sats =
                     spending(history, now, days).total_sats
                       + Sats(ledger, {i \in Since(ledger, since) : i < 0})
                       + Sats(history, Rows(history, LAMBDA p : p.at < since /\ p.entered >= since))
    <3>1. PICK since \in Int : since = days_ago(now, days)
      BY <2>1, <2>4 DEF days_ago
    <3>2. wallet_growth(ledger, now, days).growth_sats = Sats(ledger, Since(ledger, since))
      BY ONLY <2>2, <2>4, <3>1
    <3>3. spending(history, now, days).total_sats = Sats(history, Since(history, since))
      BY ONLY <2>3, <2>4, <3>1
    <3>4. Sats(ledger, Since(ledger, since))
            = Sats(history, Since(history, since))
                + Sats(ledger, {i \in Since(ledger, since) : i < 0})
                + Sats(history, Rows(history, LAMBDA p : p.at < since /\ p.entered >= since))
      BY <1>1, GrowthShared
    <3> QED BY ONLY <3>1, <3>2, <3>3, <3>4
  <2>5. PICK ev, years : ev = RewardEvents(history) /\ years = 0..Date(now) \div YEAR
    OBVIOUS
  <2>6. SumOf([y \in years |-> Sats(ev, tax_report(ev, y))], years)
          = Sats(ev, DOMAIN ev)
    BY ONLY <2>1, <2>5, YearsShareOut
  <2> QED BY ONLY <2>2, <2>3, <2>4, <2>5, <2>6 DEF ViewsAddUp
<1> QED BY <1>1, Typed, PTL

-----------------------------------------------------------------------------
(* Risks. *)

\* Three elements are three.
LEMMA ThreeElements ==
  ASSUME NEW S, IsFiniteSet(S), NEW a \in S, NEW b \in S, NEW c \in S, a # b, a # c, b # c
  PROVE  Cardinality(S) >= 3
<1>1. PICK one, two, three : one = {a} /\ two = one \cup {b} /\ three = two \cup {c}
  OBVIOUS
<1>2. IsFiniteSet(one) /\ Cardinality(one) = 1
  BY <1>1, FS_Singleton
<1>3. IsFiniteSet(two) /\ Cardinality(two) = 2
  <2>1. b \notin one
    BY <1>1
  <2>2. IsFiniteSet(one \cup {b}) /\ Cardinality(one \cup {b}) = 1 + 1
    BY ONLY <1>2, <2>1, FS_AddElement
  <2> QED BY ONLY <1>1, <2>2
<1>4. IsFiniteSet(three) /\ Cardinality(three) = 3
  <2>1. c \notin two
    BY <1>1
  <2>2. IsFiniteSet(two \cup {c}) /\ Cardinality(two \cup {c}) = 2 + 1
    BY ONLY <1>3, <2>1, FS_AddElement
  <2> QED BY ONLY <1>1, <2>2
<1>5. three \subseteq S
  BY <1>1
<1>6. Cardinality(three) <= Cardinality(S)
  BY <1>5, FS_Subset
<1>7. Cardinality(S) \in Nat
  BY FS_CardinalityType
<1> QED BY <1>4, <1>6, <1>7

\* No two departures from a member's habits add up to an alert.
LEMMA AlertsTakeThree ==
  ASSUME NEW f \in AllFeatures, IsAnomaly(_heuristic_score(f))
  PROVE  Cardinality(Departures(f)) >= 3
<1>1. /\ f.amount \in 0..35
      /\ f.expensive \in BOOLEAN /\ f.rare_hour \in BOOLEAN
      /\ f.merchant_is_new \in BOOLEAN /\ f.rare_category \in BOOLEAN
  BY DEF AllFeatures
<1>2. PICK e \in {0, 20}, h \in {0, 15}, m \in {0, 10}, c \in {0, 15} :
        /\ e = Points(f.expensive, 20) /\ h = Points(f.rare_hour, 15)
        /\ m = Points(f.merchant_is_new, 10) /\ c = Points(f.rare_category, 15)
  <2>1. \A b \in BOOLEAN : \A n : Points(b, n) \in {0, n}
    BY Zenon DEF Points
  <2>2. /\ Points(f.expensive, 20) \in {0, 20} /\ Points(f.rare_hour, 15) \in {0, 15}
        /\ Points(f.merchant_is_new, 10) \in {0, 10} /\ Points(f.rare_category, 15) \in {0, 15}
    BY ONLY <1>1, <2>1, Zenon
  <2> QED BY ONLY <2>2, Zenon
<1>3. (e = 20 => f.expensive) /\ (h = 15 => f.rare_hour) /\ (m = 10 => f.merchant_is_new)
      /\ (c = 15 => f.rare_category)
  <2>1. \A b \in BOOLEAN : \A n \in Nat \ {0} : Points(b, n) = n => b
    BY DEF Points
  <2>2. 20 \in Nat \ {0} /\ 15 \in Nat \ {0} /\ 10 \in Nat \ {0}
    OBVIOUS
  <2> QED BY ONLY <1>1, <1>2, <2>1, <2>2, Zenon
<1>4. f.amount + e + h + m + c >= 56
  BY <1>1, <1>2 DEF IsAnomaly, ANOMALY_THRESHOLD, _heuristic_score, Capped
<1>5. PICK D : D = Departures(f)
  OBVIOUS
<1>6. /\ f.amount > 0 => "amount" \in D
      /\ e = 20 => "expensive" \in D
      /\ h = 15 => "rare_hour" \in D
      /\ m = 10 => "merchant_is_new" \in D
      /\ c = 15 => "rare_category" \in D
  BY <1>3, <1>5 DEF Departures
<1>7. IsFiniteSet(D)
  <2>1. PICK k1, k2, k3, k4, k5 :
          /\ k1 = {"amount"} /\ k2 = k1 \cup {"expensive"} /\ k3 = k2 \cup {"rare_hour"}
          /\ k4 = k3 \cup {"merchant_is_new"} /\ k5 = k4 \cup {"rare_category"}
    OBVIOUS
  <2>2. IsFiniteSet(k1)
    BY ONLY <2>1, FS_Singleton
  <2>3. IsFiniteSet(k2)
    BY ONLY <2>1, <2>2, FS_AddElement
  <2>4. IsFiniteSet(k3)
    BY ONLY <2>1, <2>3, FS_AddElement
  <2>5. IsFiniteSet(k4)
    BY ONLY <2>1, <2>4, FS_AddElement
  <2>6. IsFiniteSet(k5)
    BY ONLY <2>1, <2>5, FS_AddElement
  <2>7. D \subseteq k5
    BY ONLY <1>5, <2>1 DEF Departures
  <2> QED BY ONLY <2>6, <2>7, FS_Subset
<1>8. \E a, b, k \in D : a # b /\ a # k /\ b # k
  <2>1. CASE f.amount = 0
    <3>1. e = 20 /\ h = 15
      BY ONLY <1>2, <1>4, <2>1
    <3> QED BY <1>4, <1>6, <2>1, <3>1
  <2>2. CASE f.amount > 0 /\ e = 0
    <3>1. (h = 15 /\ m = 10) \/ (h = 15 /\ c = 15) \/ (m = 10 /\ c = 15)
      BY ONLY <1>1, <1>2, <1>4, <2>2
    <3> QED BY ONLY <1>6, <2>2, <3>1
  <2>3. CASE f.amount > 0 /\ e = 20
    <3>1. h = 15 \/ m = 10 \/ c = 15
      BY ONLY <1>1, <1>2, <1>4, <2>3
    <3> QED BY ONLY <1>6, <2>3, <3>1
  <2> QED BY <1>1, <1>2, <2>1, <2>2, <2>3
<1> QED BY <1>5, <1>7, <1>8, ThreeElements

\* An outlier of the forest is rated at the anchor at least, what is not one at most, and
\* all within a hundred.
LEMMA CalibrateSides ==
  ASSUME NEW d \in Int, NEW m \in [train_min : Int, train_max : Int]
  PROVE  calibrate(d, m) \in IF d < 0 THEN 60..100 ELSE 0..60
<1>1. CASE d < 0
  <2>1. PICK span \in Nat \ {0} : span = IF m.train_min < 0 THEN - m.train_min ELSE Thousand
    BY DEF Thousand
  <2>2. PICK c \in 0..span : c = Capped(- d, span)
    BY <1>1 DEF Capped
  <2>3. calibrate(d, m) = Rounded(60 * span + 40 * c, span)
    BY <1>1, <2>1, <2>2 DEF calibrate, CALIBRATION_ANCHOR
  <2>4. PICK n \in Int : n = 60 * span + 40 * c /\ span * 60 <= n /\ n <= span * 100
    OBVIOUS
  <2>5. Rounded(n, span) \in 60..100
    <3>1. PICK a \in Int, b \in Int : a = 60 /\ b = 100 /\ span * a <= n /\ n <= span * b
      BY <2>4
    <3>2. Rounded(n, span) \in a..b
      BY <3>1, RoundedWithin
    <3> QED BY <3>1, <3>2
  <2> QED BY ONLY <1>1, <2>3, <2>4, <2>5
<1>2. CASE d >= 0
  <2>1. PICK span \in Nat \ {0} : span = IF m.train_max > 0 THEN m.train_max ELSE Thousand
    BY DEF Thousand
  <2>2. PICK c \in 0..span : c = Capped(d, span)
    BY <1>2 DEF Capped
  <2>3. calibrate(d, m) = Rounded(60 * (span - c), span)
    BY <1>2, <2>1, <2>2 DEF calibrate, CALIBRATION_ANCHOR
  <2>4. PICK n \in Int : n = 60 * (span - c) /\ span * 0 <= n /\ n <= span * 60
    OBVIOUS
  <2>5. Rounded(n, span) \in 0..60
    <3>1. PICK a \in Int, b \in Int : a = 0 /\ b = 60 /\ span * a <= n /\ n <= span * b
      BY <2>4
    <3>2. Rounded(n, span) \in a..b
      BY <3>1, RoundedWithin
    <3> QED BY <3>1, <3>2
  <2> QED BY ONLY <1>2, d \in Int, <2>3, <2>4, <2>5
<1> QED BY <1>1, <1>2

\* What is no more normal is rated no lower.
LEMMA CalibrateFalls ==
  ASSUME NEW d \in Int, NEW e \in Int, d <= e, NEW m \in [train_min : Int, train_max : Int]
  PROVE  calibrate(d, m) >= calibrate(e, m)
<1>1. CASE d < 0 /\ e >= 0
  <2>1. calibrate(d, m) \in 60..100 /\ calibrate(e, m) \in 0..60
    BY <1>1, CalibrateSides
  <2> QED BY <2>1
<1>2. CASE e < 0
  <2>1. PICK span \in Nat \ {0} : span = IF m.train_min < 0 THEN - m.train_min ELSE Thousand
    BY DEF Thousand
  <2>2. PICK b \in Int, c \in Int : b = Capped(- d, span) /\ c = Capped(- e, span)
    BY DEF Capped
  <2>3. c <= b
    BY ONLY <2>1, <2>2, d <= e, d \in Int, e \in Int DEF Capped
  <2>4. /\ calibrate(d, m) = Rounded(60 * span + 40 * b, span)
        /\ calibrate(e, m) = Rounded(60 * span + 40 * c, span)
    BY <1>2, <2>1, <2>2 DEF calibrate, CALIBRATION_ANCHOR
  <2>5. Rounded(60 * span + 40 * c, span) <= Rounded(60 * span + 40 * b, span)
    BY <2>3, RoundedGrows
  <2>6. Rounded(60 * span + 40 * c, span) \in Int /\ Rounded(60 * span + 40 * b, span) \in Int
    BY RoundedNear
  <2> QED BY ONLY <2>4, <2>5, <2>6
<1>3. CASE d >= 0
  <2>1. PICK span \in Nat \ {0} : span = IF m.train_max > 0 THEN m.train_max ELSE Thousand
    BY DEF Thousand
  <2>2. PICK b \in Int, c \in Int : b = Capped(d, span) /\ c = Capped(e, span)
    BY DEF Capped
  <2>3. b <= c
    BY ONLY <2>1, <2>2, d <= e, d \in Int, e \in Int DEF Capped
  <2>4. /\ calibrate(d, m) = Rounded(60 * (span - b), span)
        /\ calibrate(e, m) = Rounded(60 * (span - c), span)
    BY <1>3, <2>1, <2>2 DEF calibrate, CALIBRATION_ANCHOR
  <2>5. Rounded(60 * (span - c), span) <= Rounded(60 * (span - b), span)
    BY <2>3, RoundedGrows
  <2>6. Rounded(60 * (span - c), span) \in Int /\ Rounded(60 * (span - b), span) \in Int
    BY RoundedNear
  <2> QED BY ONLY <2>4, <2>5, <2>6
<1> QED BY <1>1, <1>2, <1>3

\* At amounts of one at least, a history costs no less than it has purchases.
LEMMA SpentAtLeast ==
  ASSUME NEW h, NEW t \in Nat, Dated(h, t), Offered(h)
  PROVE  Spent(h, DOMAIN h) \in Int /\ Len(h) <= Spent(h, DOMAIN h)
<1>1. DOMAIN h = 1..Len(h) /\ Len(h) \in Nat /\ IsFiniteSet(DOMAIN h)
  BY DatedRows
<1>2. PICK w, one : w = [i \in DOMAIN h |-> h[i].amount] /\ one = [i \in DOMAIN h |-> 1]
  OBVIOUS
<1>3. \A i \in DOMAIN h : one[i] = 1 /\ one[i] \in Int /\ w[i] \in Int /\ one[i] <= w[i]
  BY <1>2 DEF Offered
<1>4. SumOf(one, DOMAIN h) = Cardinality(DOMAIN h)
  BY <1>1, <1>3, SumOnes
<1>5. SumOf(one, DOMAIN h) <= SumOf(w, DOMAIN h) /\ SumOf(w, DOMAIN h) \in Int
  BY <1>1, <1>3, SumAtMost, SumInt
<1>6. Cardinality(DOMAIN h) = Len(h)
  <2>1. PICK n \in Nat : n = Len(h)
    BY <1>1
  <2>2. Cardinality(1..n) = n
    BY FS_Interval
  <2> QED BY ONLY <1>1, <2>1, <2>2
<1>7. Spent(h, DOMAIN h) = SumOf(w, DOMAIN h)
  BY <1>2 DEF Spent, SumOver
<1> QED BY <1>4, <1>5, <1>6, <1>7

\* What is bought again at a usual price and hour departs in nothing else.
LEMMA RepeatDeparts ==
  ASSUME NEW h, NEW t \in Nat, Dated(h, t), Offered(h), Len(h) <= 20, NEW i \in DOMAIN h,
         NEW p \in Row, p.amount = 1, p.merchant = p.category, p.category = h[i].category,
         Hour(p) = Hour(h[i])
  PROVE  Departures(_features(p, h)) \subseteq {"amount"}
<1>1. DOMAIN h = 1..Len(h) /\ Len(h) \in Nat /\ IsFiniteSet(DOMAIN h) /\ h[i].at \in Nat
  BY DatedRows
<1>2. ~ (p.amount * Len(h) > 3 * Spent(h, DOMAIN h))
  <2>1. Spent(h, DOMAIN h) \in Int /\ Len(h) <= Spent(h, DOMAIN h)
    BY SpentAtLeast
  <2> QED BY <1>1, <2>1
<1>3. ~ _hour_rarity(p, h)
  <2>1. PICK hour \in Int : hour = Hour(p)
    BY DEF Hour, Row
  <2>2. PICK gap : gap = Max({hour - hour, hour - hour}) /\ gap = 0
    <3>1. PICK zero : zero = hour - hour /\ zero = 0
      OBVIOUS
    <3>2. Max({zero, zero}) = zero
      BY <3>1 DEF Max
    <3> QED BY ONLY <3>1, <3>2
  <2>3. _circular_hour_distance(hour, hour) <= HOUR_WINDOW
    BY ONLY <2>2 DEF _circular_hour_distance, Capped, HOUR_WINDOW
  <2>4. i \in Nearby(Hour(p), h)
    BY <2>1, <2>3 DEF Nearby, Where
  <2> QED BY <2>4 DEF _hour_rarity
<1>4. ~ \A j \in DOMAIN h : h[j].merchant # p.merchant
  BY DEF Offered
<1>5. ~ (20 * Cardinality(SameCategory(p, h)) < Len(h) \/ Len(h) = 0)
  <2>1. PICK S : S = SameCategory(p, h)
    OBVIOUS
  <2>2. S \subseteq DOMAIN h /\ i \in S
    BY <2>1 DEF SameCategory, Where
  <2>3. Cardinality(S) \in Nat /\ Cardinality(S) # 0
    BY <1>1, <2>2, FS_Subset, FS_CardinalityType, FS_EmptySet
  <2> QED BY <1>1, <2>1, <2>3
<1>6. PICK f : f = _features(p, h)
  OBVIOUS
<1>7. ~ f.expensive /\ ~ f.rare_hour /\ ~ f.merchant_is_new /\ ~ f.rare_category
  BY <1>2, <1>3, <1>4, <1>5, <1>6 DEF _features
<1> QED BY ONLY <1>6, <1>7 DEF Departures

\* The points for an amount are at most 35.
LEMMA AmountPointsType ==
  ASSUME NEW past, NEW t \in Nat, Dated(past, t), NEW p \in Row
  PROVE  AmountPoints(p, past) \in 0..35
<1>1. PICK S : S = SameCategory(p, past)
  OBVIOUS
<1>2. IsFiniteSet(S) /\ Cardinality(S) \in Nat /\ S \subseteq DOMAIN past
      /\ \A i \in DOMAIN past : past[i].amount \in Int
  BY <1>1, DatedRows, FS_Subset, FS_CardinalityType DEF SameCategory, Where
<1>3. Spent(past, S) \in Int
  <2>1. PICK w : w = [i \in S |-> past[i].amount]
    OBVIOUS
  <2>2. SumOf(w, S) \in Int
    BY <1>2, <2>1, SumInt
  <2> QED BY <2>1, <2>2 DEF Spent, SumOver
<1>4. PICK squares \in Int : squares = SumOf([i \in S |-> past[i].amount * past[i].amount], S)
  <2>1. PICK w : w = [i \in S |-> past[i].amount * past[i].amount]
    OBVIOUS
  <2>2. \A a \in Int : a * a \in Int
    OBVIOUS
  <2>3. SumOf(w, S) \in Int
    BY <1>2, <2>1, <2>2, SumInt
  <2> QED BY ONLY <2>1, <2>3
<1>5. PICK variance \in Int : variance = Variance(p, past)
  <2>1. \A a, b, c \in Int : a * b - c * c \in Int
    OBVIOUS
  <2>2. PICK n \in Int, spent \in Int : n = Cardinality(S) /\ spent = Spent(past, S)
    BY ONLY <1>2, <1>3
  <2>3. Variance(p, past) = n * squares - spent * spent
    BY ONLY <1>1, <1>4, <2>2 DEF Variance, SumOver
  <2> QED BY ONLY <2>1, <2>3, n \in Int, spent \in Int, squares \in Int
<1>6. PICK deviation \in Int : deviation = Deviation(p, past)
  <2>1. p.amount \in Int
    BY DEF Row
  <2>2. \A a, b, c \in Int : a * b - c \in Int
    OBVIOUS
  <2> QED BY <1>1, <1>2, <1>3, <2>1, <2>2 DEF Deviation
<1>7. PICK K : K = {k \in 0..35 : k * k * variance <= 121 * (deviation * deviation)}
  OBVIOUS
<1>8. Max(K) \in 0..35
  <2>1. \A a \in Int : 0 <= 121 * (a * a)
    OBVIOUS
  <2>2. 0 * 0 * variance = 0 /\ 0 \in 0..35
    OBVIOUS
  <2>3. 0 \in K
    BY ONLY <1>6, <1>7, <2>1, <2>2
  <2>4. PICK N : N = 0..35 /\ K \subseteq N
    BY <1>7
  <2>5. IsFiniteSet(N)
    <3>1. PICK low \in Int, high \in Int : low = 0 /\ high = 35
      OBVIOUS
    <3>2. IsFiniteSet(low..high)
      BY ONLY FS_Interval
    <3> QED BY ONLY <2>4, <3>1, <3>2
  <2>8. IsFiniteSet(K)
    BY ONLY <2>4, <2>5, FS_Subset
  <2>6. IsFiniteSet(K) /\ K \in SUBSET Int /\ K # {}
    BY ONLY <2>3, <2>4, <2>8
  <2>7. Max(K) \in K
    BY ONLY <2>6, Extremes
  <2> QED BY ONLY <2>4, <2>7
<1> QED BY <1>5, <1>6, <1>7, <1>8 DEF AmountPoints

\* A score is a number.
LEMMA ScoreType ==
  ASSUME NEW past, NEW t \in Nat, Dated(past, t), NEW p \in Row
  PROVE  _heuristic_score(_features(p, past)) \in Int
<1>1. PICK f : f = _features(p, past)
  OBVIOUS
<1>2. f.amount \in Int
  <2>1. AmountPoints(p, past) \in 0..35
    BY AmountPointsType
  <2>2. f.amount = AmountPoints(p, past)
    BY <1>1 DEF _features
  <2> QED BY ONLY <2>1, <2>2
<1>3. \A b : \A n \in Int : Points(b, n) \in Int
  BY DEF Points
<1>4. /\ Points(f.expensive, 20) \in Int /\ Points(f.rare_hour, 15) \in Int
      /\ Points(f.merchant_is_new, 10) \in Int /\ Points(f.rare_category, 15) \in Int
  BY ONLY <1>3
<1> QED BY <1>1, <1>2, <1>4 DEF _heuristic_score, Capped

\* The summary's counts leave nothing below zero, and without an alert it protects in full.
LEMMA SummaryAddsUp ==
  ASSUME NEW n \in Nat, NEW scores, DOMAIN scores = 1..n, Len(scores) = n,
         \A i \in 1..n : scores[i] \in Int
  PROVE  LET s == get_fraud_summary(scores)
         IN  /\ s.low_risk_count >= 0
             /\ (\A i \in DOMAIN scores : ~ IsAnomaly(scores[i])) => s.protection_score = 100
<1>1. PICK A, B, N : /\ A = {i \in DOMAIN scores : scores[i] >= ANOMALY_THRESHOLD}
                     /\ B = {i \in DOMAIN scores : /\ scores[i] >= MEDIUM_RISK
                                                   /\ scores[i] < ANOMALY_THRESHOLD}
                     /\ N = 1..n
  OBVIOUS
<1>2. /\ \A i \in A : scores[i] >= 56
      /\ \A i \in B : scores[i] < 56
  BY <1>1 DEF ANOMALY_THRESHOLD
<1>3. IsFiniteSet(N) /\ Cardinality(N) = n
  BY <1>1, FS_Interval
<1>4. PICK high, medium : high = Cardinality(A) /\ medium = Cardinality(B)
  OBVIOUS
<1>5. IsFiniteSet(A) /\ IsFiniteSet(B) /\ high \in Nat /\ medium \in Nat
  BY <1>1, <1>3, <1>4, FS_Subset, FS_CardinalityType
<1>6. high + medium <= n
  <2>1. A \cap B = {}
    <3>1. \A i \in A \cap B : FALSE
      <4>1. ASSUME NEW i, i \in A, i \in B PROVE FALSE
        <5>1. PICK r \in Int : r = scores[i]
          BY <1>1, <4>1
        <5>2. r >= 56 /\ r < 56
          BY ONLY <1>2, <4>1, <5>1
        <5> QED BY ONLY <5>2
      <4> QED BY ONLY <4>1
    <3> QED BY ONLY <3>1
  <2>2. Cardinality(A \cap B) = 0
    BY <2>1, FS_EmptySet
  <2>3. Cardinality(A \cup B) = high + medium - 0
    BY <1>4, <1>5, <2>2, FS_Union
  <2>4. Cardinality(A \cup B) <= Cardinality(N)
    BY <1>1, <1>3, FS_Subset
  <2> QED BY <1>3, <1>5, <2>3, <2>4
<1>7. get_fraud_summary(scores) =
        [total_transactions_analyzed |-> n, high_risk_count |-> high, medium_risk_count |-> medium,
         low_risk_count |-> n - high - medium,
         protection_score |-> IF n = 0 THEN 100 ELSE Rounded(100 * (n - high), n)]
  BY <1>1, <1>4 DEF get_fraud_summary, Where
<1>8. ASSUME \A i \in DOMAIN scores : ~ IsAnomaly(scores[i]), n # 0
      PROVE  Rounded(100 * (n - high), n) = 100
  <2>1. A = {}
    BY <1>1, <1>8 DEF IsAnomaly
  <2>2. high = 0
    BY <1>4, <2>1, FS_EmptySet
  <2>3. Rounded(100 * n, n) = 100
    BY <1>8, RoundedWhole
  <2> QED BY <2>2, <2>3
<1> QED BY <1>5, <1>6, <1>7, <1>8

\* It takes three departures from a member's habits to raise an alert by the rules, and what is
\* bought again at a usual price and hour departs in nothing else; an outlier of the forest
\* always alerts, and a purchase no more normal than another is rated no lower; the summary
\* counts every purchase once (anomaly_detector.py:113-203, 300-330).
THEOREM RisksFollow == Spec => []RiskFollowsDepartures
<1>1. ASSUME TypeOK PROVE RiskFollowsDepartures
  <2>1. now \in Nat /\ Dated(history, now) /\ Offered(history)
    BY <1>1 DEF TypeOK
  <2>2. ASSUME NEW f \in AllFeatures, IsAnomaly(_heuristic_score(f))
        PROVE  Cardinality(Departures(f)) >= 3
    BY <2>2, AlertsTakeThree
  <2>3. ASSUME NEW m \in Trained, NEW d \in Values, NEW e \in Values
        PROVE  /\ d < 0 => IsAnomaly(calibrate(d, m))
               /\ calibrate(d, m) \in 0..100
               /\ d <= e => calibrate(d, m) >= calibrate(e, m)
    <3>1. m \in [train_min : Int, train_max : Int] /\ d \in Int /\ e \in Int
      BY DEF Trained, Values
    <3>2. calibrate(d, m) \in IF d < 0 THEN 60..100 ELSE 0..60
      BY <3>1, CalibrateSides
    <3>3. d <= e => calibrate(d, m) >= calibrate(e, m)
      BY <3>1, CalibrateFalls
    <3> QED BY ONLY <3>2, <3>3 DEF IsAnomaly, ANOMALY_THRESHOLD
  <2>4. ASSUME NEW p \in Candidates, NEW i \in DOMAIN history,
               history[i].category = p.category, Hour(history[i]) = Hour(p), p.amount = 1,
               Len(history) <= 20
        PROVE  Departures(_features(p, history)) \subseteq {"amount"}
    <3>1. p \in Row /\ p.merchant = p.category
      BY <2>1, CandidateTyped
    <3> QED BY <2>1, <2>4, <3>1, RepeatDeparts
  <2>5. PICK scores : scores = [i \in DOMAIN history |->
                        _heuristic_score(_features(history[i], SubSeq(history, 1, i - 1)))]
    OBVIOUS
  <2>6. PICK n \in Nat : n = Len(history) /\ DOMAIN scores = 1..n /\ Len(scores) = n
    BY <2>1, <2>5, DatedRows
  <2>8. ASSUME NEW i \in 1..n PROVE scores[i] \in Int
    <3>1. history \in Seq(Row) /\ i \in 1..Len(history)
      BY <2>1, <2>6 DEF Dated
    <3>2. PICK h : h = SubSeq(history, 1, i - 1)
      OBVIOUS
    <3>3. /\ h \in Seq(Row) /\ history[i] \in Row
          /\ \A j \in DOMAIN h : j \in DOMAIN history /\ h[j] = history[j]
      BY <3>1, <3>2, SubSeqProperties
    <3>4. Dated(h, now)
      BY <2>1, <3>3 DEF Dated
    <3> QED BY <2>1, <2>5, <3>1, <3>2, <3>3, <3>4, ScoreType
  <2>7. LET s == get_fraud_summary(scores)
        IN  /\ s.low_risk_count >= 0
            /\ (\A i \in DOMAIN scores : ~ IsAnomaly(scores[i])) => s.protection_score = 100
    BY ONLY <2>6, <2>8, SummaryAddsUp
  <2> QED BY ONLY <2>2, <2>3, <2>4, <2>5, <2>7 DEF RiskFollowsDepartures
<1> QED BY <1>1, Typed, PTL

-----------------------------------------------------------------------------
(* Predictions. *)

\* A line fitted to numbers that never fall does not fall.
LEMMA RiseOfRising ==
  ASSUME NEW n \in Nat, NEW y \in [1..n -> Int], \A i \in 2..n : y[i - 1] <= y[i]
  PROVE  Rise(y) \in Int /\ Rise(y) >= 0
<1>1. PICK p, q, m : /\ p = [i \in 1..n |-> i * y[i]] /\ q = [i \in 1..n |-> i]
                     /\ m = SumOf(q, 1..n)
  OBVIOUS
<1>2. DOMAIN y = 1..n /\ Len(y) = n /\ Numbers(y) = q
  BY <1>1 DEF Numbers
<1>3. \A i \in 1..n : y[i] \in Int /\ p[i] = i * y[i] /\ p[i] \in Int /\ q[i] = i
  BY <1>1
<1>4. PICK N : N = 1..n
  OBVIOUS
<1>5. IsFiniteSet(N)
  BY ONLY <1>4, FS_Interval, n \in Nat
<1>6. PICK s \in Int, w \in Int : s = SumOf(y, 1..n) /\ w = SumOf(p, 1..n)
  BY ONLY <1>3, <1>4, <1>5, SumInt
<1>7. (n + 1) * s <= 2 * w
  BY ONLY <1>3, <1>6, SumRising, n \in Nat, \A i \in 2..n : y[i - 1] <= y[i]
<1>8. 2 * m = n * (n + 1) /\ m \in Int
  BY ONLY <1>1, <1>3, SumNumbers, n \in Nat
<1>9. Rise(y) = n * w - m * s
  BY ONLY <1>1, <1>2, <1>6 DEF Rise
<1>10. 2 * (n * w - m * s) >= 0
  <2>1. 2 * (n * w - m * s) = n * (2 * w) - (2 * m) * s
    BY ONLY <1>6, <1>8, n \in Nat
  <2>2. (n * (n + 1)) * s = n * ((n + 1) * s)
    BY ONLY <1>6, n \in Nat
  <2>3. PICK a \in Int, b \in Int : a = (n + 1) * s /\ b = 2 * w
    BY ONLY <1>6, n \in Nat
  <2>4. n * a <= n * b /\ n * a \in Int /\ n * b \in Int
    BY ONLY <1>7, <2>3, TimesGrows, n \in Nat
  <2>5. 2 * (n * w - m * s) = n * b - n * a
    BY ONLY <1>8, <2>1, <2>2, <2>3
  <2> QED BY ONLY <2>4, <2>5
<1>11. n * w - m * s \in Int
  BY ONLY <1>6, <1>8, n \in Nat
<1> QED BY ONLY <1>9, <1>10, <1>11

\* and one fitted to numbers that never rise does not rise.
LEMMA RiseOfFalling ==
  ASSUME NEW n \in Nat, NEW y \in [1..n -> Int], \A i \in 2..n : y[i - 1] >= y[i]
  PROVE  Rise(y) \in Int /\ Rise(y) <= 0
<1>a. PICK c \in Int : c = -1
  OBVIOUS
<1>1. PICK z : z = [i \in 1..n |-> y[i] * c]
  OBVIOUS
<1>2. \A i \in 1..n : y[i] \in Int /\ z[i] \in Int /\ z[i] = y[i] * c
  BY <1>1
<1>3. z \in [1..n -> Int] /\ \A i \in 2..n : z[i - 1] <= z[i]
  <2>1. z \in [1..n -> Int]
    BY <1>1
  <2>2. ASSUME NEW i \in 2..n PROVE z[i - 1] <= z[i]
    <3>1. y[i - 1] >= y[i] /\ i \in 1..n /\ i - 1 \in 1..n
      OBVIOUS
    <3> QED BY ONLY <1>2, <1>a, <3>1
  <2> QED BY <2>1, <2>2
<1>4. Rise(z) \in Int /\ Rise(z) >= 0
  BY ONLY <1>3, RiseOfRising, n \in Nat
<1>5. PICK p, r, q : /\ p = [i \in 1..n |-> i * y[i]] /\ r = [i \in 1..n |-> i * z[i]]
                     /\ q = [i \in 1..n |-> i]
  OBVIOUS
<1>6. \A i \in 1..n : p[i] \in Int /\ r[i] = p[i] * c /\ q[i] \in Int
  <2>1. ASSUME NEW i \in 1..n PROVE i * y[i] \in Int /\ i * (y[i] * c) = (i * y[i]) * c
    <3>1. \A j, a, b \in Int : j * a \in Int /\ j * (a * b) = (j * a) * b
      OBVIOUS
    <3>2. i \in Int /\ y[i] \in Int
      OBVIOUS
    <3> QED BY ONLY <3>1, <3>2, c \in Int
  <2>2. \A i \in 1..n : p[i] = i * y[i] /\ r[i] = i * (y[i] * c) /\ q[i] \in Int
    BY ONLY <1>2, <1>5
  <2> QED BY ONLY <2>1, <2>2
<1>7. PICK N : N = 1..n
  OBVIOUS
<1>8. IsFiniteSet(N)
  BY ONLY <1>7, FS_Interval, n \in Nat
<1>9. PICK s \in Int, w \in Int, m \in Int : s = SumOf(y, N) /\ w = SumOf(p, N) /\ m = SumOf(q, N)
  <2>1. SumOf(y, N) \in Int /\ SumOf(p, N) \in Int /\ SumOf(q, N) \in Int
    BY ONLY <1>2, <1>6, <1>7, <1>8, SumInt
  <2> QED BY ONLY <2>1
<1>10. SumOf(z, N) = s * c /\ SumOf(r, N) = w * c
  <2>3. \A i \in N : y[i] \in Int /\ z[i] = y[i] * c
    BY ONLY <1>2, <1>7
  <2>1. SumOf(z, N) = SumOf(y, N) * c
    BY ONLY <1>8, <2>3, SumTimes, c \in Int
  <2>2. SumOf(r, N) = SumOf(p, N) * c
    BY ONLY <1>6, <1>7, <1>8, SumTimes, c \in Int
  <2> QED BY ONLY <1>9, <2>1, <2>2
<1>11. /\ DOMAIN y = 1..n /\ Len(y) = n /\ Numbers(y) = q
       /\ DOMAIN z = 1..n /\ Len(z) = n /\ Numbers(z) = q
  BY <1>3, <1>5 DEF Numbers
<1>12. Rise(y) = n * w - m * s /\ Rise(z) = n * (w * c) - m * (s * c)
  BY ONLY <1>5, <1>7, <1>9, <1>10, <1>11 DEF Rise
<1>13. Rise(z) = - Rise(y) /\ Rise(y) \in Int
  <2>1. PICK a \in Int, b \in Int : a = n * w /\ b = m * s
    BY ONLY <1>9, n \in Nat
  <2>4. w * c = - w /\ s * c = - s
    BY ONLY <1>9, <1>a
  <2>5. n * (- w) = - (n * w) /\ m * (- s) = - (m * s)
    BY ONLY <1>9, n \in Nat
  <2>2. n * (w * c) = - a /\ m * (s * c) = - b
    BY ONLY <2>1, <2>4, <2>5
  <2>3. Rise(y) = a - b /\ Rise(z) = (- a) - (- b)
    BY ONLY <1>12, <2>1, <2>2
  <2> QED BY ONLY <2>3, a \in Int, b \in Int
<1> QED BY ONLY <1>4, <1>13

\* The trend of natural numbers that never fall is not down, nor that of numbers that never
\* rise up; equal ones are stable.
LEMMA TrendFollows ==
  ASSUME NEW n \in Nat, NEW y \in [1..n -> Nat]
  PROVE  LET d == trend_direction(y)
         IN  /\ (\A i \in 2..n : y[i - 1] = y[i]) => d = "stable"
             /\ (\A i \in 2..n : y[i - 1] <= y[i]) => d # "decreasing"
             /\ (\A i \in 2..n : y[i - 1] >= y[i]) => d # "increasing"
<1>1. y \in [1..n -> Int] /\ DOMAIN y = 1..n /\ \A i \in 1..n : y[i] \in Int
  OBVIOUS
<1>2. PICK N : N = 1..n
  OBVIOUS
<1>3. IsFiniteSet(N)
  BY ONLY <1>2, FS_Interval, n \in Nat
<1>4. PICK s \in Nat : s = SumOf(y, DOMAIN y)
  BY ONLY <1>1, <1>2, <1>3, SumNat, y \in [1..n -> Nat]
<1>5. PICK run \in Nat : run = Run(y)
  <2>1. Numbers(y) \in [1..n -> Int] /\ \A i \in 2..n : Numbers(y)[i - 1] <= Numbers(y)[i]
    BY ONLY <1>1 DEF Numbers
  <2>2. Rise(Numbers(y)) \in Int /\ Rise(Numbers(y)) >= 0
    BY ONLY <2>1, RiseOfRising, n \in Nat
  <2> QED BY ONLY <2>2 DEF Run
<1>6. PICK k \in Nat : k = Cardinality(NonEmpty(y))
  <2>1. NonEmpty(y) \subseteq N
    BY <1>1, <1>2 DEF NonEmpty
  <2>2. Cardinality(NonEmpty(y)) \in Nat
    BY ONLY <1>3, <2>1, FS_Subset, FS_CardinalityType
  <2> QED BY ONLY <2>2
<1>7. PICK tolerance \in Nat : tolerance = s * run
  OBVIOUS
<1>8. PICK rise : rise = Rise(y)
  OBVIOUS
<1>9. trend_direction(y) = IF 20 * rise * k > tolerance THEN "increasing"
                           ELSE IF 20 * rise * k < - tolerance THEN "decreasing" ELSE "stable"
  BY ONLY <1>4, <1>5, <1>6, <1>7, <1>8 DEF trend_direction
<1>10. ASSUME \A i \in 2..n : y[i - 1] <= y[i]
       PROVE  rise \in Int /\ 20 * rise * k \in Int /\ 20 * rise * k >= 0
  <2>1. rise \in Int /\ rise >= 0
    BY ONLY <1>1, <1>8, <1>10, RiseOfRising, n \in Nat
  <2> QED BY ONLY <2>1, k \in Nat
<1>11. ASSUME \A i \in 2..n : y[i - 1] >= y[i]
       PROVE  rise \in Int /\ 20 * rise * k \in Int /\ 20 * rise * k <= 0
  <2>1. rise \in Int /\ rise <= 0
    BY ONLY <1>1, <1>8, <1>11, RiseOfFalling, n \in Nat
  <2>2. PICK fall \in Nat : fall = - rise
    BY ONLY <2>1
  <2>3. 20 * rise * k = - (20 * fall * k) /\ 20 * fall * k \in Nat
    BY ONLY <2>1, <2>2, k \in Nat
  <2> QED BY ONLY <2>1, <2>3
<1>12. (\A i \in 2..n : y[i - 1] <= y[i]) => trend_direction(y) # "decreasing"
  BY ONLY <1>9, <1>10, tolerance \in Nat
<1>13. (\A i \in 2..n : y[i - 1] >= y[i]) => trend_direction(y) # "increasing"
  BY ONLY <1>9, <1>11, tolerance \in Nat
<1>14. (\A i \in 2..n : y[i - 1] = y[i]) => trend_direction(y) = "stable"
  <2>1. ASSUME \A i \in 2..n : y[i - 1] = y[i]
        PROVE  (\A i \in 2..n : y[i - 1] <= y[i]) /\ (\A i \in 2..n : y[i - 1] >= y[i])
    BY <1>1, <2>1
  <2> QED BY ONLY <1>9, <1>12, <1>13, <2>1
<1> QED BY ONLY <1>12, <1>13, <1>14

\* The week of a purchase of the forecast's window is one of its weeks.
LEMMA WeekOfWindow ==
  ASSUME NEW t \in Nat, NEW at \in Nat, days_ago(t, 7 * LOOKBACK_WEEKS) <= at, at < t
  PROVE  WeekOf(at, t) \in 0..(LOOKBACK_WEEKS - 1)
<1>1. PICK w \in Nat \ {0} : w = LOOKBACK_WEEKS
  BY InsightsAssumption
<1>2. PICK n \in Int : n = at - days_ago(t, 7 * LOOKBACK_WEEKS)
  BY <1>1 DEF days_ago
<1>3. 0 <= n /\ n < 168 * w
  BY <1>1, <1>2 DEF days_ago
<1>4. PICK d \in Nat \ {0} : d = 168 /\ d = 7 * 24
  OBVIOUS
<1>5. PICK q \in Int, r \in 0..(d - 1) : q = n \div d /\ n = d * q + r
  BY QuotientIs
<1>6. q \in 0..(w - 1)
  BY ONLY <1>1, <1>3, <1>4, <1>5, n \in Int
<1> QED BY ONLY <1>1, <1>2, <1>4, <1>5, <1>6 DEF WeekOf

\* The weeks hold natural numbers of sats, and all the rewards of the window.
LEMMA WeeksShareOut ==
  ASSUME NEW h, NEW t \in Nat, Stamped(h, t), \A i \in DOMAIN h : h[i].sats \in Nat
  PROVE  /\ Weeks(h, t) \in [1..LOOKBACK_WEEKS -> Nat]
         /\ SumOf(Weeks(h, t), 1..LOOKBACK_WEEKS)
              = Sats(h, Rows(h, LAMBDA p : p.at >= days_ago(t, 7 * LOOKBACK_WEEKS) /\ p.at < t))
<1>1. PICK last \in Nat \ {0} : last = LOOKBACK_WEEKS
  BY InsightsAssumption
<1>2. PICK from \in Int : from = days_ago(t, 7 * LOOKBACK_WEEKS)
  BY <1>1 DEF days_ago
<1>3. PICK window, J : /\ window = {i \in DOMAIN h : h[i].at >= from /\ h[i].at < t}
                       /\ J = 1..last
  OBVIOUS
<1>4. PICK part : part = [w \in J |-> {i \in window : WeekOf(h[i].at, t) = w - 1}]
  OBVIOUS
<1>5. PICK weeks : weeks = Weeks(h, t)
  OBVIOUS
<1>6. window \subseteq DOMAIN h /\ \A w \in J : part[w] \subseteq window /\ w - 1 \in Int
  BY <1>3, <1>4
<1>7. DOMAIN weeks = J /\ weeks = [w \in J |-> weeks[w]]
      /\ \A w \in J : weeks[w] = Sats(h, part[w])
  <2>1. ASSUME NEW w \in J
        PROVE  part[w] = Rows(h, LAMBDA p : /\ p.at >= days_ago(t, 7 * LOOKBACK_WEEKS) /\ p.at < t
                                            /\ WeekOf(p.at, t) = w - 1)
    BY <1>2, <1>3, <1>4 DEF Rows
  <2> QED BY <1>1, <1>3, <1>5, <2>1 DEF Weeks
<1>8. \A i \in window : \E w \in J : i \in part[w]
  <2>1. ASSUME NEW i \in window PROVE WeekOf(h[i].at, t) + 1 \in J /\ WeekOf(h[i].at, t) \in Int
    <3>1. PICK at \in Nat : at = h[i].at /\ from <= at /\ at < t
      BY <1>2, <1>3 DEF Stamped
    <3>2. WeekOf(at, t) \in 0..(last - 1)
      BY ONLY <1>1, <1>2, <3>1, WeekOfWindow, t \in Nat
    <3> QED BY ONLY <1>1, <1>3, <3>1, <3>2
  <2>2. ASSUME NEW i \in window PROVE i \in part[WeekOf(h[i].at, t) + 1]
    BY ONLY <1>4, <2>1, <2>2
  <2> QED BY ONLY <2>1, <2>2
<1>9. \A v, w \in J : v # w => part[v] \cap part[w] = {}
  BY ONLY <1>3, <1>4, last \in Nat
<1>10. IsFiniteSet(J)
  <2>1. J = 1..last
    BY <1>3
  <2> QED BY ONLY <2>1, FS_Interval, last \in Nat
<1>11. SumOf(weeks, J) = Sats(h, window)
  BY ONLY <1>6, <1>7, <1>8, <1>9, <1>10, SatsShared, t \in Nat, Stamped(h, t)
<1>12. \A w \in J : weeks[w] \in Nat
  <2>1. ASSUME NEW w \in J PROVE weeks[w] \in Nat
    <3>1. part[w] \in SUBSET DOMAIN h /\ weeks[w] = Sats(h, part[w])
      BY ONLY <1>6, <1>7
    <3>2. PICK rows : rows = part[w] /\ rows \in SUBSET DOMAIN h
      BY ONLY <3>1
    <3>3. Sats(h, rows) = SumOf(SatsOf(h), rows) /\ IsFiniteSet(rows)
          /\ \A i \in DOMAIN h : SatsOf(h)[i] = h[i].sats
      BY ONLY <3>2, SatsIs, t \in Nat, Stamped(h, t)
    <3>4. \A i \in rows : SatsOf(h)[i] \in Nat
      BY <3>2, <3>3
    <3>5. SumOf(SatsOf(h), rows) \in Nat
      BY ONLY <3>3, <3>4, SumNat
    <3> QED BY ONLY <3>1, <3>2, <3>3, <3>5
  <2> QED BY ONLY <2>1
<1>13. window = Rows(h, LAMBDA p : p.at >= days_ago(t, 7 * LOOKBACK_WEEKS) /\ p.at < t)
  BY <1>2, <1>3 DEF Rows
<1>14. weeks \in [J -> Nat]
  BY ONLY <1>7, <1>12
<1>15. J = 1..LOOKBACK_WEEKS
  BY ONLY <1>1, <1>3
<1> QED BY ONLY <1>5, <1>11, <1>13, <1>14, <1>15

\* The series leaves out only weeks that have nothing, and starts with one that has something.
LEMMA SeriesShareOut ==
  ASSUME NEW h, NEW t \in Nat, Stamped(h, t), \A i \in DOMAIN h : h[i].sats \in Nat
  PROVE  /\ \E n \in Nat : _weekly_series(h, t) \in [1..n -> Nat]
         /\ SumOf(_weekly_series(h, t), DOMAIN _weekly_series(h, t))
              = SumOf(Weeks(h, t), 1..LOOKBACK_WEEKS)
         /\ _weekly_series(h, t) # << >> => _weekly_series(h, t)[1] > 0
<1>1. PICK last \in Nat \ {0} : last = LOOKBACK_WEEKS
  BY InsightsAssumption
<1>2. PICK weeks : weeks = Weeks(h, t) /\ weeks \in [1..last -> Nat]
  BY <1>1, WeeksShareOut
<1>3. PICK active : active = {w \in DOMAIN weeks : weeks[w] > 0}
  OBVIOUS
<1>4. PICK J : J = 1..last
  OBVIOUS
<1>5. IsFiniteSet(J)
  BY ONLY <1>4, FS_Interval, last \in Nat
<1>6. PICK y : y = _weekly_series(h, t)
  OBVIOUS
<1>7. y = IF active = {} THEN << >> ELSE SubSeq(weeks, Min(active), last)
  BY <1>1, <1>2, <1>3, <1>6 DEF _weekly_series
<1>8. CASE active = {}
  <2>1. y = << >> /\ DOMAIN y = {} /\ y \in [1..0 -> Nat]
    BY <1>7, <1>8
  <2>2. \A w \in J : weeks[w] = 0
    BY ONLY <1>2, <1>3, <1>4, <1>8
  <2>3. SumOf(weeks, J) = 0
    BY ONLY <1>5, <2>2, SumZero
  <2>4. SumOf(y, DOMAIN y) = 0
    BY ONLY <2>1, SumEmpty
  <2> QED BY ONLY <1>1, <1>2, <1>4, <1>6, <2>1, <2>3, <2>4
<1>9. CASE active # {}
  <2>1. PICK m \in 1..last : m = Min(active) /\ weeks[m] > 0 /\ \A w \in active : m <= w
    <3>1. active \subseteq J /\ active \in SUBSET Int
      BY ONLY <1>2, <1>3, <1>4, last \in Nat
    <3>2. IsFiniteSet(active)
      BY ONLY <1>5, <3>1, FS_Subset
    <3>3. Min(active) \in active /\ \A w \in active : Min(active) <= w
      BY ONLY <1>9, <3>1, <3>2, Extremes
    <3> QED BY ONLY <1>3, <1>4, <3>1, <3>3
  <2>2. PICK n \in Nat : n = last - m + 1 /\ n # 0
    BY ONLY <1>1, <2>1
  <2>3. weeks \in Seq(Nat) /\ Len(weeks) = last
    BY <1>2
  <2>4. y = SubSeq(weeks, m, last)
    BY ONLY <1>7, <1>9, <2>1
  <2>5. /\ Len(y) = n /\ y \in Seq(Nat)
        /\ \A i \in 1..n : y[i] = weeks[m + i - 1]
    <3>1. \A i \in m..last : weeks[i] \in Nat
      BY ONLY <1>2, m \in 1..last
    <3>2. PICK z : z = SubSeq(weeks, m, last)
      OBVIOUS
    <3>3. /\ z \in Seq(Nat)
          /\ Len(z) = IF m <= last THEN last - m + 1 ELSE 0
          /\ \A i \in 1..(last - m + 1) : z[i] = weeks[m + i - 1]
      BY ONLY <3>1, <3>2, SubSeqProperties, m \in Int, last \in Int
    <3>4. y = z /\ last - m + 1 = n /\ m <= last
      BY ONLY <2>2, <2>4, <3>2, m \in 1..last, last \in Nat
    <3> QED BY ONLY <3>3, <3>4
  <2>6. DOMAIN y = 1..n /\ y \in [1..n -> Nat]
    BY ONLY <2>5, n \in Nat
  <2>7. PICK before, after, N : before = 1..(m - 1) /\ after = m..last /\ N = 1..n
    OBVIOUS
  <2>8. IsFiniteSet(before) /\ IsFiniteSet(after) /\ IsFiniteSet(N)
    BY ONLY <2>7, FS_Interval, m \in 1..last, last \in Nat, n \in Nat
  <2>9. before \cap after = {} /\ before \cup after = J
    BY ONLY <1>4, <2>7, m \in 1..last, last \in Nat
  <2>10. \A w \in J : weeks[w] \in Int /\ weeks[w] \in Nat
    BY ONLY <1>2, <1>4
  <2>11. SumOf(weeks, J) = SumOf(weeks, before) + SumOf(weeks, after)
    BY ONLY <2>8, <2>9, <2>10, SumUnion
  <2>12. SumOf(weeks, before) = 0
    <3>1. \A w \in before : weeks[w] = 0
      <4>1. ASSUME NEW w \in before PROVE weeks[w] = 0
        <5>1. w \in J /\ ~ m <= w
          BY ONLY <1>4, <2>7, <4>1, m \in 1..last, last \in Nat
        <5>2. w \notin active /\ weeks[w] \in Nat
          BY ONLY <2>1, <2>10, <5>1
        <5> QED BY ONLY <1>2, <1>3, <1>4, <5>1, <5>2
      <4> QED BY ONLY <4>1
    <3> QED BY ONLY <2>8, <3>1, SumZero
  <2>13. SumOf(weeks, after) = SumOf(y, N)
    <3>1. PICK shift : shift = [i \in N |-> m + i - 1]
      OBVIOUS
    <3>2. {shift[i] : i \in N} = after
      <4>1. ASSUME NEW w \in after PROVE \E i \in N : w = shift[i]
        <5>1. PICK i \in Int : i = w - m + 1
          BY ONLY <2>7, <4>1, m \in 1..last, last \in Nat
        <5>2. i \in N /\ m + i - 1 = w
          BY ONLY <2>2, <2>7, <4>1, <5>1, m \in 1..last, last \in Nat
        <5> QED BY ONLY <3>1, <5>2
      <4>2. \A i \in N : shift[i] \in after
        BY ONLY <2>2, <2>7, <3>1, m \in 1..last, last \in Nat
      <4> QED BY ONLY <4>1, <4>2
    <3>3. \A i, j \in N : shift[i] = shift[j] => i = j
      BY ONLY <2>7, <3>1, m \in 1..last, n \in Nat
    <3>4. \A i \in N : y[i] \in Int /\ weeks[shift[i]] = y[i]
      BY ONLY <2>5, <2>6, <2>7, <3>1
    <3>5. SumOf(weeks, {shift[i] : i \in N}) = SumOf(y, N)
      BY ONLY <2>8, <3>3, <3>4, SumRenamed
    <3> QED BY ONLY <3>2, <3>5
  <2>14. SumOf(y, N) \in Int
    BY ONLY <2>6, <2>7, <2>8, SumInt
  <2>15. SumOf(y, DOMAIN y) = SumOf(weeks, J)
    BY ONLY <2>6, <2>7, <2>11, <2>12, <2>13, <2>14
  <2>16. y[1] > 0
    <3>1. 1 \in 1..n /\ m + 1 - 1 = m
      BY ONLY <2>2, m \in 1..last
    <3> QED BY ONLY <2>1, <2>5, <3>1
  <2> QED BY ONLY <1>1, <1>2, <1>4, <1>6, <2>6, <2>15, <2>16, n \in Nat
<1> QED BY <1>8, <1>9

\* Every category has a place of its own among the names.
LEMMA RankType ==
  ASSUME NEW c \in DOMAIN BaseRate
  PROVE  Rank(c) \in Nat /\ Names[Rank(c)] = c
<1>1. PICK n \in Nat : DOMAIN Names = 1..n
  BY InsightsAssumption, LenProperties
<1>2. \E i \in DOMAIN Names : Names[i] = c
  BY InsightsAssumption
<1>3. Rank(c) \in DOMAIN Names /\ Names[Rank(c)] = c
  BY ONLY <1>2, Zenon DEF Rank
<1> QED BY ONLY <1>1, <1>3

\* Twice the sats are the sats on top.
LEMMA BoostBonus ==
  ASSUME NEW n \in Nat
  PROVE  calculate_reward(n, 1, 10, 20).boost_bonus = n
<1>1. Rounded(n * 10 * 20, 1 * 100) = 2 * n
  <2>1. PICK d \in Nat \ {0}, q \in Int : d = 100 /\ q = 2 * n
    OBVIOUS
  <2>2. n * 10 * 20 = d * q /\ 1 * 100 = d
    BY ONLY <2>1, n \in Nat
  <2>3. Rounded(d * q, d) = q
    BY ONLY RoundedWhole
  <2> QED BY ONLY <2>1, <2>2, <2>3
<1>2. Rounded(n * 10, 1 * 10) = n
  <2>1. PICK d \in Nat \ {0}, q \in Int : d = 10 /\ q = n
    OBVIOUS
  <2>2. n * 10 = d * q /\ 1 * 10 = d
    BY ONLY <2>1, n \in Nat
  <2>3. Rounded(d * q, d) = q
    BY ONLY RoundedWhole
  <2> QED BY ONLY <2>1, <2>2, <2>3
<1>3. calculate_reward(n, 1, 10, 20).boost_bonus
        = Rounded(n * 10 * 20, 1 * 100) - Rounded(n * 10, 1 * 10)
  BY DEF calculate_reward
<1> QED BY ONLY <1>1, <1>2, <1>3, n \in Nat

\* What a boost is expected to be worth is what it would have paid.
LEMMA WorthAsExpected ==
  ASSUME now \in Nat, Dated(history, now), Offered(history), NEW c \in DOMAIN BaseRate
  PROVE  BoostWorth(c) = ExpectedValue(history, now, c) /\ ExpectedValue(history, now, c) \in Int
<1>1. PICK rows : rows = {i \in Considered(history, now) : history[i].category = c}
  OBVIOUS
<1>2. rows \subseteq DOMAIN history /\ \A i \in rows : history[i].category = c
  BY <1>1 DEF Considered, Rows
<1>3. IsFiniteSet(rows)
  BY <1>2, DatedRows, FS_Subset
<1>4. PICK rate \in Nat : rate = BaseRate[c]
  BY InsightsAssumption
<1>5. PICK w, v : /\ w = [i \in rows |-> history[i].amount]
                  /\ v = [i \in rows |-> calculate_reward(history[i].sats, 1, 10, 20).boost_bonus]
  OBVIOUS
<1>6. \A i \in rows : w[i] \in Int /\ v[i] = w[i] * rate
  <2>1. ASSUME NEW i \in rows PROVE w[i] \in Int /\ v[i] = w[i] * rate
    <3>1. i \in DOMAIN history /\ history[i].category = c
      BY <1>2
    <3>2. /\ history[i].amount \in Nat /\ history[i].sats \in Nat
          /\ history[i].sats = history[i].amount * BaseRate[history[i].category]
      BY <3>1, DatedRows DEF Offered
    <3>3. v[i] = history[i].sats /\ w[i] = history[i].amount
      BY ONLY <1>5, <2>1, <3>2, BoostBonus
    <3> QED BY ONLY <1>4, <3>1, <3>2, <3>3
  <2> QED BY ONLY <2>1
<1>7. SumOf(v, rows) = SumOf(w, rows) * rate /\ SumOf(w, rows) \in Int
  BY ONLY <1>3, <1>6, SumTimes, SumInt, rate \in Int
<1>8. BoostWorth(c) = SumOf(v, rows)
  BY ONLY <1>1, <1>5 DEF BoostWorth, Total
<1>9. ExpectedValue(history, now, c) = SumOf(w, rows) * rate
  BY ONLY <1>1, <1>4, <1>5 DEF ExpectedValue, Volume, Total
<1>10. SumOf(w, rows) * rate \in Int
  BY ONLY <1>7, rate \in Nat
<1> QED BY ONLY <1>7, <1>8, <1>9, <1>10

\* The category that is recommended is one of the period's, and none is worth more.
LEMMA RecommendsTheBest ==
  ASSUME now \in Nat, Dated(history, now), Offered(history),
         recommend_boost(history, now) # "none", NEW c \in Spending(history, now)
  PROVE  BoostWorth(c) <= BoostWorth(recommend_boost(history, now))
<1>1. PICK rows : rows = Considered(history, now) /\ rows \subseteq DOMAIN history
  BY DEF Considered, Rows
<1>2. PICK cats : cats = Spending(history, now) /\ cats = {history[i].category : i \in rows}
  BY <1>1 DEF Spending
<1>3. IsFiniteSet(rows)
  BY <1>1, DatedRows, FS_Subset
<1>4. IsFiniteSet(cats)
  <2>1. PICK f : f = [i \in rows |-> history[i].category]
    OBVIOUS
  <2>2. f \in Surjection(rows, cats)
    BY ONLY <1>2, <2>1 DEF Surjection
  <2> QED BY ONLY <1>3, <2>2, FS_Surjection
<1>5. cats \subseteq DOMAIN BaseRate /\ cats # {}
  <2>1. \A i \in rows : history[i].category \in DOMAIN BaseRate
    BY <1>1, DatedRows
  <2> QED BY <1>2, <2>1
<1>6. PICK value : value = [x \in cats |-> ExpectedValue(history, now, x)]
  OBVIOUS
<1>7. \A x \in cats : /\ value[x] \in Int /\ value[x] = ExpectedValue(history, now, x)
                      /\ BoostWorth(x) = value[x] /\ Rank(x) \in Int /\ Names[Rank(x)] = x
  BY <1>5, <1>6, WorthAsExpected, RankType
<1>8. \A x, y \in cats : Ahead(history, now, x, y)
                           <=> value[x] > value[y] \/ (value[x] = value[y] /\ Rank(x) < Rank(y))
  BY ONLY <1>7 DEF Ahead
<1>9. PICK R : R = {e \in cats \X cats : Ahead(history, now, e[1], e[2])}
  OBVIOUS
<1>10. \A x, y \in cats : <<x, y>> \in R <=> Ahead(history, now, x, y)
  BY ONLY <1>9, Zenon
<1>11. \A x, y \in cats : x # y => <<x, y>> \in R \/ <<y, x>> \in R
  <2>1. ASSUME NEW x \in cats, NEW y \in cats, x # y PROVE <<x, y>> \in R \/ <<y, x>> \in R
    <3>1. Rank(x) # Rank(y)
      BY ONLY <1>7, <2>1
    <3>2. Rank(x) \in Int /\ Rank(y) \in Int /\ value[x] \in Int /\ value[y] \in Int
      BY ONLY <1>7, <2>1
    <3> QED BY ONLY <1>8, <1>10, <2>1, <3>1, <3>2
  <2> QED BY ONLY <2>1
<1>12. \A x, y, z \in cats : <<x, y>> \in R /\ <<y, z>> \in R => <<x, z>> \in R
  <2>1. ASSUME NEW x \in cats, NEW y \in cats, NEW z \in cats,
               Ahead(history, now, x, y), Ahead(history, now, y, z)
        PROVE  Ahead(history, now, x, z)
    <3>1. /\ Rank(x) \in Int /\ Rank(y) \in Int /\ Rank(z) \in Int
          /\ value[x] \in Int /\ value[y] \in Int /\ value[z] \in Int
      BY ONLY <1>7, <2>1
    <3> QED BY ONLY <1>8, <2>1, <3>1
  <2> QED BY ONLY <1>10, <2>1
<1>13. \E x \in cats : \A y \in cats \ {x} : <<x, y>> \in R
  <2>1. cats # {}
    BY ONLY <1>5
  <2> QED BY ONLY <1>4, <2>1, <1>11, <1>12, Foremost, Zenon
<1>14. \E x \in cats : \A y \in cats \ {x} : Ahead(history, now, x, y)
  BY ONLY <1>10, <1>13
<1>15. PICK best : best = recommend_boost(history, now)
  OBVIOUS
<1>16. best = CHOOSE x \in cats : \A y \in cats \ {x} : Ahead(history, now, x, y)
  BY ONLY <1>2, <1>15, recommend_boost(history, now) # "none", Zenon DEF recommend_boost
<1>17. best \in cats /\ \A y \in cats \ {best} : Ahead(history, now, best, y)
  BY ONLY <1>14, <1>16, Zenon
<1>18. c \in cats
  BY ONLY <1>2, c \in Spending(history, now)
<1>19. value[c] <= value[best]
  <2>1. value[c] \in Int /\ value[best] \in Int
    BY ONLY <1>7, <1>17, <1>18
  <2>2. CASE c = best
    BY ONLY <2>1, <2>2
  <2>3. CASE c # best
    BY ONLY <1>8, <1>17, <1>18, <2>1, <2>3
  <2> QED BY ONLY <2>2, <2>3
<1> QED BY ONLY <1>7, <1>15, <1>17, <1>18, <1>19

\* The forecast's weeks hold all the rewards of its window and start with one that has some;
\* what never falls is not called decreasing, nor the other way round, and equal weeks are
\* stable; the boost that is recommended is the one that would have paid the most
\* (ml_forecast.py:77-133, 272-281, smart_recommender.py:46-132).
THEOREM PredictionsFollow == Spec => []PredictionsFollowHistory
<1>1. ASSUME TypeOK PROVE PredictionsFollowHistory
  <2>1. now \in Nat /\ Dated(history, now) /\ Offered(history)
    BY <1>1 DEF TypeOK
  <2>2. PICK ev, y : ev = RewardEvents(history) /\ y = _weekly_series(ev, now)
    OBVIOUS
  <2>8. Stamped(ev, now) /\ \A i \in DOMAIN ev : ev[i].sats \in Nat
    BY <1>1, <2>2, TablesStamped
  <2>3. PICK n \in Nat : y \in [1..n -> Nat]
    BY ONLY <2>1, <2>2, <2>8, SeriesShareOut
  <2>4. /\ SumOf(y, DOMAIN y) = Sats(ev, Rows(ev, LAMBDA p :
                           p.at >= days_ago(now, 7 * LOOKBACK_WEEKS) /\ p.at < now))
        /\ y # << >> => y[1] > 0
    BY ONLY <2>1, <2>2, <2>8, SeriesShareOut, WeeksShareOut
  <2>5. Len(y) = n
    BY ONLY <2>3
  <2>6. LET d == trend_direction(y)
        IN  /\ (\A i \in 2..n : y[i - 1] = y[i]) => d = "stable"
            /\ (\A i \in 2..n : y[i - 1] <= y[i]) => d # "decreasing"
            /\ (\A i \in 2..n : y[i - 1] >= y[i]) => d # "increasing"
    BY ONLY <2>3, TrendFollows
  <2>7. ASSUME recommend_boost(history, now) # "none", NEW c \in Spending(history, now)
        PROVE  BoostWorth(c) <= BoostWorth(recommend_boost(history, now))
    BY ONLY <2>1, <2>7, RecommendsTheBest
  <2> QED BY ONLY <2>2, <2>4, <2>5, <2>6, <2>7 DEF PredictionsFollowHistory
<1> QED BY <1>1, Typed, PTL

-----------------------------------------------------------------------------
(* The survey's responses. *)

\* A response on record has answers to what its cohort has been asked.
Told(r) ==
  /\ r \in Response
  /\ Grounded(r)
  /\ cohort(r) # "screened_out" => /\ r.q8 \in Q8_OPTIONS
                                   /\ \A f \in CONCEPT_LIKERT_FIELDS : r.answers[f] # Missing
  /\ cohort(r) = "used_app" => \A f \in Fields : r.answers[f] # Missing

AllTold(rows) ==
  /\ rows \in Seq(Response)
  /\ \A i \in DOMAIN rows : Told(rows[i])

\* Those that a rollback would restore do, too.
SurveyIInv ==
  /\ AllTold(responses)
  /\ dialect = "postgres" /\ ~ Idle => AllTold(saved[3])

\* What submit_response stores,
LEMMA StoredTold ==
  ASSUME NEW body \in SurveyResponseCreate, Complete(body)
  PROVE  Told(Stored(body))
<1> USE SurveyAssumption DEF SurveyResponseCreate, Fields, Missing, NotAnswered
<1>1. Stored(body) \in Response
  BY DEF Stored, Response, Answers, Kept
<1>2. CASE body.screen_active_trader
  <2>1. cohort(Stored(body)) = "screened_out"
    BY <1>2 DEF cohort, Stored
  <2>2. \A f \in APP_EXPERIENCE_FIELDS : Stored(body).answers[f] = Missing
    BY <1>2 DEF Stored, Kept
  <2> QED BY <1>1, <2>1, <2>2 DEF Told, Grounded
<1>3. CASE ~ body.screen_active_trader /\ body.has_used_app = "yes"
  <2>1. cohort(Stored(body)) = "used_app" /\ Stored(body).grounded /\ Stored(body).q8 = body.q8
    BY <1>3 DEF cohort, Stored
  <2>2. \A f \in Fields : Stored(body).answers[f] # Missing
    BY <1>3 DEF Stored, Kept, Complete, Unanswered
  <2> QED BY <1>1, <1>3, <2>1, <2>2 DEF Told, Grounded, Complete
<1>4. CASE ~ body.screen_active_trader /\ body.has_used_app = "no"
  <2>1. cohort(Stored(body)) = "concept_only" /\ Stored(body).q8 = body.q8
    BY <1>4 DEF cohort, Stored
  <2>2. \A f \in CONCEPT_LIKERT_FIELDS : Stored(body).answers[f] # Missing
    BY <1>4 DEF Stored, Kept, Complete, Unanswered
  <2>3. \A f \in APP_EXPERIENCE_FIELDS : Stored(body).answers[f] = Missing
    BY <1>4 DEF Stored, Kept
  <2> QED BY <1>1, <1>4, <2>1, <2>2, <2>3 DEF Told, Grounded, Complete
<1> QED BY <1>2, <1>3, <1>4 DEF Complete

\* and what the earlier release did.
LEMMA EarlierTold ==
  ASSUME NEW body \in SurveyResponseCreate, NEW row,
         \A f \in Fields : body.answers[f] # Missing, body.q8 # NotAnswered,
         row = [source |-> body.source, screened_out |-> FALSE, has_used_app |-> "null",
                answers |-> body.answers, q8 |-> body.q8, grounded |-> FALSE]
  PROVE  Told(row)
<1> USE DEF SurveyResponseCreate, Fields, Missing, NotAnswered
<1>1. row \in Response
  BY DEF Response
<1>2. cohort(row) = "legacy"
  BY DEF cohort
<1> QED BY <1>1, <1>2 DEF Told, Grounded

\* A response that loses the answer whether its respondent had used the application becomes
\* a legacy one, unless it is screened out.
LEMMA NulledTold ==
  ASSUME NEW r, Told(r), NEW n, n = [r EXCEPT !.has_used_app = "null"]
  PROVE  Told(n)
<1>1. r \in Response
  BY DEF Told
<1>2. /\ n \in Response /\ n.has_used_app = "null"
      /\ n.screened_out = r.screened_out /\ n.answers = r.answers /\ n.q8 = r.q8
  BY <1>1 DEF Response
<1>3. CASE r.screened_out
  <2>1. cohort(r) = "screened_out" /\ cohort(n) = "screened_out"
    BY <1>2, <1>3 DEF cohort
  <2> QED BY ONLY Told(r), <1>2, <2>1 DEF Told, Grounded
<1>4. CASE ~ r.screened_out
  <2>1. cohort(r) # "screened_out" /\ cohort(n) = "legacy"
    BY <1>1, <1>2, <1>4 DEF cohort
  <2> QED BY ONLY Told(r), <1>2, <2>1 DEF Told, Grounded
<1> QED BY <1>3, <1>4

\* What a step of a migration makes of the responses.
LEMMA RowsAfterTold ==
  ASSUME AllTold(responses), NEW step
  PROVE  AllTold(RowsAfter(step))
<1>1. PICK nulled : nulled = [i \in DOMAIN responses |-> [responses[i] EXCEPT !.has_used_app = "null"]]
  OBVIOUS
<1>2. \A i \in DOMAIN nulled : Told(nulled[i])
  BY <1>1, NulledTold DEF AllTold
<1>3. nulled \in Seq(Response)
  <2>1. \A i \in DOMAIN nulled : nulled[i] \in Response
    BY <1>2 DEF Told
  <2> QED BY <1>1, <2>1 DEF AllTold
<1>4. AllTold(nulled) /\ AllTold(<< >>)
  BY <1>2, <1>3 DEF AllTold
<1>5. RowsAfter(step) \in {nulled, << >>, responses}
  BY <1>1 DEF RowsAfter
<1> QED BY <1>4, <1>5

\* One more response.
LEMMA AppendTold ==
  ASSUME AllTold(responses), NEW r, Told(r)
  PROVE  AllTold(Append(responses, r))
BY DEF AllTold, Told

\* No step stores a response that tells less, or restores one.
LEMMA SurveyNextIInv == SurveyIInv /\ [SurveyNext]_mvars => SurveyIInv'
<1> SUFFICES ASSUME SurveyIInv, [SurveyNext]_mvars PROVE SurveyIInv'
  OBVIOUS
<1> USE DEF SurveyIInv
<1>1. ASSUME NEW steps, Command(steps) PROVE SurveyIInv'
  BY <1>1 DEF Command, Idle, AllTold, database
<1>2. CASE RunStep
  <2>1. AllTold(responses')
    BY <1>2, RowsAfterTold DEF RunStep
  <2>2. dialect' = "postgres" /\ ~ Idle' => AllTold(saved'[3])
    BY <1>2 DEF RunStep, Idle
  <2> QED BY <2>1, <2>2 DEF AllTold
<1>3. ASSUME ~ Idle, Abandon PROVE SurveyIInv'
  BY <1>3 DEF Abandon, Idle, database, AllTold
<1>4. CASE Start
  BY <1>4 DEF Start, Idle, AllTold
<1>5. ASSUME NEW body \in Bodies, submit_response(body) PROVE SurveyIInv'
  <2>1. AllTold(responses')
    BY <1>5, StoredTold, AppendTold DEF submit_response, Bodies
  <2> QED BY <1>5, <2>1 DEF submit_response, Idle, AllTold
<1>6. ASSUME NEW body \in Bodies, EarlierRelease(body) PROVE SurveyIInv'
  <2>1. AllTold(responses')
    BY <1>6, EarlierTold, AppendTold DEF EarlierRelease, Bodies
  <2> QED BY <1>6, <2>1 DEF EarlierRelease, Idle, AllTold
<1>7. CASE UNCHANGED mvars
  BY <1>7 DEF mvars, Idle, AllTold
<1> QED BY <1>1, <1>2, <1>3, <1>4, <1>5, <1>6, <1>7
        DEF SurveyNext, Migrate, Upgrade, Downgrade, StepFails, Interrupt

\* Before the first response there is none to tell less.
LEMMA SurveyInitIInv == MigrationsInit => SurveyIInv
BY DEF MigrationsInit, SurveyIInv, AllTold, Idle
-----------------------------------------------------------------------------
(* The survey's statistics. *)

\* How many there are of each kind adds up to all.
LEMMA CountsAddUp ==
  ASSUME NEW S, IsFiniteSet(S), NEW T, IsFiniteSet(T), NEW part, NEW counts,
         \A x \in T : part[x] \subseteq S /\ counts[x] = Cardinality(part[x]),
         \A i \in S : \E x \in T : i \in part[x],
         \A x, y \in T : x # y => part[x] \cap part[y] = {}
  PROVE  SumOf(counts, T) = Cardinality(S)
<1>1. PICK one : one = [i \in S |-> 1]
  OBVIOUS
<1>2. \A x \in T : part[x] \subseteq S /\ counts[x] = SumOf(one, part[x])
  <2> TAKE x \in T
  <2>1. IsFiniteSet(part[x]) /\ \A i \in part[x] : one[i] = 1
    BY <1>1, FS_Subset
  <2> QED BY <2>1, SumOnes
<1>3. \A i \in S : one[i] \in Int
  BY <1>1
<1>4. SumOf(counts, T) = SumOf(one, S)
  BY <1>2, <1>3, SumOfParts
<1> QED BY ONLY <1>1, <1>4, IsFiniteSet(S), SumOnes

\* Answers on the scale, to an item.
OnScale(v) == IsFiniteSet(DOMAIN v) /\ \A i \in DOMAIN v : v[i] \in 1..5

\* The scale is finite.
LEMMA ScaleFinite == IsFiniteSet(1..5)
<1>1. \A n \in Nat : IsFiniteSet(1..n)
  BY FS_Interval
<1> QED BY <1>1

\* Sorted answers do not fall.
LEMMA NthRises ==
  ASSUME NEW v, OnScale(v), NEW k \in 1..Cardinality(DOMAIN v), NEW l \in k..Cardinality(DOMAIN v)
  PROVE  Nth(v, k) \in Int /\ Nth(v, l) \in Int /\ Nth(v, k) <= Nth(v, l)
<1>1. Cardinality(DOMAIN v) \in Nat
  BY FS_CardinalityType DEF OnScale
<1>2. PICK upTo : upTo = [x \in 1..5 |-> Cardinality({i \in DOMAIN v : v[i] <= x})]
  OBVIOUS
<1>3. \A x \in 1..5 : upTo[x] \in Nat
  <2> TAKE x \in 1..5
  <2>1. IsFiniteSet({i \in DOMAIN v : v[i] <= x})
    BY FS_Subset DEF OnScale
  <2> QED BY <1>2, <2>1, FS_CardinalityType
<1>4. upTo[5] = Cardinality(DOMAIN v)
  <2>1. {i \in DOMAIN v : v[i] <= 5} = DOMAIN v
    BY DEF OnScale
  <2> QED BY <1>2, <2>1
<1>5. PICK K, L : K = {x \in 1..5 : upTo[x] >= k} /\ L = {x \in 1..5 : upTo[x] >= l}
  OBVIOUS
<1>6. /\ K \in SUBSET Int /\ L \subseteq K /\ L # {}
  BY <1>1, <1>3, <1>4, <1>5
<1>7. IsFiniteSet(K) /\ IsFiniteSet(L)
  <2>1. K \subseteq 1..5 /\ L \subseteq 1..5
    BY <1>5
  <2> QED BY ONLY <2>1, ScaleFinite, FS_Subset
<1>8. /\ Min(K) \in K /\ \A x \in K : Min(K) <= x
      /\ Min(L) \in L
  BY <1>6, <1>7, Extremes
<1>9. Nth(v, k) = Min(K) /\ Nth(v, l) = Min(L)
  BY <1>2, <1>5 DEF Nth
<1> QED BY <1>6, <1>8, <1>9

\* A quartile, of what its place in quarters is.
LEMMA QuartileIs ==
  ASSUME NEW v, NEW k \in {1, 3}, NEW m \in Nat, Cardinality(DOMAIN v) = m + 1,
         NEW q \in Nat, NEW r \in 0..3, k * m = 4 * q + r
  PROVE  Quartile(v, k) = IF r = 0 THEN 4 * Nth(v, q + 1)
                          ELSE Nth(v, q + 1) * (4 - r) + Nth(v, q + 1 + 1) * r
<1>1. Cardinality(DOMAIN v) - 1 = m
  OBVIOUS
<1>2. (k * m) \div 4 = q /\ (k * m) % 4 = r
  OBVIOUS
<1> QED BY <1>1, <1>2, Zenon DEF Quartile

\* The median is between the quartiles.
LEMMA QuartilesAround ==
  ASSUME NEW v, OnScale(v), DOMAIN v # {}
  PROVE  Quartile(v, 1) <= Median(v) /\ Median(v) <= Quartile(v, 3)
<1>1. PICK m \in Nat : Cardinality(DOMAIN v) = m + 1
  <2>1. Cardinality(DOMAIN v) \in Nat /\ Cardinality(DOMAIN v) # 0
    BY FS_CardinalityType, FS_EmptySet DEF OnScale
  <2> QED BY <2>1, Cardinality(DOMAIN v) - 1 \in Nat
<1>2. PICK q \in Nat, r \in 0..3 : m = 4 * q + r
  <2>1. m \div 4 \in Nat /\ m % 4 \in 0..3 /\ m = 4 * (m \div 4) + (m % 4)
    BY QuotientIs, QuotientNat
  <2> QED BY <2>1
<1>3. \A k, l \in 1..(m + 1) :
        k <= l => Nth(v, k) \in Int /\ Nth(v, l) \in Int /\ Nth(v, k) <= Nth(v, l)
  BY <1>1, NthRises
<1>4. PICK j \in Nat, t \in 0..3 : 3 * m = 4 * j + t
  <2>1. 3 * m \in Nat
    OBVIOUS
  <2>2. (3 * m) \div 4 \in Nat /\ (3 * m) % 4 \in 0..3 /\ 3 * m = 4 * ((3 * m) \div 4) + ((3 * m) % 4)
    BY <2>1, QuotientIs, QuotientNat
  <2> QED BY <2>2
<1>5. /\ Quartile(v, 1) = IF r = 0 THEN 4 * Nth(v, q + 1)
                         ELSE Nth(v, q + 1) * (4 - r) + Nth(v, q + 1 + 1) * r
      /\ Quartile(v, 3) = IF t = 0 THEN 4 * Nth(v, j + 1)
                         ELSE Nth(v, j + 1) * (4 - t) + Nth(v, j + 1 + 1) * t
  <2>1. 1 * m = 4 * q + r
    BY <1>2
  <2> QED BY <1>1, <1>4, <2>1, QuartileIs
<1>6. PICK h \in Nat, e \in 0..1 : m + 1 = 2 * h + e
  <2>1. (m + 1) \div 2 \in Nat /\ (m + 1) % 2 \in 0..1 /\ m + 1 = 2 * ((m + 1) \div 2) + ((m + 1) % 2)
    BY QuotientIs, QuotientNat
  <2> QED BY <2>1
<1>7. Median(v) = IF e = 1 THEN 4 * Nth(v, h + 1) ELSE 2 * (Nth(v, h) + Nth(v, h + 1))
  <2>1. (m + 1) \div 2 = h /\ (m + 1) % 2 = e
    BY <1>6
  <2> QED BY <1>1, <2>1 DEF Median
<1>8. CASE r = 0
  <2>1. t = 0 /\ e = 1 /\ {q + 1, h + 1, j + 1} \subseteq 1..(m + 1) /\ q <= h /\ h <= j
    BY <1>2, <1>4, <1>6, <1>8
  <2> QED BY ONLY <1>3, <1>5, <1>7, <1>8, <2>1
<1>9. CASE r = 1
  <2>1. /\ t = 3 /\ e = 0
        /\ {q + 1, q + 1 + 1, h, h + 1, j + 1, j + 1 + 1} \subseteq 1..(m + 1)
        /\ q + 1 <= h /\ h <= j + 1
    BY <1>2, <1>4, <1>6, <1>9
  <2> QED BY ONLY <1>3, <1>5, <1>7, <1>9, <2>1
<1>10. CASE r = 2
  <2>1. /\ t = 2 /\ e = 1
        /\ {q + 1, q + 1 + 1, h + 1, j + 1, j + 1 + 1} \subseteq 1..(m + 1)
        /\ q + 1 <= h /\ h <= j
    BY <1>2, <1>4, <1>6, <1>10
  <2> QED BY ONLY <1>3, <1>5, <1>7, <1>10, <2>1
<1>11. CASE r = 3
  <2>1. /\ t = 1 /\ e = 0
        /\ {q + 1, q + 1 + 1, h, h + 1, j + 1, j + 1 + 1} \subseteq 1..(m + 1)
        /\ q + 1 + 1 <= h /\ h <= j
    BY <1>2, <1>4, <1>6, <1>11
  <2> QED BY ONLY <1>3, <1>5, <1>7, <1>11, <2>1
<1> QED BY <1>8, <1>9, <1>10, <1>11

\* A distribution adds up to its n, about a median between its quartiles.
LEMMA StatsConsistent ==
  ASSUME NEW v, OnScale(v)
  PROVE  Consistent(likert_stats(v)) /\ likert_stats(v).n = Cardinality(DOMAIN v)
<1>1. CASE DOMAIN v = {}
  <2>1. PICK zeros : zeros = [x \in 1..5 |-> 0]
    OBVIOUS
  <2>2. SumOf(zeros, 1..5) = 0
    BY <2>1, ScaleFinite, SumZero
  <2>3. likert_stats(v).distribution = zeros /\ likert_stats(v).n = 0
    BY <1>1, <2>1 DEF likert_stats
  <2> QED BY <1>1, <2>2, <2>3, FS_EmptySet DEF Consistent
<1>2. CASE DOMAIN v # {}
  <2>1. PICK counts : counts = [x \in 1..5 |-> Count(v, x)]
    OBVIOUS
  <2>2. SumOf(counts, 1..5) = Cardinality(DOMAIN v)
    <3>1. PICK part : part = [x \in 1..5 |-> {i \in DOMAIN v : v[i] = x}]
      OBVIOUS
    <3>2. \A x \in 1..5 : part[x] \subseteq DOMAIN v /\ counts[x] = Cardinality(part[x])
      BY <2>1, <3>1 DEF Count
    <3>3. \A i \in DOMAIN v : \E x \in 1..5 : i \in part[x]
      BY <3>1 DEF OnScale
    <3>4. \A x, y \in 1..5 : x # y => part[x] \cap part[y] = {}
      BY <3>1
    <3>5. IsFiniteSet(DOMAIN v)
      BY DEF OnScale
    <3> QED BY ONLY <3>2, <3>3, <3>4, <3>5, ScaleFinite, CountsAddUp
  <2>3. /\ likert_stats(v).n = Cardinality(DOMAIN v)
        /\ likert_stats(v).distribution = counts
        /\ likert_stats(v).q1 = Quartile(v, 1)
        /\ likert_stats(v).median = Median(v)
        /\ likert_stats(v).q3 = Quartile(v, 3)
    BY <1>2, <2>1 DEF likert_stats
  <2>4. Quartile(v, 1) <= Median(v) /\ Median(v) <= Quartile(v, 3)
    BY <1>2, QuartilesAround
  <2> QED BY ONLY <2>2, <2>3, <2>4 DEF Consistent
<1> QED BY <1>1, <1>2

\* Responses, and the parts of them, are finitely many.
LEMMA ResponsesFinite ==
  ASSUME AllTold(responses), NEW group \in SUBSET DOMAIN responses
  PROVE  IsFiniteSet(group) /\ Len(responses) = Cardinality(DOMAIN responses)
<1>1. Len(responses) \in Nat /\ DOMAIN responses = 1..Len(responses)
  BY DEF AllTold
<1>2. \A n \in Nat : IsFiniteSet(1..n) /\ Cardinality(1..n) = n
  BY FS_Interval
<1> QED BY ONLY <1>1, <1>2, group \in SUBSET DOMAIN responses, FS_Subset

\* A group's answers to an item are on the scale, and are all of the group's if none of it
\* has left the item out.
LEMMA GroupValues ==
  ASSUME AllTold(responses), NEW group \in SUBSET DOMAIN responses, NEW f \in Fields
  PROVE  /\ OnScale(values(group, f))
         /\ Cardinality(DOMAIN values(group, f)) <= Cardinality(group)
         /\ Cardinality(group) \in Nat
         /\ (\A i \in group : responses[i].answers[f] # Missing)
              => Cardinality(DOMAIN values(group, f)) = Cardinality(group)
<1>1. PICK answered : answered = {i \in group : responses[i].answers[f] # Missing}
  OBVIOUS
<1>2. DOMAIN values(group, f) = answered
  BY <1>1 DEF values
<1>3. IsFiniteSet(group) /\ IsFiniteSet(answered)
  BY <1>1, ResponsesFinite
<1>4. \A i \in answered : values(group, f)[i] \in 1..5
  <2> TAKE i \in answered
  <2>1. responses[i] \in Response /\ values(group, f)[i] = responses[i].answers[f]
    BY <1>1 DEF values, AllTold, Told
  <2>2. responses[i].answers[f] \in {Missing} \cup Scale
    BY <2>1 DEF Response, Answers
  <2> QED BY <1>1, <2>1, <2>2, SurveyAssumption
<1>5. Cardinality(answered) <= Cardinality(group) /\ Cardinality(group) \in Nat
  BY <1>1, <1>3, FS_Subset, FS_CardinalityType
<1> QED BY <1>1, <1>2, <1>3, <1>4, <1>5 DEF OnScale

\* So a group's statistics are of them.
LEMMA GroupStats ==
  ASSUME AllTold(responses), NEW group \in SUBSET DOMAIN responses, NEW f \in Fields,
         NEW stats, stats = likert_stats(values(group, f))
  PROVE  /\ Consistent(stats) /\ stats.n <= Cardinality(group)
         /\ (\A i \in group : responses[i].answers[f] # Missing) => stats.n = Cardinality(group)
<1>1. PICK v : v = values(group, f)
  OBVIOUS
<1>2. /\ OnScale(v) /\ Cardinality(DOMAIN v) <= Cardinality(group)
      /\ (\A i \in group : responses[i].answers[f] # Missing)
           => Cardinality(DOMAIN v) = Cardinality(group)
  BY <1>1, GroupValues
<1>3. Consistent(stats) /\ stats.n = Cardinality(DOMAIN v)
  BY <1>1, <1>2, StatsConsistent
<1> QED BY ONLY <1>2, <1>3

\* What is summarised together has been asked and answered by everyone it is counted beside.
LEMMA SummaryApart ==
  ASSUME AllTold(responses)
  PROVE  SummaryKeepsGroupsApart
<1>1. PICK all, out, included, used, legacy :
        /\ all = DOMAIN responses /\ out = Group({"screened_out"}) /\ included = Included
        /\ used = Group({"used_app"}) /\ legacy = Group({"legacy"})
  OBVIOUS
<1>2. /\ out \in SUBSET all /\ included \in SUBSET all
      /\ used \in SUBSET all /\ legacy \in SUBSET all
      /\ \A i \in all : i \in included <=> cohort(responses[i]) # "screened_out"
      /\ \A i \in all : i \in out <=> cohort(responses[i]) = "screened_out"
      /\ \A i \in used : cohort(responses[i]) = "used_app"
  BY <1>1 DEF Group, Included, cohort
<1>3. /\ summary.total_responses = Cardinality(all)
      /\ summary.screened_out = Cardinality(out)
      /\ summary.included = Cardinality(included)
      /\ summary.used_app_count = Cardinality(used)
      /\ summary.legacy_count = Cardinality(legacy)
  BY <1>1, ResponsesFinite DEF summary
<1>4. Cardinality(all) = Cardinality(out) + Cardinality(included)
  <2>1. out \cap included = {} /\ out \cup included = all
    BY <1>2
  <2>2. IsFiniteSet(out) /\ IsFiniteSet(included)
    BY <1>1, <1>2, ResponsesFinite
  <2>3. Cardinality(out) \in Nat /\ Cardinality(included) \in Nat
    BY <2>2, FS_CardinalityType
  <2>4. Cardinality(out \cup included) = Cardinality(out) + Cardinality(included) - Cardinality({})
    BY ONLY <2>1, <2>2, FS_Union
  <2>5. Cardinality({}) = 0
    BY FS_EmptySet
  <2> QED BY ONLY <2>1, <2>3, <2>4, <2>5
<1>5. Cardinality(all) = SumOf(summary.by_source, Sources)
  <2>1. PICK part : part = [x \in Sources |-> {i \in all : responses[i].source = x}]
    OBVIOUS
  <2>2. \A x \in Sources : part[x] \subseteq all /\ summary.by_source[x] = Cardinality(part[x])
    BY <1>1, <2>1 DEF summary
  <2>3. \A i \in all : \E x \in Sources : i \in part[x]
    BY <1>1, <2>1 DEF AllTold, Told, Response
  <2>4. \A x, y \in Sources : x # y => part[x] \cap part[y] = {}
    BY <2>1
  <2>5. IsFiniteSet(all) /\ IsFiniteSet(Sources)
    BY <1>1, ResponsesFinite, SurveyAssumption
  <2> QED BY ONLY <2>2, <2>3, <2>4, <2>5, CountsAddUp
<1>6. Cardinality(included) = SumOf(summary.q8_distribution, Q8_OPTIONS)
  <2>1. PICK part : part = [x \in Q8_OPTIONS |-> {i \in included : responses[i].q8 = x}]
    OBVIOUS
  <2>2. \A x \in Q8_OPTIONS : /\ part[x] \subseteq included
                             /\ summary.q8_distribution[x] = Cardinality(part[x])
    BY <1>1, <2>1 DEF summary
  <2>3. \A i \in included : responses[i].q8 \in Q8_OPTIONS
    BY <1>1, <1>2 DEF AllTold, Told
  <2>4. \A i \in included : \E x \in Q8_OPTIONS : i \in part[x]
    BY <2>1, <2>3
  <2>5. \A x, y \in Q8_OPTIONS : x # y => part[x] \cap part[y] = {}
    BY <2>1
  <2>6. IsFiniteSet(included) /\ IsFiniteSet(Q8_OPTIONS)
    BY <1>1, <1>2, ResponsesFinite, SurveyAssumption
  <2> QED BY ONLY <2>2, <2>4, <2>5, <2>6, CountsAddUp
<1>7. \A f \in CONCEPT_LIKERT_FIELDS : /\ Consistent(summary.likert[f])
                                      /\ summary.likert[f].n = Cardinality(included)
  <2> TAKE f \in CONCEPT_LIKERT_FIELDS
  <2>1. \A i \in included : responses[i].answers[f] # Missing
    BY <1>1, <1>2 DEF AllTold, Told
  <2>2. f \in Fields /\ summary.likert[f] = likert_stats(values(included, f))
    BY <1>1 DEF summary, Fields
  <2> QED BY <1>1, <1>2, <2>1, <2>2, GroupStats
<1>8. \A f \in Fields \ CONCEPT_LIKERT_FIELDS : /\ Consistent(summary.likert[f])
                                               /\ summary.likert[f].n = Cardinality(used)
  <2> TAKE f \in Fields \ CONCEPT_LIKERT_FIELDS
  <2>1. \A i \in used : responses[i].answers[f] # Missing
    BY <1>1, <1>2 DEF AllTold, Told
  <2>2. f \in Fields /\ summary.likert[f] = likert_stats(values(used, f))
    BY <1>1 DEF summary
  <2> QED BY <1>1, <1>2, <2>1, <2>2, GroupStats
<1>9. \A f \in APP_EXPERIENCE_FIELDS : /\ Consistent(summary.legacy_app_items[f])
                                      /\ summary.legacy_app_items[f].n <= Cardinality(legacy)
  <2> TAKE f \in APP_EXPERIENCE_FIELDS
  <2>1. f \in Fields /\ summary.legacy_app_items[f] = likert_stats(values(legacy, f))
    BY <1>1 DEF summary, Fields
  <2> QED BY <1>1, <1>2, <2>1, GroupStats
<1>10. \A i \in DOMAIN responses : Grounded(responses[i])
  BY DEF AllTold, Told
<1> QED BY ONLY <1>3, <1>4, <1>5, <1>6, <1>7, <1>8, <1>9, <1>10 DEF SummaryKeepsGroupsApart

\* No statistic of the survey mixes respondents who were asked different things, through
\* migrations up, down and interrupted: app items are summarised over respondents who said
\* that they had used the application, concept items over all who were asked, and every
\* count is of the group it is reported beside (survey.py:89-176).
THEOREM GroupsKeptApart == SurveySpec => []SummaryKeepsGroupsApart
<1>1. SurveyIInv => SummaryKeepsGroupsApart
  BY SummaryApart DEF SurveyIInv
<1> QED BY <1>1, SurveyInitIInv, SurveyNextIInv, PTL DEF SurveySpec
=============================================================================
