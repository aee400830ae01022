--------------------------- MODULE ArithmeticProofs ---------------------------
(***************************************************************************)
(* Quotients, Python's round, the levels and parts of a reward, and sums   *)
(* over finite sets: for every proof in which something is added up.       *)
(***************************************************************************)
EXTENDS RewardEngine, Sums, FiniteSetTheorems, WellFoundedInduction, TLAPS

-----------------------------------------------------------------------------
(* Quotients. *)

\* A product grows with each of its factors.
LEMMA TimesGrows ==
  ASSUME NEW a \in Int, NEW b \in Int, NEW c \in Nat, a <= b
  PROVE  a * c <= b * c /\ c * a <= c * b /\ a * c \in Int /\ b * c \in Int
OBVIOUS

\* A quotient and its remainder,
LEMMA QuotientIs ==
  ASSUME NEW n \in Int, NEW d \in Nat \ {0}
  PROVE  /\ n \div d \in Int /\ n % d \in 0..(d - 1)
         /\ n = d * (n \div d) + (n % d)
OBVIOUS

\* which no other pair is.
LEMMA QuotientUnique ==
  ASSUME NEW n \in Int, NEW d \in Nat \ {0}, NEW q \in Int, NEW r \in 0..(d - 1), n = d * q + r
  PROVE  n \div d = q /\ n % d = r
<1>1. PICK p \in Int, s \in 0..(d - 1) : p = n \div d /\ s = n % d /\ n = d * p + s
  BY QuotientIs
<1>2. d * p + s = d * q + r /\ d * (p - q) = r - s
  BY <1>1
<1>3. ~ p - q >= 1
  <2>1. ASSUME p - q >= 1 PROVE d * 1 <= d * (p - q)
    BY <2>1, TimesGrows
  <2> QED BY <1>2, <2>1
<1>4. ~ q - p >= 1
  <2>1. ASSUME q - p >= 1 PROVE d * 1 <= d * (q - p)
    BY <2>1, TimesGrows
  <2>2. d * (q - p) = s - r
    BY <1>2
  <2> QED BY <2>1, <2>2
<1>5. p = q
  BY <1>3, <1>4
<1> QED BY <1>1, <1>2, <1>5

\* A larger number has no smaller quotient.
LEMMA QuotientGrows ==
  ASSUME NEW m \in Int, NEW n \in Int, NEW d \in Nat \ {0}, m <= n
  PROVE  m \div d <= n \div d
<1>1. PICK p \in Int, s \in 0..(d - 1) : p = m \div d /\ m = d * p + s
  BY QuotientIs
<1>2. PICK q \in Int, r \in 0..(d - 1) : q = n \div d /\ n = d * q + r
  BY QuotientIs
<1>3. ASSUME p >= q + 1 PROVE FALSE
  <2>1. d * (q + 1) <= d * p
    BY <1>3, TimesGrows
  <2>2. d * (q + 1) = d * q + d
    OBVIOUS
  <2> QED BY <1>1, <1>2, <2>1, <2>2
<1> QED BY <1>1, <1>2, <1>3

\* A quotient is the one whose multiple is next below,
LEMMA QuotientBetween ==
  ASSUME NEW n \in Int, NEW d \in Nat \ {0}, NEW q \in Int
  PROVE  (d * q <= n /\ n < d * q + d) <=> n \div d = q
<1>1. PICK m \in Int : m = d * q
  OBVIOUS
<1>2. ASSUME m <= n, n < m + d PROVE n \div d = q
  <2>1. PICK r \in 0..(d - 1) : n = m + r
    BY <1>2, n - m \in 0..(d - 1)
  <2> QED BY <1>1, <2>1, QuotientUnique
<1>3. ASSUME n \div d = q PROVE m <= n /\ n < m + d
  <2>1. PICK r \in 0..(d - 1) : n = m + r
    BY <1>1, <1>3, QuotientIs
  <2> QED BY <2>1
<1> QED BY <1>1, <1>2, <1>3

\* a quotient of a natural number is one,
LEMMA QuotientNat ==
  ASSUME NEW n \in Nat, NEW d \in Nat \ {0}
  PROVE  n \div d \in Nat
<1>1. 0 \div d = 0
  BY QuotientUnique, 0 = d * 0 + 0
<1>2. 0 \div d <= n \div d
  BY QuotientGrows
<1> QED BY <1>1, <1>2, QuotientIs

\* and one quotient after another is one by the product.
LEMMA QuotientTwice ==
  ASSUME NEW n \in Int, NEW d \in Nat \ {0}, NEW e \in Nat \ {0}
  PROVE  (n \div d) \div e = n \div (d * e)
<1>1. PICK p \in Int, s \in 0..(d - 1) : p = n \div d /\ n = d * p + s
  BY QuotientIs
<1>2. PICK q \in Int, r \in 0..(e - 1) : q = p \div e /\ p = e * q + r
  BY QuotientIs
<1>3. PICK f \in Nat \ {0} : f = d * e
  OBVIOUS
<1>4. n = f * q + (d * r + s)
  <2>1. d * p = d * (e * q) + d * r
    BY <1>2
  <2>2. d * (e * q) = f * q
    BY <1>3
  <2> QED BY <1>1, <2>1, <2>2
<1>5. d * r + s \in 0..(f - 1)
  <2>1. d * (r + 1) <= d * e
    BY TimesGrows
  <2>2. d * (r + 1) = d * r + d /\ d * r \in Nat
    OBVIOUS
  <2> QED BY <1>3, <2>1, <2>2
<1>6. n \div f = q
  BY <1>4, <1>5, QuotientUnique
<1> QED BY <1>1, <1>2, <1>3, <1>6

-----------------------------------------------------------------------------
(* Python's round. *)

\* What is rounded, in terms of a quotient and a remainder.
LEMMA RoundedIs ==
  ASSUME NEW n \in Int, NEW d \in Nat \ {0}, NEW q \in Int, NEW r \in 0..(d - 1), n = d * q + r
  PROVE  Rounded(n, d) = IF 2 * r < d \/ (2 * r = d /\ q % 2 = 0) THEN q ELSE q + 1
BY QuotientUnique DEF Rounded

\* Rounding gives an integer next to the fraction,
LEMMA RoundedNear ==
  ASSUME NEW n \in Int, NEW d \in Nat \ {0}
  PROVE  Rounded(n, d) \in Int /\ n \div d <= Rounded(n, d) /\ Rounded(n, d) <= n \div d + 1
BY QuotientIs DEF Rounded

\* keeps the order,
LEMMA RoundedGrows ==
  ASSUME NEW m \in Int, NEW n \in Int, NEW d \in Nat \ {0}, m <= n
  PROVE  Rounded(m, d) <= Rounded(n, d)
<1>1. PICK p \in Int, s \in 0..(d - 1) : p = m \div d /\ s = m % d /\ m = d * p + s
  BY QuotientIs
<1>2. PICK q \in Int, r \in 0..(d - 1) : q = n \div d /\ r = n % d /\ n = d * q + r
  BY QuotientIs
<1>3. p <= q
  BY <1>1, <1>2, QuotientGrows
<1>4. /\ Rounded(m, d) = IF 2 * s < d \/ (2 * s = d /\ p % 2 = 0) THEN p ELSE p + 1
      /\ Rounded(n, d) = IF 2 * r < d \/ (2 * r = d /\ q % 2 = 0) THEN q ELSE q + 1
  BY <1>1, <1>2 DEF Rounded
<1>5. CASE p = q
  <2>1. s <= r
    BY <1>1, <1>2, <1>5
  <2> QED BY <1>4, <1>5, <2>1
<1>6. CASE p # q
  BY <1>3, <1>4, <1>6
<1> QED BY <1>5, <1>6

\* leaves integers alone,
LEMMA RoundedWhole ==
  ASSUME NEW q \in Int, NEW d \in Nat \ {0}
  PROVE  Rounded(d * q, d) = q /\ Rounded(q * d, d) = q
<1>1. PICK n \in Int : n = d * q /\ n = q * d
  OBVIOUS
<1>2. n = d * q + 0 /\ 0 \in 0..(d - 1)
  BY <1>1
<1>3. Rounded(n, d) = q
  BY <1>2, RoundedIs
<1> QED BY <1>1, <1>3

\* stays between any two of them,
LEMMA RoundedWithin ==
  ASSUME NEW n \in Int, NEW d \in Nat \ {0}, NEW a \in Int, NEW b \in Int, d * a <= n, n <= d * b
  PROVE  Rounded(n, d) \in a..b
<1>1. PICK l \in Int, h \in Int : l = d * a /\ h = d * b /\ l <= n /\ n <= h
  OBVIOUS
<1>2. Rounded(l, d) = a /\ Rounded(h, d) = b
  BY <1>1, RoundedWhole
<1>3. Rounded(l, d) <= Rounded(n, d) /\ Rounded(n, d) <= Rounded(h, d)
  BY ONLY <1>1, RoundedGrows, n \in Int, d \in Nat \ {0}
<1>4. Rounded(n, d) \in Int
  BY RoundedNear
<1> QED BY ONLY <1>2, <1>3, <1>4

\* and does not see a common factor of ten.
LEMMA RoundedTenfold ==
  ASSUME NEW n \in Int, NEW d \in Nat \ {0}
  PROVE  Rounded(n * 10, d * 10) = Rounded(n, d)
<1>1. PICK q \in Int, r \in 0..(d - 1) : n = d * q + r
  BY QuotientIs
<1>2. Rounded(n, d) = IF 2 * r < d \/ (2 * r = d /\ q % 2 = 0) THEN q ELSE q + 1
  BY <1>1, RoundedIs
<1>3. PICK m, e, s : m = n * 10 /\ e = d * 10 /\ s = r * 10
  OBVIOUS
<1>4. m \in Int /\ e \in Nat \ {0} /\ s \in 0..(e - 1)
  BY <1>3
<1>5. m = e * q + s
  BY <1>1, <1>3
<1>6. Rounded(m, e) = IF 2 * s < e \/ (2 * s = e /\ q % 2 = 0) THEN q ELSE q + 1
  BY <1>4, <1>5, RoundedIs
<1>7. Rounded(m, e) = Rounded(n, d)
  BY <1>2, <1>3, <1>6
<1> QED BY <1>3, <1>7

-----------------------------------------------------------------------------
(* Levels and rewards. *)

\* The level reached is a row of the table, the last one whose minimum is met.
LEMMA LevelIndexType ==
  ASSUME NEW total
  PROVE  /\ LevelIndex(total) \in 1..5
         /\ LevelIndex(total) \in Reached(total)
         /\ \A j \in Reached(total) : j <= LevelIndex(total)
<1>1. \E i \in Reached(total) : \A j \in Reached(total) : j <= i
  <2>1. CASE 5 \in Reached(total)  BY <2>1 DEF Reached
  <2>2. CASE 5 \notin Reached(total) /\ 4 \in Reached(total)  BY <2>2 DEF Reached
  <2>3. CASE {4, 5} \cap Reached(total) = {} /\ 3 \in Reached(total)  BY <2>3 DEF Reached
  <2>4. CASE {3, 4, 5} \cap Reached(total) = {} /\ 2 \in Reached(total)  BY <2>4 DEF Reached
  <2>5. CASE {2, 3, 4, 5} \cap Reached(total) = {}  BY <2>5 DEF Reached
  <2>6. QED  BY <2>1, <2>2, <2>3, <2>4, <2>5
<1>2. QED  BY <1>1 DEF LevelIndex, Reached

\* The multiplier of the level reached is a number of the table.
LEMMA MultiplierType ==
  ASSUME NEW total
  PROVE  Multiplier(total) \in Nat
BY LevelIndexType, LevelsAssumption DEF Multiplier, LevelRow

\* More sats reach no lower a level, and no level pays less than a lower one.
LEMMA MultiplierGrows ==
  ASSUME NEW a \in Int, NEW b \in Int, a <= b
  PROVE  Multiplier(a) <= Multiplier(b)
<1>1. \A i \in 1..5 : LEVELS[i] \in LevelRow
  BY LevelsAssumption
<1>2. Reached(a) \subseteq Reached(b)
  BY <1>1 DEF Reached, LevelRow
<1>3. LevelIndex(a) <= LevelIndex(b) /\ LevelIndex(a) \in 1..5 /\ LevelIndex(b) \in 1..5
  BY <1>2, LevelIndexType
<1> QED BY <1>1, <1>3, LevelsAssumption DEF Multiplier, LevelRow

\* Every level pays the base rate at least.
LEMMA MultiplierAtLeast ==
  ASSUME NEW total
  PROVE  Multiplier(total) \in Nat /\ Multiplier(total) >= 10
<1>1. PICK i \in 1..5 : i = LevelIndex(total)
  BY LevelIndexType
<1>2. LEVELS[1].multiplier <= LEVELS[i].multiplier /\ LEVELS[1].multiplier = 10
  BY LevelsAssumption DEF LevelRow
<1> QED BY <1>1, <1>2, MultiplierType DEF Multiplier

\* The level of a total is the one whose minimum it has met and the next one's it has not.
LEMMA LevelIs ==
  ASSUME NEW total \in Int, NEW i \in 1..5, i = 1 \/ LEVELS[i].min_sats <= total,
         i = 5 \/ total < LEVELS[i + 1].min_sats
  PROVE  LevelIndex(total) = i
<1>1. \A j \in 1..5 : LEVELS[j].min_sats \in Nat
  BY LevelsAssumption DEF LevelRow
<1>2. i \in Reached(total)
  BY <1>1 DEF Reached
<1>3. ASSUME NEW j \in Reached(total), j > i PROVE FALSE
  <2>1. i + 1 \in 1..5 /\ j \in 1..5 /\ i + 1 <= j /\ LEVELS[j].min_sats <= total
    BY <1>1, <1>3 DEF Reached
  <2>2. LEVELS[i + 1].min_sats <= LEVELS[j].min_sats
    BY <1>1, <2>1, LevelsAssumption
  <2> QED BY <1>1, <2>1, <2>2
<1>4. PICK k \in 1..5 : k = LevelIndex(total) /\ k \in Reached(total) /\ i <= k
  BY <1>2, LevelIndexType
<1> QED BY <1>3, <1>4

\* sats_to_next is exactly what the next level takes.
LEMMA NextLevel ==
  ASSUME NEW total \in Nat
  PROVE  LET i == LevelIndex(total)
             n == SatsToNext(total)
         IN  IF i = 5 THEN n = 0 ELSE LevelIndex(total + n) = i + 1 /\ LevelIndex(total + n - 1) = i
<1>1. PICK i \in 1..5 : i = LevelIndex(total) /\ i \in Reached(total)
                        /\ \A j \in Reached(total) : j <= i
  BY LevelIndexType
<1>2. CASE i = 5
  BY <1>1, <1>2 DEF SatsToNext
<1>3. CASE i # 5
  <2>1. \A j \in 1..5 : LEVELS[j].min_sats \in Nat
    BY LevelsAssumption DEF LevelRow
  <2>2. i + 1 \in 1..5 /\ i + 1 \notin Reached(total)
    BY <1>1, <1>3
  <2>3. PICK next \in Nat : next = LEVELS[i + 1].min_sats
    BY <2>1, <2>2
  <2>4. total < next /\ (i = 1 \/ LEVELS[i].min_sats <= total)
    BY <1>1, <2>1, <2>2, <2>3 DEF Reached
  <2>5. total + SatsToNext(total) = next
    BY <1>1, <1>3, <2>3, <2>4 DEF SatsToNext
  <2>6. LevelIndex(next) = i + 1
    <3>1. i + 1 = 5 \/ next < LEVELS[i + 1 + 1].min_sats
      BY <2>1, <2>2, <2>3, LevelsAssumption
    <3> QED BY <2>2, <2>3, <3>1, LevelIs
  <2>7. LevelIndex(next - 1) = i
    <3>1. i = 1 \/ LEVELS[i].min_sats <= next - 1
      BY <2>1, <2>3, <2>4
    <3> QED BY <2>3, <3>1, LevelIs
  <2>8. SatsToNext(total) \in Int
    BY <1>1, <1>3, <2>3, <2>4 DEF SatsToNext
  <2>9. total + SatsToNext(total) - 1 = next - 1
    BY <2>5, <2>8
  <2> QED BY <1>1, <1>3, <2>5, <2>6, <2>7, <2>9
<1> QED BY <1>2, <1>3

\* The parts of a reward are not negative, and are nothing where the factor is one.
LEMMA RewardParts ==
  ASSUME NEW num \in Nat, NEW den \in Nat \ {0}, NEW level \in Nat, 10 <= level,
         NEW boost \in Nat, 10 <= boost
  PROVE  LET b == calculate_reward(num, den, level, boost)
         IN  /\ b.base_sats >= 0 /\ b.level_bonus >= 0 /\ b.boost_bonus >= 0
             /\ level = 10 => b.level_bonus = 0
             /\ boost = 10 => b.boost_bonus = 0
             /\ b.base_sats + b.level_bonus + b.boost_bonus = b.total_sats
<1>1. PICK m \in Nat, n \in Nat, d \in Nat \ {0}, e \in Nat \ {0} :
        m = num * level /\ n = num * level * boost /\ d = den * 10 /\ e = den * 100
  OBVIOUS
<1>2. PICK k \in Nat, l \in Nat : k = num * 10 /\ l = m * 10
  OBVIOUS
<1>3. k <= m /\ (level = 10 => k = m)
  <2>1. num * 10 <= num * level
    BY TimesGrows
  <2> QED BY <1>1, <1>2, <2>1
<1>4. n = m * boost /\ e = d * 10
  BY <1>1
<1>5. l <= n /\ (boost = 10 => l = n)
  <2>1. m * 10 <= m * boost
    BY TimesGrows
  <2> QED BY <1>2, <1>4, <2>1
<1>6. Rounded(num, den) \in Int /\ Rounded(m, d) \in Int /\ Rounded(n, e) \in Int
  BY RoundedNear
<1>7. 0 <= Rounded(num, den)
  <2>1. den * 0 = 0
    OBVIOUS
  <2>2. Rounded(0, den) = 0
    BY <2>1, RoundedWhole
  <2>3. Rounded(0, den) <= Rounded(num, den)
    BY RoundedGrows
  <2> QED BY <2>2, <2>3
<1>8. Rounded(num, den) <= Rounded(m, d) /\ (level = 10 => Rounded(num, den) = Rounded(m, d))
  <2>1. Rounded(k, d) = Rounded(num, den)
    BY <1>1, <1>2, RoundedTenfold
  <2>2. Rounded(k, d) <= Rounded(m, d)
    BY <1>3, RoundedGrows
  <2> QED BY <1>3, <2>1, <2>2
<1>9. Rounded(m, d) <= Rounded(n, e) /\ (boost = 10 => Rounded(m, d) = Rounded(n, e))
  <2>1. Rounded(l, e) = Rounded(m, d)
    BY <1>2, <1>4, RoundedTenfold
  <2>2. Rounded(l, e) <= Rounded(n, e)
    BY <1>5, RoundedGrows
  <2> QED BY <1>5, <2>1, <2>2
<1>10. calculate_reward(num, den, level, boost) =
         [base_sats   |-> Rounded(num, den),
          level_bonus |-> Rounded(m, d) - Rounded(num, den),
          boost_bonus |-> Rounded(n, e) - Rounded(m, d),
          total_sats  |-> Rounded(n, e)]
  BY <1>1 DEF calculate_reward
<1> QED BY <1>6, <1>7, <1>8, <1>9, <1>10

\* What is paid is an integer,
LEMMA RewardType ==
  ASSUME NEW num \in Nat, NEW den \in Nat \ {0}, NEW level \in Nat, NEW boost \in Nat
  PROVE  calculate_reward(num, den, level, boost).total_sats \in Int
<1>1. num * level * boost \in Int /\ den * 100 \in Nat \ {0}
  OBVIOUS
<1> QED BY <1>1, RoundedNear DEF calculate_reward

\* which grows with the purchase, with the level and with the boost.
LEMMA RewardGrows ==
  ASSUME NEW num \in Nat, NEW more \in Nat, num <= more, NEW den \in Nat \ {0},
         NEW level \in Nat, NEW higher \in Nat, level <= higher,
         NEW boost \in Nat, NEW larger \in Nat, boost <= larger
  PROVE  calculate_reward(num, den, level, boost).total_sats
           <= calculate_reward(more, den, higher, larger).total_sats
<1>1. PICK m \in Nat, n \in Nat, o \in Nat : m = num * level /\ n = more * level /\ o = more * higher
  OBVIOUS
<1>2. m <= n /\ n <= o
  BY <1>1, TimesGrows
<1>3. PICK p \in Nat, q \in Nat, s \in Nat : p = m * boost /\ q = o * boost /\ s = o * larger
  OBVIOUS
<1>4. p <= q /\ q <= s
  BY <1>2, <1>3, TimesGrows
<1>5. Rounded(p, den * 100) <= Rounded(s, den * 100)
  <2>1. den * 100 \in Nat \ {0}
    OBVIOUS
  <2> QED BY <1>4, <2>1, RoundedGrows
<1>6. /\ calculate_reward(num, den, level, boost).total_sats = Rounded(p, den * 100)
      /\ calculate_reward(more, den, higher, larger).total_sats = Rounded(s, den * 100)
  BY <1>1, <1>3 DEF calculate_reward
<1> QED BY <1>5, <1>6

-----------------------------------------------------------------------------
(* Sums.  MapThenSumSet is a recursive function on the subsets of its set; what it     *)
(* computes is shown by looking at a smallest subset for which it would compute        *)
(* something else.                                                                     *)

First(s) == CHOOSE x \in s : TRUE

\* The recursion of MapThenSumSet, for weights w over S.
Unfolds(it, w, S) ==
  it = [s \in SUBSET S |-> IF s = {} THEN 0 ELSE w[First(s)] + it[s \ {First(s)}]]

\* Subsets of a finite set, if there are any such, have a smallest among them.
LEMMA SmallestSubset ==
  ASSUME NEW S, IsFiniteSet(S), NEW T \in SUBSET SUBSET S, T # {}
  PROVE  \E s \in T : \A u \in T : ~ (u \subseteq s /\ u # s)
<1>1. IsWellFoundedOn(StrictSubsetOrdering(S), SUBSET S)
  BY FS_StrictSubsetOrderingWellFounded, FS_FiniteSubsetsOfFinite
<1>2. PICK s \in T : \A u \in T : <<u, s>> \notin StrictSubsetOrdering(S)
  BY <1>1, WFMin, Zenon
<1> QED BY <1>2 DEF StrictSubsetOrdering

\* A set that is not empty is its first element and the rest.
LEMMA FirstAndRest ==
  ASSUME NEW s, s # {}
  PROVE  First(s) \in s /\ s \ {First(s)} \subseteq s /\ s \ {First(s)} # s
<1>1. First(s) \in s
  BY Zenon DEF First
<1> QED BY <1>1

\* One step of the recursion.
LEMMA UnfoldsAt ==
  ASSUME NEW it, NEW w, NEW S, Unfolds(it, w, S), NEW s \in SUBSET S
  PROVE  it[s] = IF s = {} THEN 0 ELSE w[First(s)] + it[s \ {First(s)}]
<1>1. it = [z \in SUBSET S |-> IF z = {} THEN 0 ELSE w[First(z)] + it[z \ {First(z)}]]
  BY DEF Unfolds
<1> QED BY <1>1

\* Two recursions over the same weights agree wherever both are defined.
LEMMA UnfoldsAgree ==
  ASSUME NEW it, NEW jt, NEW w, NEW v, NEW S, NEW Z, Unfolds(it, w, S), Unfolds(jt, v, Z),
         NEW R \in SUBSET (S \cap Z), IsFiniteSet(R), \A x \in R : w[x] = v[x]
  PROVE  it[R] = jt[R]
<1> SUFFICES ASSUME it[R] # jt[R] PROVE FALSE
  OBVIOUS
<1>a. PICK T : T = {s \in SUBSET R : it[s] # jt[s]}
  OBVIOUS
<1>b. T # {} /\ T \in SUBSET SUBSET R
  BY <1>a
<1>1. PICK s \in T : \A u \in T : ~ (u \subseteq s /\ u # s)
  BY <1>b, SmallestSubset
<1>c. s \in SUBSET R /\ s \in SUBSET S /\ s \in SUBSET Z /\ it[s] # jt[s]
  BY <1>a
<1>d. /\ \A z \in SUBSET S : it[z] = IF z = {} THEN 0 ELSE w[First(z)] + it[z \ {First(z)}]
      /\ \A z \in SUBSET Z : jt[z] = IF z = {} THEN 0 ELSE v[First(z)] + jt[z \ {First(z)}]
  BY ONLY Unfolds(it, w, S), Unfolds(jt, v, Z), UnfoldsAt
<1>2. /\ it[s] = IF s = {} THEN 0 ELSE w[First(s)] + it[s \ {First(s)}]
      /\ jt[s] = IF s = {} THEN 0 ELSE v[First(s)] + jt[s \ {First(s)}]
  BY ONLY <1>c, <1>d
<1>3. s # {}
  BY <1>c, <1>2
<1>4. it[s \ {First(s)}] = jt[s \ {First(s)}] /\ w[First(s)] = v[First(s)]
  BY <1>a, <1>1, <1>c, <1>3, FirstAndRest
<1> QED BY <1>c, <1>2, <1>3, <1>4

\* The recursion is defined on every finite set.
LEMMA UnfoldsExists ==
  ASSUME NEW w, NEW S, IsFiniteSet(S)
  PROVE  \E it : Unfolds(it, w, S)
<1> SUFFICES ASSUME ~ \E it : Unfolds(it, w, S) PROVE FALSE
  OBVIOUS
<1>a. PICK T : T = {s \in SUBSET S : ~ \E it : Unfolds(it, w, s)}
  OBVIOUS
<1>b. T # {} /\ T \in SUBSET SUBSET S
  BY <1>a
<1>1. PICK s \in T : \A u \in T : ~ (u \subseteq s /\ u # s)
  BY <1>b, SmallestSubset
<1>c. IsFiniteSet(s) /\ s \in SUBSET S
  BY <1>a, FS_Subset
<1> DEFINE Of(y) == CHOOSE it : Unfolds(it, w, y)
           it == [z \in SUBSET s |->
                    IF z = {} THEN 0 ELSE w[First(z)] + Of(z \ {First(z)})[z \ {First(z)}]]
<1>2. ASSUME NEW y \in SUBSET s, y # s
      PROVE  Unfolds(Of(y), w, y)
  <2>1. y \notin T /\ y \in SUBSET S
    BY <1>1, <1>2, <1>c
  <2> QED BY <1>a, <2>1
<1> HIDE DEF Of
<1>3. ASSUME NEW y \in SUBSET s, y # s
      PROVE  it[y] = Of(y)[y]
  <2>1. Of(y)[y] = IF y = {} THEN 0 ELSE w[First(y)] + Of(y)[y \ {First(y)}]
    BY <1>2, <1>3, UnfoldsAt
  <2>2. CASE y = {}
    BY <2>1, <2>2
  <2>3. CASE y # {}
    <3>1. /\ y \ {First(y)} \in SUBSET s /\ y \ {First(y)} # s
          /\ y \ {First(y)} \in SUBSET (y \cap (y \ {First(y)}))
      BY <1>3, <2>3, FirstAndRest
    <3>2. IsFiniteSet(y \ {First(y)})
      BY <1>c, <3>1, FS_Subset
    <3>3. Of(y)[y \ {First(y)}] = Of(y \ {First(y)})[y \ {First(y)}]
      BY <1>2, <1>3, <3>1, <3>2, UnfoldsAgree
    <3> QED BY <2>1, <2>3, <3>3
  <2> QED BY <2>2, <2>3
<1>4. ASSUME NEW z \in SUBSET s
      PROVE  it[z] = IF z = {} THEN 0 ELSE w[First(z)] + it[z \ {First(z)}]
  <2>1. CASE z = {}
    BY <2>1
  <2>2. CASE z # {}
    <3>1. z \ {First(z)} \in SUBSET s /\ z \ {First(z)} # s
      BY <2>2, FirstAndRest
    <3>2. it[z \ {First(z)}] = Of(z \ {First(z)})[z \ {First(z)}]
      BY <1>3, <3>1
    <3> QED BY <2>2, <3>2
  <2> QED BY <2>1, <2>2
<1>5. PICK jt : jt = it
  OBVIOUS
<1>6. /\ jt = [z \in SUBSET s |-> jt[z]]
      /\ \A z \in SUBSET s : jt[z] = IF z = {} THEN 0 ELSE w[First(z)] + jt[z \ {First(z)}]
  BY <1>4, <1>5
<1>7. Unfolds(jt, w, s)
  BY <1>6, Zenon DEF Unfolds
<1> QED BY <1>a, <1>1, <1>7

\* MapThenSumSet is that recursion.
LEMMA SumUnfolds ==
  ASSUME NEW w, NEW S, IsFiniteSet(S)
  PROVE  \E it : Unfolds(it, w, S) /\ SumOf(w, S) = it[S]
<1>1. SumOf(w, S) = (CHOOSE it : Unfolds(it, w, S))[S]
  BY DEF SumOf, MapThenSumSet, MapThenFoldSet, Unfolds, First
<1> QED BY <1>1, UnfoldsExists

\* The weights of S alone matter.
LEMMA SumCongruent ==
  ASSUME NEW w, NEW v, NEW S, IsFiniteSet(S), \A x \in S : w[x] = v[x]
  PROVE  SumOf(w, S) = SumOf(v, S)
<1>1. PICK it : Unfolds(it, w, S) /\ SumOf(w, S) = it[S]
  BY SumUnfolds
<1>2. PICK jt : Unfolds(jt, v, S) /\ SumOf(v, S) = jt[S]
  BY SumUnfolds
<1> QED BY <1>1, <1>2, UnfoldsAgree

\* A sum of integers is one.
LEMMA UnfoldsInt ==
  ASSUME NEW it, NEW w, NEW S, Unfolds(it, w, S), IsFiniteSet(S), \A x \in S : w[x] \in Int
  PROVE  \A s \in SUBSET S : it[s] \in Int
<1>a. PICK T : T = {s \in SUBSET S : it[s] \notin Int}
  OBVIOUS
<1> SUFFICES ASSUME T # {} PROVE FALSE
  BY <1>a
<1>1. PICK s \in T : \A u \in T : ~ (u \subseteq s /\ u # s)
  <2>1. T \in SUBSET SUBSET S
    BY <1>a
  <2> QED BY <2>1, SmallestSubset
<1>b. s \in SUBSET S /\ it[s] \notin Int
  BY <1>a
<1>2. it[s] = IF s = {} THEN 0 ELSE w[First(s)] + it[s \ {First(s)}]
  BY <1>b, UnfoldsAt
<1>3. s # {}
  BY <1>b, <1>2
<1>4. it[s \ {First(s)}] \in Int /\ w[First(s)] \in Int
  BY <1>a, <1>1, <1>b, <1>3, FirstAndRest
<1> QED BY <1>b, <1>2, <1>3, <1>4

\* Whatever is taken first, another element adds its weight.
LEMMA UnfoldsAdd ==
  ASSUME NEW it, NEW w, NEW S, Unfolds(it, w, S), IsFiniteSet(S), \A x \in S : w[x] \in Int
  PROVE  \A s \in SUBSET S : \A x \in S \ s : it[s \cup {x}] = it[s] + w[x]
<1>a. PICK T : T = {s \in SUBSET S : \E x \in S \ s : it[s \cup {x}] # it[s] + w[x]}
  OBVIOUS
<1> SUFFICES ASSUME T # {} PROVE FALSE
  BY <1>a
<1>1. PICK s \in T : \A u \in T : ~ (u \subseteq s /\ u # s)
  <2>1. T \in SUBSET SUBSET S
    BY <1>a
  <2> QED BY <2>1, SmallestSubset
<1>b. s \in SUBSET S
  BY <1>a
<1>2. PICK x \in S \ s : it[s \cup {x}] # it[s] + w[x]
  BY <1>a
<1>3. PICK z, c : z = s \cup {x} /\ c = First(z)
  OBVIOUS
<1>4. c \in z /\ z \in SUBSET S /\ it[z] = w[c] + it[z \ {c}]
  <2>1. z # {} /\ z \in SUBSET S
    BY <1>b, <1>2, <1>3
  <2>2. it[z] = w[First(z)] + it[z \ {First(z)}]
    BY <2>1, UnfoldsAt
  <2>3. First(z) \in z
    BY <2>1, FirstAndRest
  <2> QED BY <1>3, <2>1, <2>2, <2>3
<1>5. \A y \in SUBSET S : it[y] \in Int
  BY UnfoldsInt
<1>6. CASE c = x
  <2>1. z \ {c} = s
    BY <1>2, <1>3, <1>6
  <2>2. it[s] \in Int /\ w[x] \in Int
    BY <1>b, <1>5
  <2>3. it[z] = w[x] + it[s]
    BY <1>4, <1>6, <2>1, Zenon
  <2>4. it[z] = it[s] + w[x]
    BY <2>2, <2>3
  <2> QED BY <1>2, <1>3, <2>4
<1>7. CASE c # x
  <2>1. PICK r : r = s \ {c}
    OBVIOUS
  <2>2. c \in s /\ r \in SUBSET S /\ r \subseteq s /\ r # s /\ c \in S \ r /\ x \in S \ r
    BY <1>b, <1>2, <1>3, <1>4, <1>7, <2>1
  <2>3. z \ {c} = r \cup {x} /\ r \cup {c} = s
    BY <1>2, <1>3, <1>7, <2>1, <2>2
  <2>4. r \notin T
    BY <1>1, <2>2
  <2>5. it[r \cup {x}] = it[r] + w[x] /\ it[r \cup {c}] = it[r] + w[c]
    BY <1>a, <2>2, <2>4
  <2>6. it[r] \in Int /\ w[x] \in Int /\ w[c] \in Int
    BY <1>5, <2>2
  <2>7. it[z] = w[c] + (it[r] + w[x]) /\ it[s] = it[r] + w[c]
    BY <1>4, <2>3, <2>5, Zenon
  <2>8. it[z] = it[s] + w[x]
    BY <2>6, <2>7
  <2> QED BY <1>2, <1>3, <2>8
<1> QED BY <1>6, <1>7

\* The sum over nothing, a sum's type, and what one more element adds.
LEMMA SumEmpty == \A w : SumOf(w, {}) = 0
<1> TAKE w
<1>1. PICK it : Unfolds(it, w, {}) /\ SumOf(w, {}) = it[{}]
  BY SumUnfolds, FS_EmptySet
<1> QED BY <1>1, UnfoldsAt

\* A sum of integers is one,
LEMMA SumInt ==
  ASSUME NEW w, NEW S, IsFiniteSet(S), \A x \in S : w[x] \in Int
  PROVE  SumOf(w, S) \in Int
BY SumUnfolds, UnfoldsInt

\* and one more entry adds its weight.
LEMMA SumAdd ==
  ASSUME NEW w, NEW S, IsFiniteSet(S), NEW x, x \notin S, \A y \in S \cup {x} : w[y] \in Int
  PROVE  SumOf(w, S \cup {x}) = SumOf(w, S) + w[x]
<1>1. IsFiniteSet(S \cup {x})
  BY FS_AddElement
<1>2. PICK it : Unfolds(it, w, S \cup {x}) /\ SumOf(w, S \cup {x}) = it[S \cup {x}]
  BY <1>1, SumUnfolds
<1>3. PICK jt : Unfolds(jt, w, S) /\ SumOf(w, S) = jt[S]
  BY SumUnfolds
<1>4. it[S] = jt[S]
  BY <1>2, <1>3, UnfoldsAgree
<1>5. S \in SUBSET (S \cup {x}) /\ x \in (S \cup {x}) \ S
  OBVIOUS
<1>6. it[S \cup {x}] = it[S] + w[x]
  BY <1>1, <1>2, <1>5, UnfoldsAdd
<1> QED BY <1>2, <1>3, <1>4, <1>6

\* What one element less takes away.
LEMMA SumRemove ==
  ASSUME NEW w, NEW S, IsFiniteSet(S), NEW x \in S, \A y \in S : w[y] \in Int
  PROVE  SumOf(w, S \ {x}) = SumOf(w, S) - w[x]
<1>1. IsFiniteSet(S \ {x}) /\ (S \ {x}) \cup {x} = S
  BY FS_Subset
<1>2. SumOf(w, S) = SumOf(w, S \ {x}) + w[x]
  <2>1. PICK r : r = S \ {x}
    OBVIOUS
  <2>2. IsFiniteSet(r) /\ x \notin r /\ r \cup {x} = S
    BY <1>1, <2>1
  <2>3. SumOf(w, r \cup {x}) = SumOf(w, r) + w[x]
    BY <2>2, SumAdd
  <2> QED BY <2>1, <2>2, <2>3
<1>3. SumOf(w, S \ {x}) \in Int
  BY <1>1, SumInt
<1> QED BY <1>2, <1>3

-----------------------------------------------------------------------------
(* What is shown one element at a time. *)

\* Sets that hold nothing, and one more element whenever they hold the rest, hold it all.
LEMMA OneAtATime ==
  ASSUME NEW S, IsFiniteSet(S), NEW T,
         {} \in T, \A s \in SUBSET S : \A x \in S \ s : s \in T => s \cup {x} \in T
  PROVE  S \in T
<1> SUFFICES ASSUME S \notin T PROVE FALSE
  OBVIOUS
<1>a. PICK B : B = {s \in SUBSET S : s \notin T}
  OBVIOUS
<1>1. PICK s \in B : \A u \in B : ~ (u \subseteq s /\ u # s)
  <2>1. B # {} /\ B \in SUBSET SUBSET S
    BY <1>a
  <2> QED BY <2>1, SmallestSubset
<1>2. s \in SUBSET S /\ s \notin T /\ s # {}
  BY <1>a
<1>3. PICK x \in s : TRUE
  BY <1>2
<1>4. PICK r : r = s \ {x}
  OBVIOUS
<1>5. r \in SUBSET S /\ x \in S \ r /\ r \cup {x} = s /\ r \subseteq s /\ r # s
  BY <1>2, <1>3, <1>4
<1>6. r \in T
  BY <1>1, <1>5, <1>a
<1> QED BY <1>2, <1>5, <1>6

\* In a finite set that R orders, one element is ahead of all others.
LEMMA Foremost ==
  ASSUME NEW S, IsFiniteSet(S), S # {}, NEW R,
         \A x, y \in S : x # y => <<x, y>> \in R \/ <<y, x>> \in R,
         \A x, y, z \in S : <<x, y>> \in R /\ <<y, z>> \in R => <<x, z>> \in R
  PROVE  \E x \in S : \A y \in S \ {x} : <<x, y>> \in R
<1>a. PICK T : T = {s \in SUBSET S : s # {} => \E x \in s : \A y \in s \ {x} : <<x, y>> \in R}
  OBVIOUS
<1>1. {} \in T
  BY <1>a
<1>2. ASSUME NEW s \in SUBSET S, NEW x \in S \ s, s \in T
      PROVE  s \cup {x} \in T
  <2>1. CASE s = {}
    BY <1>a, <2>1
  <2>2. CASE s # {}
    <3>1. PICK f \in s : \A y \in s \ {f} : <<f, y>> \in R
      BY <1>2, <1>a, <2>2
    <3>2. CASE <<f, x>> \in R
      <4>1. \A y \in (s \cup {x}) \ {f} : <<f, y>> \in R
        BY <3>1, <3>2
      <4> QED BY <1>a, <4>1
    <3>3. CASE <<x, f>> \in R
      <4>1. \A y \in (s \cup {x}) \ {x} : <<x, y>> \in R
        BY <3>1, <3>3
      <4> QED BY <1>a, <4>1
    <3> QED BY <3>2, <3>3
  <2> QED BY <2>1, <2>2
<1>3. S \in T
  BY <1>1, <1>2, OneAtATime
<1> QED BY <1>a, <1>3

\* A finite set of numbers has a least and a greatest one.
LEMMA Extremes ==
  ASSUME NEW S \in SUBSET Int, IsFiniteSet(S), S # {}
  PROVE  /\ Max(S) \in S /\ \A x \in S : x <= Max(S)
         /\ Min(S) \in S /\ \A x \in S : Min(S) <= x
<1>1. \E x \in S : \A y \in S : x >= y
  <2>1. PICK R : R = {e \in S \X S : e[1] >= e[2]}
    OBVIOUS
  <2>2. \A x, y \in S : <<x, y>> \in R <=> x >= y
    BY <2>1
  <2>3. PICK x \in S : \A y \in S \ {x} : <<x, y>> \in R
    <3>1. \A x, y \in S : x # y => <<x, y>> \in R \/ <<y, x>> \in R
      BY <2>2
    <3>2. \A x, y, z \in S : <<x, y>> \in R /\ <<y, z>> \in R => <<x, z>> \in R
      BY <2>2
    <3> QED BY <3>1, <3>2, Foremost
  <2>4. ASSUME NEW y \in S PROVE x >= y
    <3>1. CASE y = x
      BY <3>1, x \in Int
    <3>2. CASE y # x
      BY ONLY <2>2, <2>3, <2>4, <3>2, x \in S
    <3> QED BY <3>1, <3>2
  <2> QED BY ONLY <2>4, x \in S
<1>2. \E x \in S : \A y \in S : x <= y
  <2>1. PICK R : R = {e \in S \X S : e[1] <= e[2]}
    OBVIOUS
  <2>2. \A x, y \in S : <<x, y>> \in R <=> x <= y
    BY <2>1
  <2>3. PICK x \in S : \A y \in S \ {x} : <<x, y>> \in R
    <3>1. \A x, y \in S : x # y => <<x, y>> \in R \/ <<y, x>> \in R
      BY <2>2
    <3>2. \A x, y, z \in S : <<x, y>> \in R /\ <<y, z>> \in R => <<x, z>> \in R
      BY <2>2
    <3> QED BY <3>1, <3>2, Foremost
  <2>4. ASSUME NEW y \in S PROVE x <= y
    <3>1. CASE y = x
      BY <3>1, x \in Int
    <3>2. CASE y # x
      BY ONLY <2>2, <2>3, <2>4, <3>2, x \in S
    <3> QED BY <3>1, <3>2
  <2> QED BY ONLY <2>4, x \in S
<1>3. PICK g : g = Max(S) /\ g \in S /\ \A x \in S : g >= x
  BY <1>1, Zenon DEF Max
<1>4. PICK l : l = Min(S) /\ l \in S /\ \A x \in S : l <= x
  BY <1>2, Zenon DEF Min
<1>5. \A x \in S : x <= g
  BY <1>3
<1> QED BY ONLY <1>3, <1>4, <1>5

\* The sum over one element.
LEMMA SumOne ==
  ASSUME NEW w, NEW x, w[x] \in Int
  PROVE  SumOf(w, {x}) = w[x]
<1>1. SumOf(w, {} \cup {x}) = SumOf(w, {}) + w[x]
  BY FS_EmptySet, SumAdd
<1>2. {} \cup {x} = {x} /\ SumOf(w, {}) = 0
  BY SumEmpty
<1> QED BY <1>1, <1>2

\* The sum over two sets apart is the sum of their sums.
LEMMA SumUnion ==
  ASSUME NEW w, NEW A, NEW B, IsFiniteSet(A), IsFiniteSet(B), A \cap B = {},
         \A x \in A \cup B : w[x] \in Int
  PROVE  SumOf(w, A \cup B) = SumOf(w, A) + SumOf(w, B)
<1>a. PICK T : T = {s \in SUBSET B : SumOf(w, A \cup s) = SumOf(w, A) + SumOf(w, s)}
  OBVIOUS
<1>1. {} \in T
  BY <1>a, SumEmpty, SumInt, A \cup {} = A
<1>2. ASSUME NEW s \in SUBSET B, NEW x \in B \ s, s \in T
      PROVE  s \cup {x} \in T
  <2>1. PICK z : z = A \cup s
    OBVIOUS
  <2>2. IsFiniteSet(s) /\ IsFiniteSet(z)
    BY <2>1, FS_Subset, FS_Union
  <2>3. x \notin z /\ A \cup (s \cup {x}) = z \cup {x}
    BY <2>1
  <2>4. SumOf(w, z \cup {x}) = SumOf(w, z) + w[x]
    BY <2>1, <2>2, <2>3, SumAdd
  <2>5. SumOf(w, s \cup {x}) = SumOf(w, s) + w[x]
    BY <2>2, SumAdd
  <2>6. SumOf(w, z) = SumOf(w, A) + SumOf(w, s)
    BY <1>2, <1>a, <2>1
  <2>7. SumOf(w, A) \in Int /\ SumOf(w, s) \in Int /\ w[x] \in Int
    BY <2>2, SumInt
  <2>8. SumOf(w, z \cup {x}) = SumOf(w, A) + SumOf(w, s \cup {x})
    BY ONLY <2>4, <2>5, <2>6, <2>7
  <2> QED BY ONLY <1>a, <2>3, <2>8, s \in SUBSET B, x \in B
<1>3. B \in T
  BY <1>1, <1>2, OneAtATime
<1> QED BY <1>a, <1>3

\* A sum keeps to the bounds of its weights.
LEMMA SumAtMost ==
  ASSUME NEW w, NEW v, NEW S, IsFiniteSet(S),
         \A x \in S : w[x] \in Int /\ v[x] \in Int /\ w[x] <= v[x]
  PROVE  SumOf(w, S) <= SumOf(v, S)
<1>a. PICK T : T = {s \in SUBSET S : SumOf(w, s) <= SumOf(v, s)}
  OBVIOUS
<1>1. {} \in T
  BY <1>a, SumEmpty
<1>2. ASSUME NEW s \in SUBSET S, NEW x \in S \ s, s \in T
      PROVE  s \cup {x} \in T
  <2>1. IsFiniteSet(s)
    BY FS_Subset
  <2>2. SumOf(w, s \cup {x}) = SumOf(w, s) + w[x] /\ SumOf(v, s \cup {x}) = SumOf(v, s) + v[x]
    BY <2>1, SumAdd
  <2>3. SumOf(w, s) \in Int /\ SumOf(v, s) \in Int /\ SumOf(w, s) <= SumOf(v, s)
    BY <1>2, <1>a, <2>1, SumInt
  <2> QED BY <1>a, <2>2, <2>3
<1>3. S \in T
  BY <1>1, <1>2, OneAtATime
<1> QED BY <1>a, <1>3

\* A common factor comes out of a sum.
LEMMA SumTimes ==
  ASSUME NEW w, NEW v, NEW S, NEW c \in Int, IsFiniteSet(S),
         \A x \in S : w[x] \in Int /\ v[x] = w[x] * c
  PROVE  SumOf(v, S) = SumOf(w, S) * c
<1>a. PICK T : T = {s \in SUBSET S : SumOf(v, s) = SumOf(w, s) * c}
  OBVIOUS
<1>1. {} \in T
  BY <1>a, SumEmpty
<1>2. ASSUME NEW s \in SUBSET S, NEW x \in S \ s, s \in T
      PROVE  s \cup {x} \in T
  <2>1. IsFiniteSet(s) /\ \A y \in S : v[y] \in Int
    BY FS_Subset
  <2>2. SumOf(w, s \cup {x}) = SumOf(w, s) + w[x] /\ SumOf(v, s \cup {x}) = SumOf(v, s) + v[x]
    BY <2>1, SumAdd
  <2>3. SumOf(w, s) \in Int /\ SumOf(v, s) = SumOf(w, s) * c /\ v[x] = w[x] * c
    BY <1>2, <1>a, <2>1, SumInt
  <2>4. \A m, n \in Int : (m + n) * c = m * c + n * c
    OBVIOUS
  <2>5. SumOf(v, s \cup {x}) = SumOf(w, s \cup {x}) * c
    BY <2>2, <2>3, <2>4
  <2> QED BY <1>a, <2>5
<1>3. S \in T
  BY <1>1, <1>2, OneAtATime
<1> QED BY <1>a, <1>3

\* A sum of natural numbers is one,
LEMMA SumNat ==
  ASSUME NEW w, NEW S, IsFiniteSet(S), \A x \in S : w[x] \in Nat
  PROVE  SumOf(w, S) \in Nat
<1>1. PICK zero : zero = [x \in S |-> 0]
  OBVIOUS
<1>2. \A x \in S : zero[x] \in Int /\ w[x] \in Int /\ zero[x] = zero[x] * 0 /\ zero[x] <= w[x]
  BY <1>1
<1>3. SumOf(zero, S) = SumOf(zero, S) * 0 /\ SumOf(zero, S) \in Int
  BY <1>2, SumTimes, SumInt
<1>4. SumOf(zero, S) <= SumOf(w, S) /\ SumOf(w, S) \in Int
  BY <1>2, SumAtMost, SumInt
<1> QED BY ONLY <1>3, <1>4

\* and one of zeros is zero.
LEMMA SumZero ==
  ASSUME NEW w, NEW S, IsFiniteSet(S), \A x \in S : w[x] = 0
  PROVE  SumOf(w, S) = 0
<1>1. \A x \in S : w[x] \in Int /\ w[x] = w[x] * 0
  OBVIOUS
<1>2. SumOf(w, S) = SumOf(w, S) * 0 /\ SumOf(w, S) \in Int
  BY <1>1, SumTimes, SumInt
<1> QED BY ONLY <1>2

\* Ones add up to the number of elements.
LEMMA SumOnes ==
  ASSUME NEW w, NEW S, IsFiniteSet(S), \A x \in S : w[x] = 1
  PROVE  SumOf(w, S) = Cardinality(S)
<1>a. PICK T : T = {s \in SUBSET S : SumOf(w, s) = Cardinality(s)}
  OBVIOUS
<1>1. {} \in T
  BY <1>a, SumEmpty, FS_EmptySet
<1>2. ASSUME NEW s \in SUBSET S, NEW x \in S \ s, s \in T
      PROVE  s \cup {x} \in T
  <2>1. IsFiniteSet(s)
    BY FS_Subset
  <2>2. SumOf(w, s \cup {x}) = SumOf(w, s) + 1 /\ Cardinality(s \cup {x}) = Cardinality(s) + 1
    BY <2>1, SumAdd, FS_AddElement
  <2> QED BY <1>2, <1>a, <2>2
<1>3. S \in T
  BY <1>1, <1>2, OneAtATime
<1> QED BY <1>a, <1>3

\* Elements can be renamed, if no two get one name.
LEMMA SumRenamed ==
  ASSUME NEW w, NEW v, NEW S, NEW h, IsFiniteSet(S),
         \A x, y \in S : h[x] = h[y] => x = y,
         \A x \in S : w[x] \in Int /\ v[h[x]] = w[x]
  PROVE  SumOf(v, {h[x] : x \in S}) = SumOf(w, S)
<1>a. PICK T : T = {s \in SUBSET S : SumOf(v, {h[x] : x \in s}) = SumOf(w, s)}
  OBVIOUS
<1>1. {} \in T
  BY <1>a, SumEmpty, {h[x] : x \in {}} = {}
<1>2. ASSUME NEW s \in SUBSET S, NEW x \in S \ s, s \in T
      PROVE  s \cup {x} \in T
  <2>1. PICK z : z = {h[y] : y \in s}
    OBVIOUS
  <2>2. IsFiniteSet(s) /\ IsFiniteSet(z)
    <3>1. PICK f : f = [y \in s |-> h[y]]
      OBVIOUS
    <3>2. f \in Surjection(s, z)
      BY <2>1, <3>1 DEF Surjection
    <3> QED BY <3>2, FS_Subset, FS_Surjection
  <2>3. h[x] \notin z /\ {h[y] : y \in s \cup {x}} = z \cup {h[x]}
    BY <2>1
  <2>4. \A y \in z \cup {h[x]} : v[y] \in Int
    BY <2>1
  <2>5. SumOf(v, z \cup {h[x]}) = SumOf(v, z) + v[h[x]]
    BY <2>2, <2>3, <2>4, SumAdd
  <2>6. SumOf(w, s \cup {x}) = SumOf(w, s) + w[x]
    BY <2>2, SumAdd
  <2> QED BY <1>2, <1>a, <2>1, <2>3, <2>5, <2>6
<1>3. S \in T
  BY <1>1, <1>2, OneAtATime
<1> QED BY <1>a, <1>3

\* What is counted once in one of several parts adds up to the whole.
LEMMA SumOfParts ==
  ASSUME NEW w, NEW S, NEW J, NEW part, NEW sums, IsFiniteSet(S), IsFiniteSet(J),
         \A x \in S : w[x] \in Int,
         \A x \in S : \E j \in J : x \in part[j],
         \A j \in J : part[j] \subseteq S /\ sums[j] = SumOf(w, part[j]),
         \A j, k \in J : j # k => part[j] \cap part[k] = {}
  PROVE  SumOf(sums, J) = SumOf(w, S)
<1>a. PICK T : T = {s \in SUBSET J : SumOf(sums, s) = SumOf(w, UNION {part[j] : j \in s})}
  OBVIOUS
<1>b. \A j \in J : IsFiniteSet(part[j]) /\ sums[j] \in Int
  BY FS_Subset, SumInt
<1>1. {} \in T
  BY <1>a, SumEmpty, UNION {part[j] : j \in {}} = {}
<1>2. ASSUME NEW s \in SUBSET J, NEW k \in J \ s, s \in T
      PROVE  s \cup {k} \in T
  <2>1. PICK z : z = UNION {part[j] : j \in s}
    OBVIOUS
  <2>2. z \subseteq S
    BY <2>1
  <2>3. IsFiniteSet(s) /\ IsFiniteSet(z) /\ IsFiniteSet(part[k])
    BY <1>b, <2>2, FS_Subset
  <2>4. z \cap part[k] = {}
    BY <2>1
  <2>5. UNION {part[j] : j \in s \cup {k}} = z \cup part[k]
    BY <2>1
  <2>6. SumOf(w, z \cup part[k]) = SumOf(w, z) + SumOf(w, part[k])
    BY <2>2, <2>3, <2>4, SumUnion
  <2>7. SumOf(sums, s \cup {k}) = SumOf(sums, s) + sums[k]
    BY <1>b, <2>3, SumAdd
  <2>8. SumOf(sums, s) = SumOf(w, z) /\ sums[k] = SumOf(w, part[k])
    BY <1>2, <1>a, <2>1
  <2> QED BY <1>a, <2>5, <2>6, <2>7, <2>8
<1>3. J \in T
  BY <1>1, <1>2, OneAtATime
<1>4. UNION {part[j] : j \in J} = S
  OBVIOUS
<1> QED BY <1>a, <1>3, <1>4

-----------------------------------------------------------------------------
(* Sums over the numbers up to one. *)

\* What holds of nothing, and of every number when it holds of the one before, holds of all.
LEMMA Upwards ==
  ASSUME NEW n \in Nat, NEW T, 0 \in T, \A k \in 0..(n - 1) : k \in T => k + 1 \in T
  PROVE  \A k \in 0..n : k \in T
<1> SUFFICES ASSUME NEW k \in 0..n, k \notin T PROVE FALSE
  OBVIOUS
<1>a. PICK B : B = {1..i : i \in {j \in 0..n : j \notin T}}
  OBVIOUS
<1>1. PICK s \in B : \A u \in B : ~ (u \subseteq s /\ u # s)
  <2>1. PICK N : N = 1..n
    OBVIOUS
  <2>2. B # {} /\ B \in SUBSET SUBSET N
    BY <1>a, <2>1
  <2>3. IsFiniteSet(N)
    BY <2>1, FS_Interval
  <2> QED BY ONLY <2>2, <2>3, SmallestSubset
<1>2. PICK i \in 0..n : s = 1..i /\ i \notin T
  BY <1>a
<1>3. i # 0 /\ i - 1 \in 0..n /\ (i - 1) + 1 = i
  BY <1>2
<1>4. i - 1 \notin T
  BY <1>2, <1>3
<1>5. 1..(i - 1) \in B
  BY <1>3, <1>4, <1>a
<1>6. 1..(i - 1) \subseteq s /\ 1..(i - 1) # s
  BY <1>2, <1>3
<1> QED BY <1>1, <1>5, <1>6

\* A sum over one number more.
LEMMA SumNext ==
  ASSUME NEW w, NEW k \in Nat, \A i \in 1..(k + 1) : w[i] \in Int
  PROVE  SumOf(w, 1..(k + 1)) = SumOf(w, 1..k) + w[k + 1] /\ SumOf(w, 1..k) \in Int
<1>1. PICK s : s = 1..k
  OBVIOUS
<1>2. k + 1 \notin s /\ 1..(k + 1) = s \cup {k + 1}
  BY <1>1
<1>3. IsFiniteSet(s)
  BY <1>1, FS_Interval
<1>4. \A i \in s \cup {k + 1} : w[i] \in Int
  BY <1>1
<1>5. SumOf(w, s \cup {k + 1}) = SumOf(w, s) + w[k + 1] /\ SumOf(w, s) \in Int
  BY <1>2, <1>3, <1>4, SumAdd, SumInt
<1> QED BY <1>1, <1>2, <1>5

\* The numbers add up to half of the last by the one after it.
LEMMA SumNumbers ==
  ASSUME NEW n \in Nat, NEW w, \A i \in 1..n : w[i] = i
  PROVE  2 * SumOf(w, 1..n) = n * (n + 1) /\ SumOf(w, 1..n) \in Int
<1>a. PICK T : T = {k \in 0..n : 2 * SumOf(w, 1..k) = k * (k + 1) /\ SumOf(w, 1..k) \in Int}
  OBVIOUS
<1>1. 0 \in T
  BY <1>a, SumEmpty, 1..0 = {}
<1>2. ASSUME NEW k \in 0..(n - 1), k \in T PROVE k + 1 \in T
  <2>1. SumOf(w, 1..(k + 1)) = SumOf(w, 1..k) + (k + 1) /\ SumOf(w, 1..k) \in Int
    BY SumNext
  <2>2. 2 * SumOf(w, 1..k) = k * (k + 1)
    BY <1>2, <1>a
  <2>3. k * (k + 1) + 2 * (k + 1) = (k + 1) * (k + 2)
    OBVIOUS
  <2>4. 2 * SumOf(w, 1..(k + 1)) = (k + 1) * ((k + 1) + 1) /\ SumOf(w, 1..(k + 1)) \in Int
    BY <2>1, <2>2, <2>3
  <2> QED BY ONLY <2>4, <1>a, k \in 0..(n - 1), n \in Nat
<1> QED BY <1>a, <1>1, <1>2, Upwards, n \in 0..n

\* Numbers that never fall weigh no less when the later ones weigh more.
LEMMA SumRising ==
  ASSUME NEW n \in Nat, NEW y, NEW v, \A i \in 1..n : y[i] \in Int /\ v[i] = i * y[i],
         \A i \in 2..n : y[i - 1] <= y[i]
  PROVE  (n + 1) * SumOf(y, 1..n) <= 2 * SumOf(v, 1..n)
<1>a. PICK T : T = {k \in 0..n :
                      /\ (k + 1) * SumOf(y, 1..k) <= 2 * SumOf(v, 1..k)
                      /\ k # 0 => SumOf(y, 1..k) <= k * y[k]}
  OBVIOUS
<1>1. 0 \in T
  BY <1>a, SumEmpty, 1..0 = {}
<1>2. ASSUME NEW k \in 0..(n - 1), k \in T PROVE k + 1 \in T
  <2>1. PICK s, p, x : s = SumOf(y, 1..k) /\ p = SumOf(v, 1..k) /\ x = y[k + 1]
    OBVIOUS
  <2>2. \A i \in 1..(k + 1) : y[i] \in Int /\ v[i] \in Int /\ v[i] = i * y[i]
    OBVIOUS
  <2>3. SumOf(y, 1..(k + 1)) = s + x /\ s \in Int /\ x \in Int
    BY <2>1, <2>2, SumNext
  <2>4. SumOf(v, 1..(k + 1)) = p + (k + 1) * x /\ p \in Int
    <3>1. SumOf(v, 1..(k + 1)) = p + v[k + 1] /\ p \in Int
      BY <2>1, <2>2, SumNext
    <3> QED BY <2>1, <2>2, <3>1
  <2>5. (k + 1) * s <= 2 * p
    BY <1>2, <1>a, <2>1
  <2>6. s <= k * x
    <3>1. CASE k = 0
      BY <3>1, <2>1, <2>3, SumEmpty, 1..0 = {}
    <3>2. CASE k # 0
      <4>1. y[k] \in Int /\ y[k] <= x /\ s <= k * y[k]
        BY <1>2, <1>a, <2>1, <3>2, k + 1 \in 2..n, (k + 1) - 1 = k
      <4>2. k * y[k] <= k * x
        BY <4>1, <2>3, TimesGrows
      <4>3. PICK a \in Int, b \in Int : a = k * y[k] /\ b = k * x
        BY <4>1, <2>3
      <4> QED BY ONLY <4>1, <4>2, <4>3, <2>3
    <3> QED BY <3>1, <3>2
  <2>7. s + x <= (k + 1) * x
    BY <2>3, <2>6
  <2>8. (k + 2) * (s + x) <= 2 * (p + (k + 1) * x)
    <3>1. PICK m, q : m = k * x /\ q = (k + 1) * s
      OBVIOUS
    <3>2. m \in Int /\ q \in Int /\ q <= 2 * p /\ s <= m
      BY <2>3, <2>5, <2>6, <3>1
    <3>3. (k + 2) * (s + x) = q + s + m + 2 * x
      BY ONLY <2>3, <3>1, k \in Nat
    <3>4. 2 * (p + (k + 1) * x) = 2 * p + 2 * m + 2 * x
      BY ONLY <2>3, <2>4, <3>1, k \in Nat
    <3> QED BY ONLY <2>3, <2>4, <3>2, <3>3, <3>4
  <2>9. ((k + 1) + 1) * SumOf(y, 1..(k + 1)) <= 2 * SumOf(v, 1..(k + 1))
    BY ONLY <2>3, <2>4, <2>8, k \in Nat
  <2>10. SumOf(y, 1..(k + 1)) <= (k + 1) * y[k + 1]
    BY <2>1, <2>3, <2>7
  <2> QED BY ONLY <2>9, <2>10, <1>a, k \in 0..(n - 1), n \in Nat
<1>3. \A k \in 0..n : k \in T
  BY ONLY <1>1, <1>2, Upwards, n \in Nat
<1> QED BY <1>a, <1>3, n \in 0..n
=============================================================================
