----------------------------- MODULE CardsProofs -----------------------------
(***************************************************************************)
(* Theorems about Cards, for every set of users, requests, keys and goals, *)
(* every menu of calls and every table of levels: its types, what its locks*)
(* keep between the steps of a handler, the safety of wallets, goals and   *)
(* retries, and that Cards implements Bank; then what requests leave on    *)
(* record and tell their clients: who can wait for whom in a circle, what  *)
(* an answer says, what a deletion takes away, streaks, badges, referrals  *)
(* and levels, and the sums that back the ledger.                          *)
(***************************************************************************)
EXTENDS CardsImplementBank, ArithmeticProofs

-----------------------------------------------------------------------------
(* The cashback arithmetic. *)

\* Rounding a non-negative fraction gives a natural number next to it.
LEMMA RoundedType ==
  ASSUME NEW n \in Nat, NEW d \in {1, 10, 100, 1000}
  PROVE  /\ Rounded(n, d) \in Nat
         /\ n \div d <= Rounded(n, d) /\ Rounded(n, d) <= n \div d + 1
<1>1. CASE d = 1  BY <1>1 DEF Rounded
<1>2. CASE d = 10  BY <1>2 DEF Rounded
<1>3. CASE d = 100  BY <1>3 DEF Rounded
<1>4. CASE d = 1000  BY <1>4 DEF Rounded
<1>5. QED  BY <1>1, <1>2, <1>3, <1>4

-----------------------------------------------------------------------------
(* The types of what handlers compute. *)

\* A request that has not been sent is well typed,
LEMMA NoCallType == NoCall \in Call
BY CardsAssumption DEF NoCall

\* and so is what it has read.
LEMMA NothingSeenType == NothingSeen \in Seen
BY DEF NothingSeen, Seen

\* A reward, and the level it is paid at, are natural numbers.
LEMMA PaymentType ==
  ASSUME TypeOK, NEW r \in Requests
  PROVE  Reward(r) \in Nat
<1> DEFINE m == Multiplier(seen[r].earned)
           b == IF seen[r].boost THEN 20 ELSE 10
           n == call[r].amount * m * b
<1>1. m \in Nat  BY MultiplierType
<1>2. call[r].amount \in Nat  BY DEF TypeOK, Call
<1>3. b \in Nat  OBVIOUS
<1> HIDE DEF m, b
<1>4. n \in Nat  BY <1>1, <1>2, <1>3
<1>5. Reward(r) = Rounded(n, 100)  BY DEF Reward, calculate_reward, m, b
<1> HIDE DEF n
<1>6. Rounded(n, 100) \in Nat  BY <1>4, RoundedType
<1>7. QED  BY <1>5, <1>6

\* A streak that counts a day is a streak.
LEMMA StreakType ==
  ASSUME NEW s \in Streak, NEW today \in Nat
  PROVE  update_streak(s, today) \in Streak
<1>1. Extended(s, today) \in Nat  BY DEF Extended, Streak
<1>2. QED  BY <1>1 DEF update_streak, Streak

\* The badges whose conditions hold are badges.
LEMMA BadgesType ==
  ASSUME NEW mine, NEW sats, NEW level, NEW s, NEW today
  PROVE  MetBadges(mine, sats, level, s, today) \subseteq Badges
BY DEF MetBadges

\* A ledger row adds its sats to one balance, under one type.
LEMMA EntryAdds ==
  ASSUME NEW l \in [Users -> [LedgerTypes -> Int]], NEW u \in Users,
         NEW type \in LedgerTypes, NEW sats \in Int
  PROVE  /\ Entry(l, u, type, sats) \in [Users -> [LedgerTypes -> Int]]
         /\ LedgerSum(Entry(l, u, type, sats)[u]) = LedgerSum(l[u]) + sats
         /\ \A v \in Users \ {u} : Entry(l, u, type, sats)[v] = l[v]
<1> DEFINE row == [l[u] EXCEPT ![type] = @ + sats]
<1>1. row \in [LedgerTypes -> Int]  OBVIOUS
<1>2. Entry(l, u, type, sats) = [l EXCEPT ![u] = row]  BY DEF Entry
<1>3. LedgerSum(row) = LedgerSum(l[u]) + sats
  <2>1. \A t \in LedgerTypes : row[t] = IF t = type THEN l[u][t] + sats ELSE l[u][t]
    OBVIOUS
  <2>2. \A t \in LedgerTypes : l[u][t] \in Int  OBVIOUS
  <2> HIDE DEF row
  <2>3. QED  BY <2>1, <2>2 DEF LedgerSum, LedgerTypes
<1>4. QED  BY <1>1, <1>2, <1>3

-----------------------------------------------------------------------------
(* Type correctness: the database, and the requests with their locks.      *)

DbType ==
  /\ account \in [Users -> {"none", "open", "gone"}]
  /\ rows \in [Users -> Nat]
  /\ wallet \in [Users -> Int]
  /\ ledger \in [Users -> [LedgerTypes -> Int]]
  /\ bought \subseteq Purchase
  /\ goal \in [GoalIds -> Goal]
  /\ roundup \subseteq Users
  /\ boost \in [Users -> Boost]
  /\ streak \in [Users -> Streak]
  /\ badges \in [Users -> SUBSET Badges]
  /\ refs \in [Users -> Nat]
  /\ referrals \subseteq [referrer : Users, referee : Users]

LockType ==
  /\ walletLock \in [Users -> Requests \cup {Nobody}]
  /\ goalLock \in [GoalIds -> Requests \cup {Nobody}]
  /\ codeLock \in [Users -> Requests \cup {Nobody}]

FlowType ==
  /\ pc \in [Requests -> Steps]
  /\ call \in [Requests -> Call]
  /\ seen \in [Requests -> Seen]
  /\ reply \in [Requests -> Replies]
  /\ now \in Nat

\* The types are those of the database, of the locks and of the requests.
LEMMA TypeParts ==
  /\ TypeOK <=> DbType /\ LockType /\ FlowType
  /\ TypeOK' <=> DbType' /\ LockType' /\ FlowType'
BY DEF TypeOK, DbType, LockType, FlowType

\* A step that writes nothing keeps the types of the database,
LEMMA DbUnchangedType ==
  ASSUME DbType, UNCHANGED db
  PROVE  DbType'
BY DEF DbType, db

\* and one that takes no lock those of the locks.
LEMMA LocksUnchangedType ==
  ASSUME LockType, UNCHANGED locks
  PROVE  LockType'
BY DEF LockType, locks

\* The database that the server starts on is well typed.
LEMMA InitType == Init => TypeOK
<1> SUFFICES ASSUME Init PROVE TypeOK  OBVIOUS
<1>1. DbType
  <2>1. NoLedger \in [LedgerTypes -> Int]  BY DEF NoLedger
  <2>2. [NoLedger EXCEPT !["referral_welcome"] = WelcomeSats] \in [LedgerTypes -> Int]
    BY <2>1, CardsAssumption DEF LedgerTypes
  <2>3. (CHOOSE c \in Categories : TRUE) \in Categories
    BY CardsAssumption DEF Call
  <2>4. NewStreak \in Streak  BY DEF NewStreak, Streak
  <2>5. boost \in [Users -> Boost]  BY <2>3 DEF Init, Boost
  <2>6. ledger \in [Users -> [LedgerTypes -> Int]]  BY <2>1, <2>2 DEF Init
  <2>7. wallet \in [Users -> Int]  BY CardsAssumption DEF Init
  <2>8. goal \in [GoalIds -> Goal]  BY CardsAssumption DEF Init
  <2>9. QED  BY <2>4, <2>5, <2>6, <2>7, <2>8 DEF Init, DbType
<1>2. LockType  BY DEF Init, LockType
<1>3. FlowType  BY NoCallType, NothingSeenType DEF Init, FlowType, Steps, Replies
<1>4. QED  BY <1>1, <1>2, <1>3, TypeParts

\* The end of a transaction frees its locks and answers with a code.
LEMMA FinishType ==
  ASSUME LockType, FlowType, NEW r \in Requests, NEW code \in Replies, Finish(r, code)
  PROVE  LockType' /\ FlowType'
<1>1. LockType'  BY DEF LockType, Finish
<1>2. FlowType'  BY NothingSeenType DEF FlowType, Finish, Steps
<1>3. QED  BY <1>1, <1>2

\* A request refused without a commit keeps the types.
LEMMA RefuseType ==
  ASSUME TypeOK, NEW r \in Requests, NEW code \in Replies, Refuse(r, code)
  PROVE  TypeOK'
BY FinishType, DbUnchangedType, TypeParts DEF Refuse

\* A request that moves on to a step of its handler keeps the types.
LEMMA ProceedType ==
  ASSUME TypeOK, NEW r \in Requests, NEW step \in Steps, NEW s \in Seen,
         Proceed(r, step, s), LockType'
  PROVE  TypeOK'
<1>1. FlowType'  BY TypeParts DEF FlowType, Proceed
<1>2. DbType'  BY TypeParts, DbUnchangedType DEF Proceed
<1>3. QED  BY <1>1, <1>2, TypeParts

\* Whoever a referral pays is a user.
LEMMA PayeeType ==
  ASSUME TypeOK, NEW r \in Requests
  PROVE  Payee(r) \in Users
BY DEF TypeOK, Payee, Call

-----------------------------------------------------------------------------
(* Arrivals. *)

\* What the arrivals of every handler but register have in common.
Arrived(r, ops, step) ==
  \E c \in Menu, s \in Seen :
    /\ pc[r] = "new"
    /\ c.op \in ops
    /\ account[c.user] # "none"
    /\ call' = [call EXCEPT ![r] = c]
    /\ \/ /\ pc' = [pc EXCEPT ![r] = step]
          /\ seen' = [seen EXCEPT ![r] = s]
          /\ UNCHANGED reply
       \/ /\ pc' = [pc EXCEPT ![r] = "done"]
          /\ reply' = [reply EXCEPT ![r] = 401]
          /\ UNCHANGED seen
    /\ UNCHANGED <<db, locks, now>>

ArrivedSomehow(r) ==
  \/ Arrived(r, {"purchase"}, "insert")
  \/ Arrived(r, {"create_goal", "set_roundup", "boost"}, "commit")
  \/ Arrived(r, {"allocate", "delete_goal"}, "goal")
  \/ Arrived(r, {"close"}, "code")

\* A handler that begins has taken one call of the menu and read what it reads first,
LEMMA ArriveArrives ==
  ASSUME NEW r \in Requests, NEW ops, NEW step, NEW s \in [Menu -> Seen],
         Arrive(r, ops, step, s)
  PROVE  Arrived(r, ops, step)
<1>1. PICK c \in Menu :
        /\ pc[r] = "new" /\ c.op \in ops /\ account[c.user] # "none"
        /\ call' = [call EXCEPT ![r] = c]
        /\ \/ /\ pc' = [pc EXCEPT ![r] = step]
              /\ seen' = [seen EXCEPT ![r] = s[c]]
              /\ UNCHANGED reply
           \/ /\ pc' = [pc EXCEPT ![r] = "done"]
              /\ reply' = [reply EXCEPT ![r] = 401]
              /\ UNCHANGED seen
        /\ UNCHANGED <<db, locks, now>>
  BY Zenon DEF Arrive
<1>2. s[c] \in Seen  OBVIOUS
<1>3. QED  BY <1>1, <1>2, Zenon DEF Arrived

\* whichever handler it is.
LEMMA BeginArrives ==
  ASSUME TypeOK, NEW r \in Requests, Begin(r)
  PROVE  ArrivedSomehow(r) \/ RegisterArrive(r)
<1> DEFINE nothing == [c \in Menu |-> NothingSeen]
<1>0. nothing \in [Menu -> Seen]  BY NothingSeenType
<1>1. CASE PurchaseRead(r)
  <2> DEFINE s == [c \in Menu |-> [NothingSeen EXCEPT
                     !.earned = total_sats_earned(c.user),
                     !.boost = active_boost(c.user) /\ boost[c.user].cat = c.cat,
                     !.at = now]]
  <2>1. s \in [Menu -> Seen]
    <3> SUFFICES ASSUME NEW c \in Menu
                 PROVE [NothingSeen EXCEPT !.earned = total_sats_earned(c.user),
                              !.boost = active_boost(c.user) /\ boost[c.user].cat = c.cat,
                              !.at = now] \in Seen
      OBVIOUS
    <3>1. c.user \in Users  BY CardsAssumption DEF Call
    <3>2. total_sats_earned(c.user) \in Int
      BY <3>1 DEF total_sats_earned, TypeOK, LedgerTypes
    <3>3. now \in Nat  BY DEF TypeOK
    <3>4. (active_boost(c.user) /\ boost[c.user].cat = c.cat) \in BOOLEAN  OBVIOUS
    <3>5. QED  BY <3>2, <3>3, <3>4, NothingSeenType DEF Seen
  <2>2. Arrive(r, {"purchase"}, "insert", s)  BY <1>1 DEF PurchaseRead
  <2> HIDE DEF s
  <2>3. QED  BY <2>1, <2>2, ArriveArrives DEF ArrivedSomehow
<1>2. CASE CreateGoalArrive(r)
  <2>1. Arrive(r, {"create_goal"}, "commit", nothing)  BY <1>2 DEF CreateGoalArrive
  <2> HIDE DEF nothing
  <2>2. Arrived(r, {"create_goal"}, "commit")  BY <1>0, <2>1, ArriveArrives
  <2>3. QED  BY <2>2, ZenonT(30) DEF ArrivedSomehow, Arrived
<1>3. CASE GoalArrive(r)
  <2>1. Arrive(r, {"allocate", "delete_goal"}, "goal", nothing)  BY <1>3 DEF GoalArrive
  <2> HIDE DEF nothing
  <2>2. QED  BY <1>0, <2>1, ArriveArrives DEF ArrivedSomehow
<1>4. CASE RoundupArrive(r)
  <2>1. Arrive(r, {"set_roundup"}, "commit", nothing)  BY <1>4 DEF RoundupArrive
  <2> HIDE DEF nothing
  <2>2. Arrived(r, {"set_roundup"}, "commit")  BY <1>0, <2>1, ArriveArrives
  <2>3. QED  BY <2>2, ZenonT(30) DEF ArrivedSomehow, Arrived
<1>5. CASE BoostRead(r)
  <2> DEFINE s == [c \in Menu |-> [NothingSeen EXCEPT !.boost = HasBoostRow(c.user)]]
  <2>1. \A c \in Menu : HasBoostRow(c.user) \in BOOLEAN  BY DEF HasBoostRow
  <2>2. s \in [Menu -> Seen]  BY <2>1, NothingSeenType DEF Seen
  <2>3. Arrive(r, {"boost"}, "commit", s)  BY <1>5 DEF BoostRead
  <2> HIDE DEF s
  <2>4. Arrived(r, {"boost"}, "commit")  BY <2>2, <2>3, ArriveArrives
  <2>5. QED  BY <2>4, ZenonT(30) DEF ArrivedSomehow, Arrived
<1>6. CASE RegisterArrive(r)  BY <1>6
<1>7. CASE CloseRead(r)
  <2> DEFINE s == [c \in Menu |-> [NothingSeen EXCEPT !.rows = rows[c.user],
                                                       !.goals = LiveGoals(c.user)]]
  <2>1. s \in [Menu -> Seen]
    <3> SUFFICES ASSUME NEW c \in Menu
                 PROVE [NothingSeen EXCEPT !.rows = rows[c.user],
                                           !.goals = LiveGoals(c.user)] \in Seen
      OBVIOUS
    <3>1. rows[c.user] \in Nat  BY CardsAssumption DEF Call, TypeOK
    <3>2. LiveGoals(c.user) \in SUBSET GoalIds  BY DEF LiveGoals
    <3>3. QED  BY <3>1, <3>2, NothingSeenType DEF Seen
  <2>2. Arrive(r, {"close"}, "code", s)  BY <1>7 DEF CloseRead
  <2> HIDE DEF s
  <2>3. QED  BY <2>1, <2>2, ArriveArrives DEF ArrivedSomehow
<1>8. QED  BY <1>1, <1>2, <1>3, <1>4, <1>5, <1>6, <1>7 DEF Begin

\* A request that arrives is well typed.
LEMMA BeginType ==
  ASSUME TypeOK, NEW r \in Requests, Begin(r)
  PROVE  TypeOK'
<1>1. CASE RegisterArrive(r)
  <2>1. FlowType'
    BY <1>1, TypeParts, CardsAssumption DEF RegisterArrive, FlowType, Steps, Replies
  <2>2. QED  BY <1>1, <2>1, TypeParts, DbUnchangedType, LocksUnchangedType DEF RegisterArrive
<1>2. CASE ArrivedSomehow(r)
  <2>1. FlowType'
    BY <1>2, TypeParts, CardsAssumption
       DEF ArrivedSomehow, Arrived, FlowType, Steps, Replies
  <2>2. UNCHANGED <<db, locks>>  BY <1>2 DEF ArrivedSomehow, Arrived
  <2>3. QED  BY <2>1, <2>2, TypeParts, DbUnchangedType, LocksUnchangedType
<1>3. QED  BY <1>1, <1>2, BeginArrives

-----------------------------------------------------------------------------
(* The other steps. *)

\* What has been read keeps its type when the wallet or a goal is read,
LEMMA SeenUpdates ==
  \A s \in Seen : /\ \A n \in Int : [s EXCEPT !.balance = n] \in Seen
                  /\ \A n \in Nat : [s EXCEPT !.pot = n] \in Seen
BY DEF Seen

\* and a goal when it is deleted.
LEMMA DeletedGoal ==
  \A g \in Goal : /\ [g EXCEPT !.state = "deleted", !.current = 0] \in Goal
                  /\ [g EXCEPT !.state = "deleted", !.current = 0].state = "deleted"
                  /\ [g EXCEPT !.state = "deleted", !.current = 0].owner = g.owner
                  /\ [g EXCEPT !.state = "deleted", !.current = 0].current = 0
BY DEF Goal

\* get_wallet(for_update=True) keeps the types, whether it waits, reads or answers.
LEMMA LockWalletType ==
  ASSUME TypeOK, NEW r \in Requests, LockWallet(r)
  PROVE  TypeOK'
<1> DEFINE s == [seen[r] EXCEPT !.balance = wallet[Payee(r)]]
<1>1. s \in Seen
  <2>1. seen[r] \in Seen /\ wallet[Payee(r)] \in Int  BY PayeeType DEF TypeOK
  <2>2. QED  BY ONLY <2>1, SeenUpdates DEF s
<1>2. LockType'  BY PayeeType DEF LockWallet, LockType, TypeOK
<1>3. Proceed(r, "commit", s)  BY DEF LockWallet
<1>4. QED  BY <1>1, <1>2, <1>3, ProceedType DEF Steps

\* So does _owned_goal.
LEMMA LockGoalType ==
  ASSUME TypeOK, NEW r \in Requests, LockGoal(r)
  PROVE  TypeOK'
<1> DEFINE g    == call[r].goal
           s    == [seen[r] EXCEPT !.pot = goal[g].current]
           step == IF call[r].op = "delete_goal" /\ goal[g].current = 0
                     THEN "commit" ELSE "wallet"
<1>1. CASE g \notin LiveGoals(call[r].user)
  BY <1>1, RefuseType DEF LockGoal, Replies
<1>2. CASE g \in LiveGoals(call[r].user)
  <2>1. goal[g].current \in Nat  BY DEF TypeOK, Call, Goal
  <2>2. s \in Seen
    <3>1. seen[r] \in Seen  BY DEF TypeOK
    <3>2. QED  BY ONLY <2>1, <3>1, SeenUpdates, Zenon DEF s
  <2>3. Proceed(r, step, s)  BY <1>2 DEF LockGoal
  <2>4. LockType'  BY <1>2 DEF LockGoal, LockType, TypeOK
  <2>5. QED  BY <2>2, <2>3, <2>4, ProceedType DEF Steps
<1>3. QED  BY <1>1, <1>2

\* So does the INSERT of a transaction, a duplicate's included.
LEMMA PurchaseInsertType ==
  ASSUME TypeOK, NEW r \in Requests, PurchaseInsert(r)
  PROVE  TypeOK'
<1>1. CASE Recorded(r) \/ AccountGone(r)
  BY <1>1, RefuseType DEF PurchaseInsert, Replies, DuplicateStatus
<1>2. CASE ~ (Recorded(r) \/ AccountGone(r))
  BY <1>2, ProceedType, TypeParts, LocksUnchangedType DEF PurchaseInsert, Steps, TypeOK
<1>3. QED  BY <1>1, <1>2

\* A purchase's commit writes a balance, a ledger, a streak and badges of their types.
LEMMA PurchaseCommitType ==
  ASSUME TypeOK, NEW r \in Requests, PurchaseCommit(r)
  PROVE  TypeOK'
<1> DEFINE u     == call[r].user
           spare == IF u \in roundup THEN call[r].spare ELSE 0
           today == utctoday(now)
           day   == update_streak(streak[u], today)
           tx    == [id |-> r, user |-> u, key |-> call[r].key, cat |-> call[r].cat,
                     sats |-> Reward(r), boost |-> seen[r].boost, at |-> seen[r].at,
                     counted |-> today]
           met   == MetBadges(Mine(u, tx), seen[r].earned + Reward(r),
                              LevelIndex(seen[r].earned + Reward(r)), day, today)
<1>1. u \in Users /\ call[r].key \in Keys \cup {NoKey} /\ call[r].cat \in Categories
      /\ spare \in Nat
  BY DEF TypeOK, Call
<1>2. Reward(r) \in Nat  BY PaymentType
<1>3. today \in Nat  BY DEF utctoday, TypeOK
<1>4. day \in Streak  BY <1>1, <1>3, StreakType DEF TypeOK
<1>5. seen[r].at \in Nat /\ seen[r].balance \in Int /\ seen[r].boost \in BOOLEAN
  BY DEF TypeOK, Seen
<1>6. tx \in Purchase  BY <1>1, <1>2, <1>3, <1>5 DEF Purchase
<1>7. met \subseteq Badges  BY BadgesType
<1>8. LockType' /\ FlowType'  BY FinishType, TypeParts DEF PurchaseCommit, Replies
<1>9. /\ bought' = bought \cup {tx}
      /\ wallet' = [wallet EXCEPT ![u] = seen[r].balance + Reward(r) + spare]
      /\ ledger' = Entry(Entry(ledger, u, "cashback", Reward(r)), u, "round_up", spare)
      /\ streak' = [streak EXCEPT ![u] = day]
      /\ badges' = [badges EXCEPT ![u] = @ \cup met]
      /\ rows' = [rows EXCEPT ![u] = @ + 1]
      /\ UNCHANGED <<account, goal, roundup, boost, refs, referrals>>
  BY DEF PurchaseCommit
<1> HIDE DEF u, spare, today, day, tx, met
<1>10. ledger' \in [Users -> [LedgerTypes -> Int]]
  <2>1. /\ ledger \in [Users -> [LedgerTypes -> Int]] /\ Reward(r) \in Int /\ spare \in Int
        /\ {"cashback", "round_up"} \subseteq LedgerTypes
    BY <1>1, <1>2 DEF TypeOK, LedgerTypes
  <2>2. Entry(ledger, u, "cashback", Reward(r)) \in [Users -> [LedgerTypes -> Int]]
    BY <1>1, <2>1, EntryAdds
  <2>3. QED  BY <1>1, <1>9, <2>1, <2>2, EntryAdds
<1>11. DbType'
  BY <1>1, <1>2, <1>4, <1>5, <1>6, <1>7, <1>9, <1>10 DEF DbType, TypeOK
<1>12. QED  BY <1>8, <1>11, TypeParts

\* A new goal is a goal.
LEMMA CreateGoalCommitType ==
  ASSUME TypeOK, NEW r \in Requests, CreateGoalCommit(r)
  PROVE  TypeOK'
<1>1. CASE AccountGone(r)  BY <1>1, RefuseType DEF CreateGoalCommit, Replies
<1>2. CASE ~ AccountGone(r)
  <2>1. LockType' /\ FlowType'
    BY <1>2, FinishType, TypeParts DEF CreateGoalCommit, Replies
  <2>2. goal' \in [GoalIds -> Goal]
    <3> DEFINE new == [state |-> "live", owner |-> call[r].user,
                       target |-> call[r].amount, current |-> 0, done |-> FALSE]
    <3>1. new \in Goal  BY DEF TypeOK, Goal, Call
    <3>2. goal' = [goal EXCEPT ![call[r].goal] = new]  BY <1>2 DEF CreateGoalCommit
    <3>3. QED  BY <3>1, <3>2 DEF TypeOK
  <2>3. DbType'  BY <1>2, <2>2 DEF CreateGoalCommit, TypeOK, DbType
  <2>4. QED  BY <2>1, <2>3, TypeParts
<1>3. QED  BY <1>1, <1>2

\* An allocation leaves natural numbers in the wallet and in the goal.
LEMMA AllocateCommitType ==
  ASSUME TypeOK, NEW r \in Requests, AllocateCommit(r)
  PROVE  TypeOK'
<1> DEFINE c == call[r]
<1>1. CASE ~ Affordable(r)  BY <1>1, RefuseType DEF AllocateCommit, Replies
<1>2. CASE Affordable(r)
  <2>1. LockType' /\ FlowType'
    BY <1>2, FinishType, TypeParts DEF AllocateCommit, Replies
  <2>2. c.user \in Users /\ c.amount \in Nat /\ c.goal \in GoalIds  BY DEF TypeOK, Call
  <2>3. seen[r].balance \in Int /\ seen[r].pot \in Nat  BY DEF TypeOK, Seen
  <2>4. Filled(r) \in Nat  BY <2>2, <2>3 DEF Filled
  <2>5. goal' \in [GoalIds -> Goal]
    <3> DEFINE done == goal[c.goal].done \/ Filled(r) >= goal[c.goal].target
               new  == [goal[c.goal] EXCEPT !.current = Filled(r), !.done = done]
    <3>1. goal' = [goal EXCEPT ![c.goal] = new]
      BY <1>2, <2>2 DEF AllocateCommit, TypeOK, Goal
    <3>2. done \in BOOLEAN /\ goal[c.goal] \in Goal  BY <2>2 DEF TypeOK
    <3> HIDE DEF done
    <3>3. new \in Goal  BY <2>4, <3>2 DEF Goal
    <3>4. QED  BY <2>2, <3>1, <3>3 DEF TypeOK
  <2>6. ledger' \in [Users -> [LedgerTypes -> Int]]
    <3>1. ledger' = Entry(ledger, c.user, "goal_allocation", - c.amount)
      BY <1>2 DEF AllocateCommit
    <3>2. - c.amount \in Int /\ "goal_allocation" \in LedgerTypes
      BY <2>2 DEF LedgerTypes
    <3>3. QED  BY <2>2, <3>1, <3>2, EntryAdds DEF TypeOK
  <2>7. wallet' \in [Users -> Int] /\ rows' \in [Users -> Nat]
    BY <1>2, <2>2, <2>3 DEF AllocateCommit, TypeOK
  <2>8. DbType'  BY <1>2, <2>5, <2>6, <2>7 DEF AllocateCommit, TypeOK, DbType
  <2>9. QED  BY <2>1, <2>8, TypeParts
<1>3. QED  BY <1>1, <1>2

\* So does a goal's deletion.
LEMMA DeleteGoalCommitType ==
  ASSUME TypeOK, NEW r \in Requests, DeleteGoalCommit(r)
  PROVE  TypeOK'
<1> DEFINE c == call[r]
<1>1. LockType' /\ FlowType'  BY FinishType, TypeParts DEF DeleteGoalCommit, Replies
<1>2. c.user \in Users /\ c.goal \in GoalIds  BY DEF TypeOK, Call
<1>3. seen[r].balance \in Int /\ seen[r].pot \in Nat  BY DEF TypeOK, Seen
<1>4. goal' \in [GoalIds -> Goal]
  <2> DEFINE new == [goal[c.goal] EXCEPT !.state = "deleted", !.current = 0]
  <2>1. goal' = [goal EXCEPT ![c.goal] = new]  BY <1>2 DEF DeleteGoalCommit, TypeOK, Goal
  <2>2. goal[c.goal] \in Goal  BY <1>2 DEF TypeOK
  <2>3. new \in Goal  BY <2>2 DEF Goal
  <2>4. QED  BY <1>2, <2>1, <2>3 DEF TypeOK
<1>5. ledger' \in [Users -> [LedgerTypes -> Int]]
  <2>1. "goal_allocation" \in LedgerTypes /\ seen[r].pot \in Int
    BY <1>3 DEF LedgerTypes
  <2>2. ledger \in [Users -> [LedgerTypes -> Int]]  BY DEF TypeOK
  <2>3. Entry(ledger, c.user, "goal_allocation", seen[r].pot)
          \in [Users -> [LedgerTypes -> Int]]
    BY <1>2, <2>1, <2>2, EntryAdds
  <2>4. QED  BY <2>2, <2>3 DEF DeleteGoalCommit
<1>6. wallet' \in [Users -> Int] /\ rows' \in [Users -> Nat]
  BY <1>2, <1>3 DEF DeleteGoalCommit, TypeOK
<1>7. DbType'  BY <1>4, <1>5, <1>6 DEF DeleteGoalCommit, TypeOK, DbType
<1>8. QED  BY <1>1, <1>7, TypeParts

\* The switch of the round-up and a boost are of their types.
LEMMA SettingsCommitType ==
  ASSUME TypeOK, NEW r \in Requests, RoundupCommit(r) \/ BoostCommit(r)
  PROVE  TypeOK'
<1>1. call[r].user \in Users /\ call[r].cat \in Categories  BY DEF TypeOK, Call
<1> DEFINE fails == AccountGone(r) \/ (HasBoostRow(call[r].user) /\ ~ seen[r].boost)
<1>2. CASE RoundupCommit(r) /\ AccountGone(r)
  BY <1>2, RefuseType DEF RoundupCommit, Replies
<1>3. CASE RoundupCommit(r) /\ ~ AccountGone(r)
  <2>1. LockType' /\ FlowType'
    BY <1>3, FinishType, TypeParts DEF RoundupCommit, Replies
  <2>2. DbType'  BY <1>1, <1>3 DEF RoundupCommit, TypeOK, DbType
  <2>3. QED  BY <2>1, <2>2, TypeParts
<1>4. CASE BoostCommit(r) /\ fails
  BY <1>4, RefuseType DEF BoostCommit, Replies
<1>5. CASE BoostCommit(r) /\ ~ fails
  <2>1. LockType' /\ FlowType'
    BY <1>5, FinishType, TypeParts DEF BoostCommit, Replies
  <2>2. now + BoostLasts \in Int  BY CardsAssumption DEF TypeOK
  <2>3. [cat |-> call[r].cat, until |-> now + BoostLasts] \in Boost  BY <1>1, <2>2 DEF Boost
  <2>4. boost' = [boost EXCEPT ![call[r].user] =
                    [cat |-> call[r].cat, until |-> now + BoostLasts]]
    BY <1>5 DEF BoostCommit
  <2>5. boost' \in [Users -> Boost]  BY <2>3, <2>4 DEF TypeOK
  <2>6. rows' = [rows EXCEPT ![call[r].user] = @ + 1]
        /\ UNCHANGED <<account, wallet, ledger, bought, goal, roundup,
                       streak, badges, refs, referrals>>
    BY <1>5 DEF BoostCommit
  <2>7. rows' \in [Users -> Nat]  BY <1>1, <2>6 DEF TypeOK
  <2>8. DbType'  BY <2>5, <2>6, <2>7 DEF TypeOK, DbType
  <2>9. QED  BY <2>1, <2>8, TypeParts
<1> HIDE DEF fails
<1>6. QED  BY <1>2, <1>3, <1>4, <1>5

\* The steps of a registration before its commit keep the types.
LEMMA RegisterStepType ==
  ASSUME TypeOK, NEW r \in Requests,
         RegisterInsert(r) \/ RegisterReferral(r) \/ RegisterLockCode(r)
  PROVE  TypeOK'
<1>1. call[r].user \in Users /\ call[r].friend \in Users  BY DEF TypeOK, Call
<1>2. seen[r] \in Seen  BY DEF TypeOK
<1>3. [NothingSeen EXCEPT !.refs = refs[call[r].friend]] \in Seen
  BY <1>1, NothingSeenType DEF Seen, TypeOK
<1>4. CASE Refuse(r, 500)  BY <1>4, RefuseType DEF Replies
<1>5. CASE RegisterInsert(r) /\ ~ Refuse(r, 500)
  BY <1>3, <1>5, NothingSeenType, ProceedType, TypeParts, LocksUnchangedType
     DEF RegisterInsert, Steps
<1>6. CASE RegisterReferral(r) /\ ~ Refuse(r, 500)
  BY <1>2, <1>6, ProceedType, TypeParts, LocksUnchangedType DEF RegisterReferral, Steps
<1>7. CASE RegisterLockCode(r)
  <2>1. LockType'  BY <1>1, <1>7 DEF RegisterLockCode, LockType, TypeOK
  <2>2. QED  BY <1>2, <1>7, <2>1, ProceedType DEF RegisterLockCode, Steps
<1>8. QED  BY <1>4, <1>5, <1>6, <1>7

\* What a registration writes for the newcomer and the referrer is well typed.
LEMMA RegisterCommitType ==
  ASSUME TypeOK, NEW r \in Requests, RegisterCommit(r)
  PROVE  TypeOK'
<1> DEFINE u == call[r].user
           f == call[r].friend
<1>1. u \in Users /\ f \in Users  BY DEF TypeOK, Call
<1>2. seen[r].balance \in Int /\ seen[r].refs \in Nat  BY DEF TypeOK, Seen
<1>3. WelcomeSats \in Int /\ ReferrerSats \in Int  BY CardsAssumption
<1>4. LockType' /\ FlowType'  BY FinishType, TypeParts DEF RegisterCommit, Replies
<1>5. CASE IsReferred(r)
  <2>1. Entry(ledger, f, "referral_bonus", ReferrerSats) \in [Users -> [LedgerTypes -> Int]]
    BY <1>1, <1>3, EntryAdds DEF TypeOK, LedgerTypes
  <2>2. ledger' \in [Users -> [LedgerTypes -> Int]]
    <3>1. ledger' = Entry(Entry(ledger, f, "referral_bonus", ReferrerSats),
                          u, "referral_welcome", WelcomeSats)
      BY <1>5 DEF RegisterCommit
    <3>2. "referral_welcome" \in LedgerTypes  BY DEF LedgerTypes
    <3>3. QED  BY <1>1, <1>3, <2>1, <3>1, <3>2, EntryAdds
  <2>3. wallet' \in [Users -> Int] /\ rows' \in [Users -> Nat] /\ refs' \in [Users -> Nat]
    <3>1. /\ wallet' = [wallet EXCEPT ![f] = seen[r].balance + ReferrerSats,
                                      ![u] = WelcomeSats]
          /\ rows' = [rows EXCEPT ![f] = @ + 1]
          /\ refs' = [refs EXCEPT ![f] = seen[r].refs + 1]
      BY <1>5 DEF RegisterCommit
    <3>2. QED  BY <1>1, <1>2, <1>3, <3>1 DEF TypeOK
  <2>4. account' \in [Users -> {"none", "open", "gone"}]
        /\ referrals' \subseteq [referrer : Users, referee : Users]
    BY <1>1, <1>5 DEF RegisterCommit, TypeOK
  <2>5. DbType'  BY <1>5, <2>2, <2>3, <2>4 DEF RegisterCommit, TypeOK, DbType
  <2>6. QED  BY <1>4, <2>5, TypeParts
<1>6. CASE ~ IsReferred(r)
  <2>1. DbType'  BY <1>1, <1>6 DEF RegisterCommit, TypeOK, DbType
  <2>2. QED  BY <1>4, <2>1, TypeParts
<1>7. QED  BY <1>5, <1>6

\* The locks a deletion takes keep the types,
LEMMA CloseStepType ==
  ASSUME TypeOK, NEW r \in Requests, CloseLockCode(r) \/ CloseLockGoals(r)
  PROVE  TypeOK'
<1>1. seen[r] \in Seen /\ call[r].user \in Users  BY DEF TypeOK, Call
<1>2. LockType'  BY <1>1 DEF CloseLockCode, CloseLockGoals, LockType, TypeOK
<1>3. QED  BY <1>1, <1>2, ProceedType DEF CloseLockCode, CloseLockGoals, Steps

\* and what it leaves behind is well typed.
LEMMA CloseCommitType ==
  ASSUME TypeOK, NEW r \in Requests, CloseCommit(r)
  PROVE  TypeOK'
<1> DEFINE u     == call[r].user
           added == rows[u] # seen[r].rows \/ ~ LiveGoals(u) \subseteq seen[r].goals
<1>1. CASE account[u] = "gone"  BY <1>1, RefuseType DEF CloseCommit, Replies
<1>2. CASE account[u] # "gone" /\ added
  <2>1. Refuse(r, 500)  BY <1>2, Zenon DEF CloseCommit
  <2>2. QED  BY <2>1, RefuseType DEF Replies
<1>3. CASE account[u] # "gone" /\ ~ added
  <2>1. /\ account' = [account EXCEPT ![u] = "gone"]
        /\ rows' = [rows EXCEPT ![u] = 0]
        /\ wallet' = [wallet EXCEPT ![u] = 0]
        /\ ledger' = [ledger EXCEPT ![u] = NoLedger]
        /\ bought' = {t \in bought : t.user # u}
        /\ goal' = [g \in GoalIds |->
                      IF g \in LiveGoals(u)
                        THEN [goal[g] EXCEPT !.state = "deleted", !.current = 0]
                        ELSE goal[g]]
        /\ roundup' = roundup \ {u}
        /\ boost' = [boost EXCEPT ![u] = [boost[u] EXCEPT !.until = -1]]
        /\ streak' = [streak EXCEPT ![u] = NewStreak]
        /\ badges' = [badges EXCEPT ![u] = {}]
        /\ refs' = [refs EXCEPT ![u] = 0]
        /\ referrals' = {x \in referrals : u \notin {x.referrer, x.referee}}
        /\ Finish(r, 200)
    BY <1>3, Zenon DEF CloseCommit, ReferralsWithout
  <2> HIDE DEF added
  <2>2. LockType' /\ FlowType'
    <3>1. 200 \in Replies  BY DEF Replies
    <3>2. Finish(r, 200)  BY <2>1
    <3>3. QED  BY <3>1, <3>2, FinishType, TypeParts
  <2>3. u \in Users  BY DEF TypeOK, Call
  <2> HIDE DEF u
  <2>4. NoLedger \in [LedgerTypes -> Int]  BY DEF NoLedger
  <2>5. NewStreak \in Streak  BY DEF NewStreak, Streak
  <2>6. goal' \in [GoalIds -> Goal]
    <3>1. \A g \in GoalIds :
            [goal[g] EXCEPT !.state = "deleted", !.current = 0] \in Goal
      BY DeletedGoal DEF TypeOK
    <3>2. QED  BY <2>1, <3>1 DEF TypeOK
  <2>7. boost' \in [Users -> Boost]
    <3>1. boost[u] \in Boost  BY <2>3 DEF TypeOK
    <3>2. [boost[u] EXCEPT !.until = -1] \in Boost  BY <3>1 DEF Boost
    <3>3. QED  BY <2>1, <3>2 DEF TypeOK
  <2>8. /\ ledger' \in [Users -> [LedgerTypes -> Int]]
        /\ streak' \in [Users -> Streak]
        /\ badges' \in [Users -> SUBSET Badges]
    BY <2>1, <2>4, <2>5 DEF TypeOK
  <2>9. /\ account' \in [Users -> {"none", "open", "gone"}]
        /\ rows' \in [Users -> Nat] /\ wallet' \in [Users -> Int]
        /\ refs' \in [Users -> Nat]
    <3>1. /\ account' = [account EXCEPT ![u] = "gone"]
          /\ rows' = [rows EXCEPT ![u] = 0]
          /\ wallet' = [wallet EXCEPT ![u] = 0]
          /\ refs' = [refs EXCEPT ![u] = 0]
      BY <2>1
    <3>2. account' \in [Users -> {"none", "open", "gone"}]  BY <3>1 DEF TypeOK
    <3>3. rows' \in [Users -> Nat] /\ refs' \in [Users -> Nat]  BY <3>1 DEF TypeOK
    <3>4. wallet' \in [Users -> Int]
      <4>1. wallet \in [Users -> Int] /\ 0 \in Int  BY DEF TypeOK
      <4>2. QED  BY <3>1, <4>1
    <3>5. QED  BY <3>2, <3>3, <3>4
  <2>10. bought' \subseteq Purchase /\ roundup' \subseteq Users
         /\ referrals' \subseteq [referrer : Users, referee : Users]
    <3>1. bought' \subseteq bought /\ roundup' \subseteq roundup
          /\ referrals' \subseteq referrals
      BY <2>1
    <3>2. QED  BY <3>1 DEF TypeOK
  <2>11. DbType'  BY <2>6, <2>7, <2>8, <2>9, <2>10 DEF DbType
  <2>12. QED  BY <2>2, <2>11, TypeParts
<1>4. QED  BY <1>1, <1>2, <1>3

\* Every step of a handler that is under way keeps the types.
LEMMA ContinueType ==
  ASSUME TypeOK, NEW r \in Requests, Continue(r)
  PROVE  TypeOK'
<1>1. CASE PurchaseDeclined(r) \/ ScoreFails(r) \/ DeadlockVictim(r)
  BY <1>1, RefuseType DEF PurchaseDeclined, ScoreFails, DeadlockVictim, Replies, CacheError
<1>2. QED
  BY <1>1, LockWalletType, LockGoalType, PurchaseInsertType, PurchaseCommitType,
     CreateGoalCommitType, AllocateCommitType, DeleteGoalCommitType, SettingsCommitType,
     RegisterStepType, RegisterCommitType, CloseStepType, CloseCommitType DEF Continue

\* No step leaves the types.
LEMMA TypeInductive == TypeOK /\ [Next]_vars => TypeOK'
<1> SUFFICES ASSUME TypeOK, [Next]_vars PROVE TypeOK'  OBVIOUS
<1>1. CASE \E r \in Requests : Begin(r) \/ Continue(r)  BY <1>1, BeginType, ContinueType
<1>2. CASE Restart
  <2>1. LockType'  BY <1>2 DEF Restart, LockType
  <2>2. FlowType'
    BY <1>2, NothingSeenType DEF Restart, FlowType, TypeOK, Steps, Replies
  <2>3. QED  BY <1>2, <2>1, <2>2, TypeParts, DbUnchangedType DEF Restart
<1>3. CASE Tick
  <2>1. FlowType'  BY <1>3 DEF Tick, FlowType, TypeOK
  <2>2. QED  BY <1>3, <2>1, TypeParts, DbUnchangedType, LocksUnchangedType DEF Tick
<1>4. CASE UNCHANGED vars
  BY <1>4 DEF vars, db, locks, TypeOK
<1>5. QED  BY <1>1, <1>2, <1>3, <1>4 DEF Next, Idle

\* Every variable has its type, in every run of every instance.
THEOREM TypeCorrect == Spec => []TypeOK
<1>1. QED  BY InitType, TypeInductive, PTL DEF Spec

-----------------------------------------------------------------------------
(* The safety of wallets and of idempotency keys.  IInv is the inductive    *)
(* invariant: a request that commits a new balance holds the wallet's lock, *)
(* so what it read is still the balance.                                    *)

FlowInv == WalletHeld /\ WrittenUnderLock /\ CodeHeld /\ StepsOf /\ Registrants

MoneyInv == Newcomers /\ WalletIsLedger /\ NeverOverdrawn

\* The invariant is that of the types, of the flow of requests and of the money.
LEMMA InvParts ==
  /\ IInv <=> TypeOK /\ FlowInv /\ MoneyInv
  /\ IInv' <=> TypeOK' /\ FlowInv' /\ MoneyInv'
BY DEF IInv, FlowInv, MoneyInv

\* A step that writes nothing keeps the balances explained.
LEMMA MoneyUnchanged ==
  ASSUME MoneyInv, UNCHANGED db
  PROVE  MoneyInv'
BY DEF MoneyInv, Newcomers, WalletIsLedger, NeverOverdrawn, db

\* The invariant holds of the database that the server starts on.
LEMMA InitInv == Init => IInv
<1> SUFFICES ASSUME Init PROVE IInv  OBVIOUS
<1>1. FlowInv
  BY CardsAssumption DEF Init, FlowInv, WalletHeld, WrittenUnderLock, CodeHeld, StepsOf,
                         Registrants, Registers, InFlight
<1>2. Newcomers  BY DEF Init, Newcomers
<1>3. WalletIsLedger
  <2>1. WelcomeSats \in Int  BY CardsAssumption
  <2>2. QED  BY <2>1 DEF Init, WalletIsLedger, LedgerSum, NoLedger, LedgerTypes
<1>4. NeverOverdrawn  BY CardsAssumption DEF Init, NeverOverdrawn
<1>5. QED  BY <1>1, <1>2, <1>3, <1>4, InitType, InvParts DEF MoneyInv

-----------------------------------------------------------------------------
(* The flow of requests. *)

\* A request may end if it changed no wallet that another holds, and opened no account
\* but the one it registers.
LEMMA FinishFlow ==
  ASSUME TypeOK, FlowInv, NEW r \in Requests, NEW code, Finish(r, code),
         \A q \in Requests \ {r}, u \in Users : walletLock[u] = q => wallet'[u] = wallet[u],
         \A u \in Users : account[u] # "none" => account'[u] # "none",
         \A u \in Users : account[u] = "none" /\ account'[u] # "none" =>
           Registers(r) /\ u = call[r].user
  PROVE  FlowInv'
<1>1. /\ \A q \in Requests \ {r} : pc'[q] = pc[q] /\ call'[q] = call[q] /\ seen'[q] = seen[q]
      /\ pc'[r] = "done" /\ call'[r] = call[r]
  BY DEF Finish, TypeOK
<1>2. \A u \in Users :
        /\ walletLock'[u] # r /\ codeLock'[u] # r
        /\ \A q \in Requests \ {r} : walletLock'[u] = q <=> walletLock[u] = q
        /\ \A q \in Requests \ {r} : codeLock'[u] = q <=> codeLock[u] = q
  BY CardsAssumption DEF Finish, TypeOK
<1>3. \A q \in Requests : call[q].user \in Users /\ call[q].friend \in Users
                          /\ Payee(q) \in Users
  BY PayeeType DEF TypeOK, Call
<1>4. WalletHeld'
  BY <1>1, <1>2, <1>3 DEF FlowInv, WalletHeld, Payee
<1>5. WrittenUnderLock'
  BY <1>1, <1>2, <1>3 DEF FlowInv, WrittenUnderLock, NewBalance, IsReferred, Payee
<1>6. CodeHeld'
  BY <1>1, <1>2 DEF FlowInv, CodeHeld
<1>7. StepsOf'
  BY <1>1, <1>3 DEF FlowInv, StepsOf
<1>8. Registrants'
  BY <1>1, <1>3 DEF FlowInv, Registrants, Registers, InFlight
<1>9. QED  BY <1>4, <1>5, <1>6, <1>7, <1>8 DEF FlowInv

\* A request refused without a commit keeps the invariant.
LEMMA RefuseInv ==
  ASSUME IInv, NEW r \in Requests, NEW code \in Replies, Refuse(r, code)
  PROVE  IInv'
<1>1. UNCHANGED db /\ Finish(r, code)  BY DEF Refuse
<1>2. UNCHANGED <<wallet, account>>  BY <1>1 DEF db
<1>3. FlowInv'  BY <1>1, <1>2, FinishFlow, InvParts
<1>4. QED  BY <1>1, <1>3, RefuseType, MoneyUnchanged, InvParts

\* A request that arrives holds no lock yet, and knows no balance.
LEMMA ArriveFlow ==
  ASSUME IInv, NEW r \in Requests, Begin(r)
  PROVE  FlowInv'
<1>1. /\ \A q \in Requests \ {r} : pc'[q] = pc[q] /\ call'[q] = call[q] /\ seen'[q] = seen[q]
      /\ pc[r] = "new" /\ call'[r] \in Call
      /\ UNCHANGED <<wallet, account, walletLock, codeLock>>
  BY InvParts, BeginArrives, CardsAssumption
     DEF ArrivedSomehow, Arrived, RegisterArrive, TypeOK, db, locks
<1>2. \/ pc'[r] = "done"
      \/ pc'[r] = "insert" /\ call'[r].op = "register"
      \/ /\ account[call'[r].user] # "none"
         /\ \/ pc'[r] = "insert" /\ call'[r].op = "purchase"
            \/ pc'[r] = "commit" /\ call'[r].op \in {"create_goal", "set_roundup", "boost"}
            \/ pc'[r] = "goal" /\ call'[r].op \in {"allocate", "delete_goal"}
            \/ pc'[r] = "code" /\ call'[r].op = "close"
  BY InvParts, BeginArrives DEF ArrivedSomehow, Arrived, RegisterArrive, TypeOK
<1>3. \A u \in Users : walletLock[u] # r /\ codeLock[u] # r
  BY <1>1, InvParts DEF FlowInv, WalletHeld, CodeHeld
<1>4. WalletHeld'
  BY <1>1, <1>3, InvParts DEF FlowInv, WalletHeld, Payee
<1>5. WrittenUnderLock'
  BY <1>1, <1>2, InvParts DEF FlowInv, WrittenUnderLock, NewBalance, IsReferred, Payee
<1>6. CodeHeld'  BY <1>1, <1>3, InvParts DEF FlowInv, CodeHeld
<1>7. StepsOf'  BY <1>1, <1>2, InvParts DEF FlowInv, StepsOf
<1>8. Registrants'  BY <1>1, <1>2, InvParts DEF FlowInv, Registrants, Registers, InFlight
<1>9. QED  BY <1>4, <1>5, <1>6, <1>7, <1>8 DEF FlowInv

\* Arrivals keep the invariant.
LEMMA BeginInv ==
  ASSUME IInv, NEW r \in Requests, Begin(r)
  PROVE  IInv'
<1>1. UNCHANGED db
  BY BeginArrives, InvParts DEF ArrivedSomehow, Arrived, RegisterArrive
<1>2. QED  BY <1>1, ArriveFlow, BeginType, MoneyUnchanged, InvParts

-----------------------------------------------------------------------------
(* Steps within a handler. *)

\* What a step leaves alone.
LEMMA ProceedKeeps ==
  ASSUME IInv, NEW r \in Requests, NEW step, NEW s, Proceed(r, step, s)
  PROVE  /\ \A q \in Requests \ {r} : pc'[q] = pc[q] /\ seen'[q] = seen[q]
         /\ pc'[r] = step /\ seen'[r] = s
         /\ UNCHANGED <<call, wallet, account>>
         /\ MoneyInv'
BY InvParts, MoneyUnchanged DEF Proceed, TypeOK, db

\* A step past an INSERT, or past a goal's lock, with the wallet and code locks as
\* they were.
LEMMA PlainStepFlow ==
  ASSUME IInv, NEW r \in Requests, NEW step, NEW s, Proceed(r, step, s),
         UNCHANGED <<walletLock, codeLock>>,
         pc[r] \in {"insert", "goal", "referral", "goals"},
         \/ step = "wallet" /\ call[r].op \in {"purchase", "allocate", "delete_goal", "close"}
         \/ step = "commit" /\ call[r].op = "delete_goal" /\ s.pot = 0
         \/ step = "commit" /\ call[r].op = "register" /\ account[call[r].user] = "none"
              /\ SameInsert(r) = {}
         \/ /\ step = "referral" /\ call[r].op = "register"
            /\ account[call[r].user] = "none" /\ SameInsert(r) = {}
            /\ account[call[r].friend] = "open"
         \/ step = "code" /\ call[r].op = "register" /\ pc[r] = "referral"
  PROVE  FlowInv'
<1>1. /\ \A q \in Requests \ {r} : pc'[q] = pc[q] /\ seen'[q] = seen[q]
      /\ pc'[r] = step /\ seen'[r] = s
      /\ UNCHANGED <<call, wallet, account>>
  BY ProceedKeeps
<1>2. \A u \in Users : walletLock[u] # r
  BY InvParts DEF FlowInv, WalletHeld
<1>3. \A u \in Users : codeLock[u] = r => call[r].op = "close" /\ pc[r] = "goals"
  BY InvParts DEF FlowInv, CodeHeld
<1>4. \A q \in Requests : call[q].friend \in Users  BY InvParts DEF TypeOK, Call
<1>5. WalletHeld'  BY <1>1, <1>2, InvParts DEF FlowInv, WalletHeld, Payee
<1>6. WrittenUnderLock'
  BY <1>1, <1>3, <1>4, InvParts DEF FlowInv, WrittenUnderLock, NewBalance, IsReferred, Payee
<1>7. CodeHeld'  BY <1>1, <1>3, InvParts DEF FlowInv, CodeHeld
<1>8. StepsOf'  BY <1>1, InvParts DEF FlowInv, StepsOf
<1>9. Registrants'
  BY <1>1, InvParts DEF FlowInv, Registrants, Registers, InFlight, SameInsert
<1>10. QED  BY <1>5, <1>6, <1>7, <1>8, <1>9 DEF FlowInv

\* A request that waits for nobody may take what it waits for.
LEMMA FreeToGo ==
  ASSUME IInv, NEW r \in Requests, WaitsFor(r) = {}
  PROVE  /\ pc[r] = "insert" => SameInsert(r) = {}
         /\ pc[r] = "code" => codeLock[Payee(r)] \in {Nobody, r}
         /\ pc[r] = "wallet" => walletLock[Payee(r)] \in {Nobody, r}
<1>1. Nobody \notin Requests  BY CardsAssumption
<1>2. CASE pc[r] = "insert"
  <2>1. SameInsert(r) \ {Nobody, r} = {}  BY <1>2 DEF WaitsFor
  <2>2. QED  BY <1>1, <1>2, <2>1 DEF SameInsert
<1>3. CASE pc[r] = "code"  BY <1>3 DEF WaitsFor
<1>4. CASE pc[r] = "wallet"  BY <1>4 DEF WaitsFor
<1>5. QED  BY <1>2, <1>3, <1>4

\* Who gets the wallet's lock reads the balance that is committed.
LEMMA LockWalletInv ==
  ASSUME IInv, NEW r \in Requests, LockWallet(r)
  PROVE  IInv'
<1> DEFINE s == [seen[r] EXCEPT !.balance = wallet[Payee(r)]]
           p == Payee(r)
<1>1. /\ \A q \in Requests \ {r} : pc'[q] = pc[q] /\ seen'[q] = seen[q]
      /\ pc'[r] = "commit" /\ seen'[r] = s
      /\ UNCHANGED <<call, wallet, account>>
      /\ MoneyInv'
  BY ProceedKeeps DEF LockWallet
<1>2. p \in Users /\ s.balance = wallet[p]
  BY InvParts, PayeeType DEF TypeOK, Seen
<1>3. walletLock[p] = Nobody
  BY <1>2, FreeToGo, InvParts DEF LockWallet, FlowInv, WalletHeld
<1>4. /\ walletLock' = [walletLock EXCEPT ![p] = r]
      /\ UNCHANGED codeLock
      /\ pc[r] = "wallet"
  BY DEF LockWallet
<1>5. account[p] # "none"
  BY <1>4, InvParts DEF FlowInv, StepsOf, Registrants, InFlight, Payee
<1> HIDE DEF s, p
<1>6. \A q \in Requests : Payee(q)' = Payee(q)  BY <1>1 DEF Payee
<1>7. Payee(r) = p /\ \A q \in Requests : Payee(q) \in Users
  BY InvParts, PayeeType DEF p
<1>8. \A u \in Users : walletLock'[u] = IF u = p THEN r ELSE walletLock[u]
  BY <1>2, <1>4, InvParts DEF TypeOK
<1>9. WalletHeld'
  <2> SUFFICES ASSUME NEW q \in Requests, NEW u \in Users, walletLock'[u] = q
               PROVE  /\ pc'[q] = "commit" /\ Payee(q)' = u
                      /\ seen'[q].balance = wallet'[u] /\ account'[u] # "none"
    BY DEF WalletHeld
  <2>1. CASE q = r
    <3>1. u = p  BY <1>4, <1>8, <2>1, InvParts DEF FlowInv, WalletHeld
    <3>2. QED  BY <1>1, <1>2, <1>5, <1>6, <1>7, <2>1, <3>1
  <2>2. CASE q # r
    BY <1>1, <1>6, <1>8, <2>2, InvParts DEF FlowInv, WalletHeld
  <2>3. QED  BY <2>1, <2>2
<1>10. WrittenUnderLock'
  <2> SUFFICES ASSUME NEW q \in Requests, pc'[q] = "commit", NewBalance(q)'
               PROVE  walletLock'[Payee(q)'] = q
    BY DEF WrittenUnderLock
  <2>1. CASE q = r  BY <1>2, <1>6, <1>7, <1>8, <2>1
  <2>2. CASE q # r
    <3>1. NewBalance(q)  BY <1>1, <1>4, <2>2 DEF NewBalance, IsReferred
    <3>2. walletLock[Payee(q)] = q
      BY <1>1, <2>2, <3>1, InvParts DEF FlowInv, WrittenUnderLock
    <3>3. QED  BY <1>3, <1>6, <1>7, <1>8, <3>2, CardsAssumption
  <2>3. QED  BY <2>1, <2>2
<1>11. CodeHeld'  BY <1>1, <1>4, InvParts DEF FlowInv, CodeHeld
<1>12. StepsOf'  BY <1>1, <1>4, InvParts DEF FlowInv, StepsOf
<1>13. Registrants'
  BY <1>1, <1>4, InvParts DEF FlowInv, Registrants, Registers, InFlight
<1>14. QED
  BY <1>1, <1>9, <1>10, <1>11, <1>12, <1>13, InvParts, LockWalletType DEF FlowInv

\* A goal's lock is no wallet's.
LEMMA LockGoalInv ==
  ASSUME IInv, NEW r \in Requests, LockGoal(r)
  PROVE  IInv'
<1> DEFINE g    == call[r].goal
           s    == [seen[r] EXCEPT !.pot = goal[g].current]
           step == IF call[r].op = "delete_goal" /\ goal[g].current = 0
                     THEN "commit" ELSE "wallet"
<1>1. CASE g \notin LiveGoals(call[r].user)
  BY <1>1, RefuseInv DEF LockGoal, Replies
<1>2. CASE g \in LiveGoals(call[r].user)
  <2>1. Proceed(r, step, s) /\ UNCHANGED <<walletLock, codeLock>> /\ pc[r] = "goal"
    BY <1>2 DEF LockGoal
  <2>2. s.pot = goal[g].current  BY InvParts DEF TypeOK, Seen
  <2>3. call[r].op \in {"allocate", "delete_goal"}
    BY <2>1, InvParts DEF FlowInv, StepsOf
  <2> HIDE DEF s
  <2>4. FlowInv'  BY <2>1, <2>2, <2>3, PlainStepFlow
  <2>5. QED  BY <2>1, <2>4, ProceedKeeps, LockGoalType, InvParts
<1>3. QED  BY <1>1, <1>2

\* A purchase that inserts its row has no lock yet.
LEMMA PurchaseInsertInv ==
  ASSUME IInv, NEW r \in Requests, PurchaseInsert(r)
  PROVE  IInv'
<1>1. CASE Recorded(r) \/ AccountGone(r)
  BY <1>1, RefuseInv DEF PurchaseInsert, Replies, DuplicateStatus
<1>2. CASE ~ (Recorded(r) \/ AccountGone(r))
  <2>1. /\ Proceed(r, "wallet", seen[r]) /\ UNCHANGED <<walletLock, codeLock>>
        /\ pc[r] = "insert" /\ call[r].op = "purchase"
    BY <1>2 DEF PurchaseInsert, Is, locks
  <2>2. FlowInv'  BY <2>1, PlainStepFlow
  <2>3. QED  BY <2>1, <2>2, ProceedKeeps, PurchaseInsertType, InvParts
<1>3. QED  BY <1>1, <1>2

\* A registration that inserts its user knows that nobody else can refer to it.
LEMMA RegisterInsertInv ==
  ASSUME IInv, NEW r \in Requests, RegisterInsert(r)
  PROVE  IInv'
<1> DEFINE s == [NothingSeen EXCEPT !.refs = refs[call[r].friend]]
<1>1. pc[r] = "insert" /\ call[r].op = "register" /\ SameInsert(r) = {}
  BY FreeToGo DEF RegisterInsert, Is
<1>2. CASE account[call[r].user] # "none"
  BY <1>2, RefuseInv DEF RegisterInsert, Replies
<1>3. CASE account[call[r].user] = "none" /\ account[call[r].friend] = "open"
  <2>1. Proceed(r, "referral", s) /\ UNCHANGED <<walletLock, codeLock>>
    BY <1>3 DEF RegisterInsert, locks
  <2>2. FlowInv'  BY <1>1, <1>3, <2>1, PlainStepFlow
  <2>3. TypeOK'  BY InvParts, RegisterStepType
  <2>4. QED  BY <2>1, <2>2, <2>3, ProceedKeeps, InvParts
<1>4. CASE account[call[r].user] = "none" /\ account[call[r].friend] # "open"
  <2>1. Proceed(r, "commit", NothingSeen) /\ UNCHANGED <<walletLock, codeLock>>
    BY <1>4 DEF RegisterInsert, locks
  <2>2. FlowInv'  BY <1>1, <1>4, <2>1, PlainStepFlow
  <2>3. TypeOK'  BY InvParts, RegisterStepType
  <2>4. QED  BY <2>1, <2>2, <2>3, ProceedKeeps, InvParts
<1>5. QED  BY <1>2, <1>3, <1>4

\* The INSERT of the referral takes no lock.
LEMMA RegisterReferralInv ==
  ASSUME IInv, NEW r \in Requests, RegisterReferral(r)
  PROVE  IInv'
<1>1. CASE account[call[r].friend] # "open"
  BY <1>1, RefuseInv DEF RegisterReferral, Replies
<1>2. CASE account[call[r].friend] = "open"
  <2>1. /\ Proceed(r, "code", seen[r]) /\ UNCHANGED <<walletLock, codeLock>>
        /\ pc[r] = "referral" /\ call[r].op = "register"
    BY <1>2 DEF RegisterReferral, Is, locks
  <2>2. FlowInv'  BY <2>1, PlainStepFlow
  <2>3. TypeOK'  BY InvParts, RegisterStepType
  <2>4. QED  BY <2>1, <2>2, <2>3, ProceedKeeps, InvParts
<1>3. QED  BY <1>1, <1>2

\* A code's lock, taken by a registration or by a deletion.
LEMMA LockCodeInv ==
  ASSUME IInv, NEW r \in Requests, RegisterLockCode(r) \/ CloseLockCode(r)
  PROVE  IInv'
<1> DEFINE p == Payee(r)
           step == IF call[r].op = "register" THEN "wallet" ELSE "goals"
<1>1. /\ Proceed(r, step, seen[r])
      /\ codeLock' = [codeLock EXCEPT ![p] = r] /\ UNCHANGED walletLock
      /\ pc[r] = "code" /\ call[r].op \in {"register", "close"}
      /\ codeLock[p] \in {Nobody, r}
  BY FreeToGo DEF RegisterLockCode, CloseLockCode, Is, Payee
<1>2. /\ \A q \in Requests \ {r} : pc'[q] = pc[q] /\ seen'[q] = seen[q]
      /\ pc'[r] = step /\ seen'[r] = seen[r]
      /\ UNCHANGED <<call, wallet, account>>
      /\ MoneyInv'
  BY <1>1, ProceedKeeps
<1>3. p \in Users  BY PayeeType, InvParts
<1>4. \A u \in Users : codeLock'[u] = IF u = p THEN r ELSE codeLock[u]
  BY <1>1, <1>3, InvParts DEF TypeOK
<1>5. codeLock[p] = Nobody  BY <1>1, <1>3, InvParts DEF FlowInv, CodeHeld
<1>6. \A u \in Users : walletLock[u] # r  BY <1>1, InvParts DEF FlowInv, WalletHeld
<1>7. /\ call[r].op = "register" => p = call[r].friend /\ call[r].friend # call[r].user
      /\ call[r].op = "close" => p = call[r].user
  BY <1>1, InvParts DEF Payee, FlowInv, StepsOf
<1>8. \A q \in Requests : call[q].friend \in Users  BY InvParts DEF TypeOK, Call
<1> HIDE DEF p
<1>9. WalletHeld'  BY <1>1, <1>2, <1>6, InvParts DEF FlowInv, WalletHeld, Payee
<1>10. WrittenUnderLock'
  <2> SUFFICES ASSUME NEW q \in Requests, pc'[q] = "commit", NewBalance(q)'
               PROVE  walletLock'[Payee(q)'] = q
    BY DEF WrittenUnderLock
  <2>1. q # r  BY <1>2
  <2>2. NewBalance(q)  BY <1>2, <1>4, <1>8, <2>1 DEF NewBalance, IsReferred
  <2>3. QED  BY <1>1, <1>2, <2>1, <2>2, InvParts DEF FlowInv, WrittenUnderLock, Payee
<1>11. CodeHeld'
  <2> SUFFICES ASSUME NEW q \in Requests, NEW u \in Users, codeLock'[u] = q
               PROVE  \/ /\ call'[q].op = "register" /\ call'[q].friend = u
                         /\ call'[q].user # u
                         /\ pc'[q] \in {"wallet", "commit"}
                      \/ /\ call'[q].op = "close" /\ call'[q].user = u
                         /\ pc'[q] \in {"goals", "wallet", "commit"}
    BY DEF CodeHeld
  <2>1. CASE u = p  BY <1>1, <1>2, <1>3, <1>4, <1>7, <2>1
  <2>2. CASE u # p
    <3>1. codeLock[u] = q /\ q # r
      BY <1>1, <1>4, <2>2, InvParts DEF FlowInv, CodeHeld
    <3>2. QED  BY <1>2, <3>1, InvParts DEF FlowInv, CodeHeld
  <2>3. QED  BY <2>1, <2>2
<1>12. StepsOf'  BY <1>1, <1>2, InvParts DEF FlowInv, StepsOf
<1>13. Registrants'
  BY <1>1, <1>2, InvParts DEF FlowInv, Registrants, Registers, InFlight
<1>14. TypeOK'  BY InvParts, RegisterStepType, CloseStepType
<1>15. QED
  BY <1>2, <1>9, <1>10, <1>11, <1>12, <1>13, <1>14, InvParts DEF FlowInv

\* The locks on the goals are no wallet's.
LEMMA CloseLockGoalsInv ==
  ASSUME IInv, NEW r \in Requests, CloseLockGoals(r)
  PROVE  IInv'
<1>1. /\ Proceed(r, "wallet", seen[r]) /\ UNCHANGED <<walletLock, codeLock>>
      /\ pc[r] = "goals" /\ call[r].op = "close"
  BY DEF CloseLockGoals, Is
<1>2. FlowInv'  BY <1>1, PlainStepFlow
<1>3. QED  BY <1>1, <1>2, ProceedKeeps, CloseStepType, InvParts

-----------------------------------------------------------------------------
(* Commits. *)

\* What a request that commits a new balance read is the balance.
LEMMA ReadIsCurrent ==
  ASSUME IInv, NEW r \in Requests, pc[r] = "commit", NewBalance(r)
  PROVE  /\ Payee(r) \in Users
         /\ walletLock[Payee(r)] = r
         /\ seen[r].balance = wallet[Payee(r)]
         /\ account[Payee(r)] # "none"
BY InvParts, PayeeType DEF FlowInv, WrittenUnderLock, WalletHeld

\* A commit that moves `sats` on one balance, with the ledger, keeps the money right
\* as long as it does not take more than is there.
LEMMA MoveInv ==
  ASSUME IInv, NEW r \in Requests, NEW code, Finish(r, code), TypeOK',
         pc[r] = "commit", NewBalance(r), NEW sats \in Int,
         wallet' = [wallet EXCEPT ![Payee(r)] = seen[r].balance + sats],
         LedgerSum(ledger'[Payee(r)]) = LedgerSum(ledger[Payee(r)]) + sats,
         \A v \in Users \ {Payee(r)} : ledger'[v] = ledger[v],
         wallet[Payee(r)] + sats >= 0,
         UNCHANGED account
  PROVE  IInv'
<1> DEFINE p == Payee(r)
<1>1. p \in Users /\ walletLock[p] = r /\ seen[r].balance = wallet[p]
      /\ account[p] # "none"
  BY ReadIsCurrent
<1>2. \A v \in Users : wallet'[v] = IF v = p THEN wallet[p] + sats ELSE wallet[v]
  BY <1>1, InvParts DEF TypeOK
<1>3. LedgerSum(ledger'[p]) = LedgerSum(ledger[p]) + sats
      /\ \A v \in Users \ {p} : ledger'[v] = ledger[v]
      /\ wallet[p] + sats >= 0
  OBVIOUS
<1> HIDE DEF p
<1>4. FlowInv'
  <2>1. \A q \in Requests \ {r}, u \in Users : walletLock[u] = q => wallet'[u] = wallet[u]
    BY <1>1, <1>2
  <2>2. QED  BY <2>1, FinishFlow, InvParts
<1>5. Newcomers'  BY <1>1, <1>2, <1>3, InvParts DEF MoneyInv, Newcomers
<1>6. WalletIsLedger'
  <2> SUFFICES ASSUME NEW v \in Users PROVE wallet'[v] = LedgerSum(ledger'[v])
    BY DEF WalletIsLedger, LedgerSum
  <2>1. wallet[v] = LedgerSum(ledger[v])  BY InvParts DEF MoneyInv, WalletIsLedger
  <2>2. CASE v = p  BY <1>2, <1>3, <2>1, <2>2
  <2>3. CASE v # p  BY <1>2, <1>3, <2>1, <2>3
  <2>4. QED  BY <2>2, <2>3
<1>7. NeverOverdrawn'  BY <1>2, <1>3, InvParts DEF MoneyInv, NeverOverdrawn
<1>8. QED  BY <1>4, <1>5, <1>6, <1>7, InvParts DEF MoneyInv

\* A commit that touches no balance.
LEMMA OtherCommitInv ==
  ASSUME IInv, NEW r \in Requests, NEW code, Finish(r, code), TypeOK',
         UNCHANGED <<account, wallet, ledger>>
  PROVE  IInv'
<1>1. FlowInv'  BY FinishFlow, InvParts
<1>2. MoneyInv'  BY InvParts DEF MoneyInv, Newcomers, WalletIsLedger, NeverOverdrawn
<1>3. QED  BY <1>1, <1>2, InvParts

\* A purchase's commit adds what it enters: the balance it read is still the balance.
LEMMA PurchaseCommitInv ==
  ASSUME IInv, NEW r \in Requests, PurchaseCommit(r)
  PROVE  IInv'
<1> DEFINE u     == call[r].user
           spare == IF u \in roundup THEN call[r].spare ELSE 0
           paid  == Entry(ledger, u, "cashback", Reward(r))
<1>1. /\ Finish(r, 200) /\ UNCHANGED account
      /\ pc[r] = "commit" /\ call[r].op = "purchase"
      /\ wallet' = [wallet EXCEPT ![u] = seen[r].balance + Reward(r) + spare]
      /\ ledger' = Entry(paid, u, "round_up", spare)
  BY DEF PurchaseCommit, Is
<1>2. NewBalance(r) /\ Payee(r) = u  BY <1>1 DEF NewBalance, Payee
<1>3. u \in Users /\ seen[r].balance = wallet[u]  BY <1>1, <1>2, ReadIsCurrent
<1>4. /\ Reward(r) \in Nat /\ spare \in Nat
      /\ Reward(r) \in Int /\ spare \in Int
  <2>1. Reward(r) \in Nat /\ spare \in Nat  BY PaymentType, InvParts DEF TypeOK, Call
  <2>2. QED  BY <2>1
<1>5. wallet \in [Users -> Int] /\ ledger \in [Users -> [LedgerTypes -> Int]]
      /\ "cashback" \in LedgerTypes /\ "round_up" \in LedgerTypes
  BY InvParts DEF TypeOK, LedgerTypes
<1> DEFINE sats == Reward(r) + spare
<1> HIDE DEF u, spare
<1>6. /\ paid \in [Users -> [LedgerTypes -> Int]]
      /\ LedgerSum(paid[u]) = LedgerSum(ledger[u]) + Reward(r)
      /\ \A v \in Users \ {u} : paid[v] = ledger[v]
  BY <1>3, <1>4, <1>5, EntryAdds
<1>7. LedgerSum(ledger'[u]) = LedgerSum(paid[u]) + spare
      /\ \A v \in Users \ {u} : ledger'[v] = paid[v]
  <2>1. ledger' = Entry(paid, u, "round_up", spare)  BY <1>1
  <2>2. /\ paid \in [Users -> [LedgerTypes -> Int]] /\ u \in Users
        /\ "round_up" \in LedgerTypes /\ spare \in Int
    BY <1>3, <1>4, <1>5, <1>6
  <2> HIDE DEF paid
  <2>3. QED  BY <2>1, <2>2, EntryAdds
<1>8. LedgerSum(ledger[u]) \in Int
  BY <1>3, <1>5 DEF LedgerSum, LedgerTypes
<1>9. wallet[u] \in Int /\ wallet[u] >= 0
  BY <1>3, <1>5, InvParts DEF MoneyInv, NeverOverdrawn
<1> HIDE DEF paid
<1>10. sats \in Int /\ seen[r].balance + Reward(r) + spare = seen[r].balance + sats
       /\ wallet[u] + sats >= 0
       /\ LedgerSum(ledger'[u]) = LedgerSum(ledger[u]) + sats
  BY <1>3, <1>4, <1>6, <1>7, <1>8, <1>9
<1> HIDE DEF sats
<1>11. \A v \in Users \ {u} : ledger'[v] = ledger[v]  BY <1>6, <1>7
<1>12. TypeOK'  BY PurchaseCommitType, InvParts
<1>13. wallet' = [wallet EXCEPT ![Payee(r)] = seen[r].balance + sats]
  BY <1>1, <1>2, <1>10
<1>14. QED  BY <1>1, <1>2, <1>10, <1>11, <1>12, <1>13, MoveInv

\* An allocation takes away what it has checked.
LEMMA AllocateCommitInv ==
  ASSUME IInv, NEW r \in Requests, AllocateCommit(r)
  PROVE  IInv'
<1> DEFINE c == call[r]
<1>1. CASE ~ Affordable(r)  BY <1>1, RefuseInv DEF AllocateCommit, Replies
<1>2. CASE Affordable(r)
  <2>1. /\ Finish(r, 200) /\ UNCHANGED account
        /\ pc[r] = "commit" /\ c.op = "allocate"
        /\ wallet' = [wallet EXCEPT ![c.user] = seen[r].balance - c.amount]
        /\ ledger' = Entry(ledger, c.user, "goal_allocation", - c.amount)
    BY <1>2 DEF AllocateCommit, Is
  <2>2. NewBalance(r) /\ Payee(r) = c.user  BY <2>1 DEF NewBalance, Payee
  <2>3. c.user \in Users /\ seen[r].balance = wallet[c.user]
    BY <2>1, <2>2, ReadIsCurrent
  <2>4. c.amount \in Nat /\ wallet[c.user] \in Int
    BY <2>3, InvParts DEF TypeOK, Call
  <2>5. /\ - c.amount \in Int
        /\ seen[r].balance - c.amount = seen[r].balance + (- c.amount)
        /\ wallet[c.user] + (- c.amount) >= 0
    BY <1>2, <2>3, <2>4 DEF Affordable
  <2>6. /\ LedgerSum(ledger'[c.user]) = LedgerSum(ledger[c.user]) + (- c.amount)
        /\ \A v \in Users \ {c.user} : ledger'[v] = ledger[v]
    <3>1. "goal_allocation" \in LedgerTypes  BY DEF LedgerTypes
    <3>2. ledger \in [Users -> [LedgerTypes -> Int]]  BY InvParts DEF TypeOK
    <3>3. QED  BY <2>1, <2>3, <2>5, <3>1, <3>2, EntryAdds
  <2>7. TypeOK'  BY AllocateCommitType, InvParts
  <2>8. QED  BY <2>1, <2>2, <2>5, <2>6, <2>7, MoveInv
<1>3. QED  BY <1>1, <1>2

\* A goal's deletion gives back what was in it.
LEMMA DeleteGoalCommitInv ==
  ASSUME IInv, NEW r \in Requests, DeleteGoalCommit(r)
  PROVE  IInv'
<1> DEFINE u   == call[r].user
           pot == seen[r].pot
<1>1. /\ Finish(r, 200) /\ UNCHANGED account
      /\ pc[r] = "commit" /\ call[r].op = "delete_goal"
  BY DEF DeleteGoalCommit, Is
<1>2. TypeOK'  BY DeleteGoalCommitType, InvParts
<1>3. CASE pot = 0
  BY <1>1, <1>2, <1>3, OtherCommitInv DEF DeleteGoalCommit
<1>4. CASE pot # 0
  <2>1. /\ wallet' = [wallet EXCEPT ![u] = seen[r].balance + pot]
        /\ ledger' = Entry(ledger, u, "goal_allocation", pot)
    BY <1>4 DEF DeleteGoalCommit
  <2>2. NewBalance(r) /\ Payee(r) = u  BY <1>1, <1>4 DEF NewBalance, Payee
  <2>3. u \in Users  BY <1>1, <2>2, ReadIsCurrent
  <2>4. pot \in Nat /\ wallet[u] \in Int  BY <2>3, InvParts DEF TypeOK, Seen
  <2>5. wallet[u] + pot >= 0
    BY <2>3, <2>4, InvParts DEF MoneyInv, NeverOverdrawn
  <2>6. /\ LedgerSum(ledger'[u]) = LedgerSum(ledger[u]) + pot
        /\ \A v \in Users \ {u} : ledger'[v] = ledger[v]
    <3>1. "goal_allocation" \in LedgerTypes  BY DEF LedgerTypes
    <3>2. ledger \in [Users -> [LedgerTypes -> Int]] /\ pot \in Int
      BY <2>4, InvParts DEF TypeOK
    <3> HIDE DEF u, pot
    <3>3. QED  BY <2>1, <2>3, <3>1, <3>2, EntryAdds
  <2>7. pot \in Int  BY <2>4
  <2>8. QED  BY <1>1, <1>2, <2>1, <2>2, <2>5, <2>6, <2>7, MoveInv
<1>5. QED  BY <1>3, <1>4

\* A registration opens an account that nobody holds a lock of.
LEMMA RegisterCommitInv ==
  ASSUME IInv, NEW r \in Requests, RegisterCommit(r)
  PROVE  IInv'
<1> DEFINE u == call[r].user
           f == call[r].friend
<1>1. /\ Finish(r, 200) /\ account' = [account EXCEPT ![u] = "open"]
      /\ pc[r] = "commit" /\ call[r].op = "register"
  BY DEF RegisterCommit, Is
<1>2. u \in Users /\ f \in Users  BY InvParts DEF TypeOK, Call
<1>3. Registers(r) /\ account[u] = "none"
  BY <1>1, InvParts DEF FlowInv, Registrants, Registers
<1>4. wallet[u] = 0 /\ ledger[u] = NoLedger
  BY <1>2, <1>3, InvParts DEF MoneyInv, Newcomers
<1>5. TypeOK'  BY RegisterCommitType, InvParts
<1>6. \A v \in Users : account'[v] = IF v = u THEN "open" ELSE account[v]
  BY <1>1, <1>2, InvParts DEF TypeOK
<1>7. \A v \in Users, q \in Requests : walletLock[v] = q => v # u
  BY <1>3, InvParts DEF FlowInv, WalletHeld
<1>8. CASE IsReferred(r)
  <2>1. f # u  BY <1>1, <1>2, <1>8, InvParts DEF IsReferred, FlowInv, CodeHeld
  <2>2. NewBalance(r) /\ Payee(r) = f  BY <1>1, <1>8 DEF NewBalance, Payee
  <2>3. walletLock[f] = r /\ seen[r].balance = wallet[f] /\ account[f] # "none"
    BY <1>1, <2>2, ReadIsCurrent
  <2> DEFINE paid == Entry(ledger, f, "referral_bonus", ReferrerSats)
  <2>4. /\ wallet' = [wallet EXCEPT ![f] = seen[r].balance + ReferrerSats,
                                    ![u] = WelcomeSats]
        /\ ledger' = Entry(paid, u, "referral_welcome", WelcomeSats)
    BY <1>8 DEF RegisterCommit
  <2>5. /\ ReferrerSats \in Nat /\ WelcomeSats \in Nat
        /\ ReferrerSats \in Int /\ WelcomeSats \in Int
        /\ "referral_bonus" \in LedgerTypes /\ "referral_welcome" \in LedgerTypes
    <3>1. ReferrerSats \in Nat /\ WelcomeSats \in Nat  BY CardsAssumption
    <3>2. QED  BY <3>1 DEF LedgerTypes
  <2>6. wallet \in [Users -> Int] /\ ledger \in [Users -> [LedgerTypes -> Int]]
    BY InvParts DEF TypeOK
  <2> HIDE DEF u, f
  <2>7. /\ paid \in [Users -> [LedgerTypes -> Int]]
        /\ LedgerSum(paid[f]) = LedgerSum(ledger[f]) + ReferrerSats
        /\ \A v \in Users \ {f} : paid[v] = ledger[v]
    <3>1. f \in Users /\ "referral_bonus" \in LedgerTypes /\ ReferrerSats \in Int
      BY <1>2, <2>5
    <3>2. QED  BY ONLY <2>6, <3>1, EntryAdds, SMT DEF paid
  <2> HIDE DEF paid
  <2>8. /\ LedgerSum(ledger'[u]) = LedgerSum(paid[u]) + WelcomeSats
        /\ \A v \in Users \ {u} : ledger'[v] = paid[v]
    BY <1>2, <2>4, <2>5, <2>7, EntryAdds
  <2>9. \A v \in Users : wallet'[v] = IF v = u THEN WelcomeSats
                                      ELSE IF v = f THEN wallet[f] + ReferrerSats
                                      ELSE wallet[v]
    BY <1>2, <2>1, <2>3, <2>4, <2>6
  <2>10. FlowInv'
    <3>1. \A q \in Requests \ {r}, v \in Users :
            walletLock[v] = q => wallet'[v] = wallet[v]
      BY <1>7, <2>3, <2>9
    <3>2. QED  BY <1>1, <1>3, <1>6, <3>1, FinishFlow, InvParts DEF u
  <2>11. Newcomers'
    BY <1>6, <2>1, <2>3, <2>7, <2>8, <2>9, InvParts DEF MoneyInv, Newcomers
  <2>12. WalletIsLedger'
    <3> SUFFICES ASSUME NEW v \in Users PROVE wallet'[v] = LedgerSum(ledger'[v])
      BY DEF WalletIsLedger, LedgerSum
    <3>1. wallet[v] = LedgerSum(ledger[v]) /\ wallet[v] \in Int
      BY <2>6, InvParts DEF MoneyInv, WalletIsLedger
    <3>2. CASE v = u
      <4>1. paid[v] = ledger[v]  BY <2>1, <2>7, <3>2
      <4>2. QED  BY <1>4, <2>5, <2>8, <2>9, <3>1, <3>2, <4>1
    <3>3. CASE v = f  BY <2>1, <2>7, <2>8, <2>9, <3>1, <3>3
    <3>4. CASE v # u /\ v # f  BY <2>7, <2>8, <2>9, <3>1, <3>4
    <3>5. QED  BY <3>2, <3>3, <3>4
  <2>13. NeverOverdrawn'
    <3>1. \A v \in Users : wallet[v] \in Int /\ wallet[v] >= 0
      BY <2>6, InvParts DEF MoneyInv, NeverOverdrawn
    <3>2. QED  BY <1>2, <2>5, <2>9, <3>1 DEF NeverOverdrawn
  <2>14. QED  BY <1>5, <2>10, <2>11, <2>12, <2>13, InvParts DEF MoneyInv
<1>9. CASE ~ IsReferred(r)
  <2>1. UNCHANGED <<wallet, ledger>>  BY <1>9 DEF RegisterCommit
  <2>2. FlowInv'  BY <1>1, <1>3, <1>6, <2>1, FinishFlow, InvParts
  <2>3. MoneyInv'
    BY <1>6, <2>1, InvParts DEF MoneyInv, Newcomers, WalletIsLedger, NeverOverdrawn
  <2>4. QED  BY <1>5, <2>2, <2>3, InvParts
<1>10. QED  BY <1>8, <1>9

\* A deletion empties a wallet whose lock it holds.
LEMMA CloseCommitInv ==
  ASSUME IInv, NEW r \in Requests, CloseCommit(r)
  PROVE  IInv'
<1> DEFINE u     == call[r].user
           added == rows[u] # seen[r].rows \/ ~ LiveGoals(u) \subseteq seen[r].goals
<1>1. CASE account[u] = "gone"
  <2>1. Refuse(r, 200)  BY <1>1 DEF CloseCommit
  <2>2. QED  BY <2>1, RefuseInv DEF Replies
<1>2. CASE account[u] # "gone" /\ added
  <2>1. Refuse(r, 500)  BY <1>2, Zenon DEF CloseCommit
  <2>2. QED  BY <2>1, RefuseInv DEF Replies
<1>3. CASE account[u] # "gone" /\ ~ added
  <2>1. /\ account' = [account EXCEPT ![u] = "gone"]
        /\ wallet' = [wallet EXCEPT ![u] = 0]
        /\ ledger' = [ledger EXCEPT ![u] = NoLedger]
        /\ Finish(r, 200)
        /\ pc[r] = "commit" /\ call[r].op = "close"
    BY <1>3, Zenon DEF CloseCommit, Is
  <2>2. NewBalance(r) /\ Payee(r) = u  BY <2>1 DEF NewBalance, Payee
  <2>3. u \in Users /\ walletLock[u] = r /\ account[u] # "none"
    BY <2>1, <2>2, ReadIsCurrent
  <2> HIDE DEF u, added
  <2>4. \A v \in Users :
          /\ account'[v] = IF v = u THEN "gone" ELSE account[v]
          /\ wallet'[v] = IF v = u THEN 0 ELSE wallet[v]
          /\ ledger'[v] = IF v = u THEN NoLedger ELSE ledger[v]
    BY <2>1, <2>3, InvParts DEF TypeOK
  <2>5. FlowInv'
    <3>1. \A q \in Requests \ {r}, v \in Users :
            walletLock[v] = q => wallet'[v] = wallet[v]
      BY <2>3, <2>4
    <3>2. QED  BY <2>1, <2>3, <2>4, <3>1, FinishFlow, InvParts
  <2>6. LedgerSum(NoLedger) = 0  BY DEF LedgerSum, NoLedger, LedgerTypes
  <2>7. WalletIsLedger'
    <3> SUFFICES ASSUME NEW v \in Users PROVE wallet'[v] = LedgerSum(ledger'[v])
      BY DEF WalletIsLedger, LedgerSum
    <3>1. wallet[v] = LedgerSum(ledger[v])  BY InvParts DEF MoneyInv, WalletIsLedger
    <3>2. CASE v = u  BY <2>4, <2>6, <3>2
    <3>3. CASE v # u  BY <2>4, <3>1, <3>3
    <3>4. QED  BY <3>2, <3>3
  <2>8. Newcomers' /\ NeverOverdrawn'
    BY <2>4, InvParts DEF MoneyInv, Newcomers, NeverOverdrawn
  <2>9. QED  BY <2>5, <2>7, <2>8, CloseCommitType, InvParts DEF MoneyInv
<1>4. QED  BY <1>1, <1>2, <1>3

\* The commits that move no balance.
LEMMA PlainCommitInv ==
  ASSUME IInv, NEW r \in Requests,
         CreateGoalCommit(r) \/ RoundupCommit(r) \/ BoostCommit(r)
  PROVE  IInv'
<1>1. CASE Refuse(r, 500)  BY <1>1, RefuseInv DEF Replies
<1>2. CASE ~ Refuse(r, 500)
  <2>1. Finish(r, 200) /\ UNCHANGED <<account, wallet, ledger>>
    BY <1>2 DEF CreateGoalCommit, RoundupCommit, BoostCommit
  <2>2. TypeOK'  BY CreateGoalCommitType, SettingsCommitType, InvParts
  <2>3. QED  BY <2>1, <2>2, OtherCommitInv
<1>3. QED  BY <1>1, <1>2

\* Every step of a handler that is under way keeps the invariant.
LEMMA ContinueInv ==
  ASSUME IInv, NEW r \in Requests, Continue(r)
  PROVE  IInv'
<1>1. CASE PurchaseDeclined(r) \/ ScoreFails(r) \/ DeadlockVictim(r)
  BY <1>1, RefuseInv DEF PurchaseDeclined, ScoreFails, DeadlockVictim, Replies, CacheError
<1>2. QED
  BY <1>1, LockWalletInv, LockGoalInv, PurchaseInsertInv, PurchaseCommitInv,
     PlainCommitInv, AllocateCommitInv, DeleteGoalCommitInv, RegisterInsertInv,
     RegisterReferralInv, LockCodeInv, RegisterCommitInv, CloseLockGoalsInv,
     CloseCommitInv DEF Continue

\* The invariant is inductive,
LEMMA Inductive == IInv /\ [Next]_vars => IInv'
<1> SUFFICES ASSUME IInv, [Next]_vars PROVE IInv'  OBVIOUS
<1>1. TypeOK'  BY TypeInductive, InvParts
<1>2. CASE \E r \in Requests : Begin(r) \/ Continue(r)  BY <1>2, BeginInv, ContinueInv
<1>3. CASE Restart
  <2>1. \A r \in Requests : pc'[r] \in {"new", "done"}
    BY <1>3, InvParts DEF Restart, InFlight, TypeOK
  <2>2. UNCHANGED <<wallet, account>>  BY <1>3 DEF Restart, db
  <2>3. \A u \in Users, r \in Requests : walletLock'[u] # r /\ codeLock'[u] # r
    BY <1>3, CardsAssumption DEF Restart
  <2>4. FlowInv'
    BY <2>1, <2>2, <2>3 DEF FlowInv, WalletHeld, WrittenUnderLock, CodeHeld, StepsOf,
                            Registrants, Registers, InFlight
  <2>5. QED  BY <1>1, <1>3, <2>4, MoneyUnchanged, InvParts DEF Restart
<1>4. CASE Tick \/ UNCHANGED vars
  <2>1. UNCHANGED <<db, locks, pc, call, seen>>  BY <1>4 DEF Tick, vars
  <2>2. FlowInv'
    BY <2>1, InvParts DEF db, locks, FlowInv, WalletHeld, WrittenUnderLock, NewBalance,
                          IsReferred, Payee, CodeHeld, StepsOf, Registrants, Registers,
                          InFlight
  <2>3. QED  BY <1>1, <2>1, <2>2, MoneyUnchanged, InvParts
<1>5. QED  BY <1>2, <1>3, <1>4 DEF Next, Idle

\* so it holds for ever.
LEMMA IInvAlways == Spec => []IInv
<1>1. QED  BY InitInv, Inductive, PTL DEF Spec

\* No update of a balance is lost: whatever requests interleave, fail or are cut off by
\* a restart, a wallet holds the sum of its ledger rows (services.py:43-79).
THEOREM BalancesExplained == Spec => []WalletIsLedger
<1>1. IInv => WalletIsLedger  BY DEF IInv
<1>2. QED  BY <1>1, IInvAlways, PTL

\* No interleaving of allocations, deletions and payments overdraws a wallet
\* (goals.py:66-69).
THEOREM NothingOverdrawn == Spec => []NeverOverdrawn
<1>1. IInv => NeverOverdrawn  BY DEF IInv
<1>2. QED  BY <1>1, IInvAlways, PTL

-----------------------------------------------------------------------------
(* Idempotency keys. *)

KeysInv == KeysPending /\ PaidOnce

\* A step that inserts no purchase and records none.
LEMMA KeysKept ==
  ASSUME IInv, KeysInv, bought' \subseteq bought,
         \A q \in Requests : Inserted(q)' => Inserted(q) /\ call'[q] = call[q]
  PROVE  KeysInv'
<1>1. KeysPending'  BY DEF KeysInv, KeysPending, SameKey
<1>2. PaidOnce'  BY DEF KeysInv, PaidOnce
<1>3. QED  BY <1>1, <1>2 DEF KeysInv

\* A transaction that ends without a new purchase leaves no key pending.
LEMMA FinishKeys ==
  ASSUME IInv, KeysInv, NEW r \in Requests, NEW code, Finish(r, code),
         bought' \subseteq bought
  PROVE  KeysInv'
<1>1. \A q \in Requests : Inserted(q)' => Inserted(q) /\ call'[q] = call[q]
  BY InvParts DEF Finish, Inserted, TypeOK
<1>2. QED  BY <1>1, KeysKept

\* A request that arrives has inserted nothing.
LEMMA BeginKeys ==
  ASSUME IInv, KeysInv, NEW r \in Requests, Begin(r)
  PROVE  KeysInv'
<1>1. /\ \A q \in Requests \ {r} : pc'[q] = pc[q] /\ call'[q] = call[q]
      /\ UNCHANGED bought
  BY InvParts, BeginArrives DEF ArrivedSomehow, Arrived, RegisterArrive, TypeOK, db
<1>2. ~ Inserted(r)'
  <2>1. pc \in [Requests -> Steps]
    BY InvParts DEF TypeOK
  <2>2. CASE ArrivedSomehow(r)
    <3>1. pc'[r] \in {"wallet", "commit"} => call'[r].op # "purchase"
      BY <2>1, <2>2, InvParts DEF ArrivedSomehow, Arrived, TypeOK
    <3> QED BY <3>1 DEF Inserted
  <2>3. CASE RegisterArrive(r)
    BY <2>1, <2>3 DEF RegisterArrive, Inserted
  <2> QED BY <2>2, <2>3, BeginArrives, InvParts
<1>3. QED  BY <1>1, <1>2, KeysKept DEF Inserted

\* A handler that moves on has its key inserted, or has none.
LEMMA ProceedKeys ==
  ASSUME IInv, KeysInv, NEW r \in Requests, NEW step, NEW s, Proceed(r, step, s),
         Inserted(r) \/ call[r].op # "purchase" \/ step \notin {"wallet", "commit"}
           \/ call[r].key = NoKey
  PROVE  KeysInv'
<1>1. \A q \in Requests : Inserted(q)' => Inserted(q) /\ call'[q] = call[q]
  BY InvParts DEF Proceed, Inserted, TypeOK
<1>2. UNCHANGED bought  BY DEF Proceed, db
<1>3. QED  BY <1>1, <1>2, KeysKept

\* The INSERT waits for others of the same key, and finds those on record.
LEMMA PurchaseInsertKeys ==
  ASSUME IInv, KeysInv, NEW r \in Requests, PurchaseInsert(r)
  PROVE  KeysInv'
<1>1. CASE Recorded(r) \/ AccountGone(r)
  <2>1. PICK code : Refuse(r, code)  BY <1>1 DEF PurchaseInsert
  <2>2. QED  BY <2>1, FinishKeys DEF Refuse, db
<1>2. CASE ~ (Recorded(r) \/ AccountGone(r))
  <2>1. /\ Proceed(r, "wallet", seen[r]) /\ pc[r] = "insert"
        /\ call[r].op = "purchase" /\ SameInsert(r) = {}
    BY <1>2, FreeToGo DEF PurchaseInsert, Is
  <2>2. CASE call[r].key = NoKey  BY <2>1, <2>2, ProceedKeys
  <2>3. CASE call[r].key # NoKey
    <3>1. /\ \A q \in Requests \ {r} : Inserted(q)' <=> Inserted(q)
          /\ UNCHANGED <<bought, call>>
      BY <2>1, InvParts DEF Proceed, Inserted, TypeOK, db
    <3>2. \A t \in bought : ~ SameKey(t, call[r])
      BY <1>2, <2>3 DEF Recorded, SameKey
    <3>3. \A q \in Requests \ {r} : Inserted(q) => ~ SameKey(call[q], call[r])
      BY <2>1, <2>3 DEF SameInsert, Inserted, SameKey
    <3>4. KeysPending'
      BY <3>1, <3>2, <3>3 DEF KeysInv, KeysPending, SameKey
    <3>5. PaidOnce'  BY <3>1 DEF KeysInv, PaidOnce
    <3>6. QED  BY <3>4, <3>5 DEF KeysInv
  <2>4. QED  BY <2>2, <2>3
<1>3. QED  BY <1>1, <1>2

\* A purchase's commit puts on record the one row of its key.
LEMMA PurchaseCommitKeys ==
  ASSUME IInv, KeysInv, NEW r \in Requests, PurchaseCommit(r)
  PROVE  KeysInv'
<1>1. PICK tx : /\ bought' = bought \cup {tx}
                /\ tx.user = call[r].user /\ tx.key = call[r].key
  BY DEF PurchaseCommit
<1>2. /\ pc[r] = "commit" /\ call[r].op = "purchase"
      /\ UNCHANGED call /\ ~ Inserted(r)'
      /\ \A q \in Requests \ {r} : Inserted(q)' <=> Inserted(q)
  BY InvParts DEF PurchaseCommit, Is, Finish, Inserted, TypeOK
<1>3. CASE call[r].key = NoKey
  <2>1. \A q \in Requests : Inserted(q) => call[q].key # NoKey  BY DEF Inserted
  <2>2. KeysPending'
    BY <1>1, <1>2, <1>3, <2>1 DEF KeysInv, KeysPending, SameKey
  <2>3. PaidOnce'  BY <1>1, <1>3 DEF KeysInv, PaidOnce
  <2>4. QED  BY <2>2, <2>3 DEF KeysInv
<1>4. CASE call[r].key # NoKey
  <2>1. Inserted(r)  BY <1>2, <1>4 DEF Inserted
  <2>2. KeysPending'
    BY <1>1, <1>2, <2>1 DEF KeysInv, KeysPending, SameKey
  <2>3. PaidOnce'
    BY <1>1, <2>1 DEF KeysInv, KeysPending, PaidOnce, SameKey
  <2>4. QED  BY <2>2, <2>3 DEF KeysInv
<1>5. QED  BY <1>3, <1>4

\* Every step of a handler that is under way keeps its key the only one.
LEMMA ContinueKeys ==
  ASSUME IInv, KeysInv, NEW r \in Requests, Continue(r)
  PROVE  KeysInv'
<1>1. CASE \E code : Refuse(r, code)  BY <1>1, FinishKeys DEF Refuse, db
<1>2. CASE PurchaseInsert(r) \/ PurchaseCommit(r)
  BY <1>2, PurchaseInsertKeys, PurchaseCommitKeys
<1>3. CASE LockWallet(r)
  BY <1>3, ProceedKeys DEF LockWallet, Inserted
<1>4. CASE LockGoal(r) /\ ~ \E code : Refuse(r, code)
  <2>1. call[r].op # "purchase"
    BY <1>4, InvParts DEF LockGoal, FlowInv, StepsOf
  <2>2. QED  BY <1>4, <2>1, ProceedKeys DEF LockGoal
<1>5. CASE /\ ~ \E code : Refuse(r, code)
           /\ \/ RegisterInsert(r) \/ RegisterReferral(r) \/ RegisterLockCode(r)
              \/ CloseLockCode(r) \/ CloseLockGoals(r)
  <2>1. \E step, s : Proceed(r, step, s)
    BY <1>5 DEF RegisterInsert, RegisterReferral, RegisterLockCode, CloseLockCode,
                CloseLockGoals
  <2>2. call[r].op # "purchase"
    BY <1>5 DEF RegisterInsert, RegisterReferral, RegisterLockCode, CloseLockCode,
                CloseLockGoals, Is
  <2>3. QED  BY <2>1, <2>2, ProceedKeys
<1>6. CASE /\ ~ \E code : Refuse(r, code)
           /\ \/ CreateGoalCommit(r) \/ AllocateCommit(r) \/ DeleteGoalCommit(r)
              \/ RoundupCommit(r) \/ BoostCommit(r) \/ RegisterCommit(r) \/ CloseCommit(r)
  <2>1. Finish(r, 200)
    BY <1>6, ZenonT(30) DEF CreateGoalCommit, AllocateCommit, DeleteGoalCommit, RoundupCommit,
                BoostCommit, RegisterCommit, CloseCommit
  <2>2. bought' \subseteq bought
    BY <1>6, ZenonT(30) DEF CreateGoalCommit, AllocateCommit, DeleteGoalCommit, RoundupCommit,
                BoostCommit, RegisterCommit, CloseCommit
  <2>3. QED  BY <2>1, <2>2, FinishKeys
<1>7. QED
  BY <1>1, <1>2, <1>3, <1>4, <1>5, <1>6
     DEF Continue, PurchaseDeclined, ScoreFails, DeadlockVictim

\* The invariant about keys is inductive.
LEMMA KeysInductive == IInv /\ KeysInv /\ [Next]_vars => KeysInv'
<1> SUFFICES ASSUME IInv, KeysInv, [Next]_vars PROVE KeysInv'  OBVIOUS
<1>1. CASE \E r \in Requests : Begin(r) \/ Continue(r)  BY <1>1, BeginKeys, ContinueKeys
<1>2. CASE Restart \/ Tick \/ UNCHANGED vars
  <2>1. UNCHANGED <<bought, call>>  BY <1>2 DEF Restart, Tick, vars, db
  <2>2. \A q \in Requests : Inserted(q)' => Inserted(q)
    BY <1>2, InvParts DEF Restart, Tick, vars, InFlight, Inserted, TypeOK
  <2>3. QED  BY <2>1, <2>2, KeysKept
<1>3. QED  BY <1>1, <1>2 DEF Next, Idle

\* An idempotency key pays at most once, however its requests race, fail or are retried
\* (transactions.py:63-80, models.py:76-83).
THEOREM KeyPaysOnce == Spec => []PaidOnce
<1>1. Init => KeysInv
  BY DEF Init, KeysInv, KeysPending, PaidOnce, Inserted
<1>2. KeysInv => PaidOnce  BY DEF KeysInv
<1>3. QED  BY <1>1, <1>2, InitInv, Inductive, KeysInductive, PTL DEF Spec

-----------------------------------------------------------------------------
(* What the commits rely on: RowsInv says what the locks on goals, the       *)
(* foreign keys and the unique values protect between the steps of a         *)
(* handler, so that its commit still finds what it has read.                 *)

\* An account with a row that names it, committed or not, stays.
SharersOpen == \A u \in Users : \A q \in KeySharers(u) : account[u] = "open"

\* A goal's lock is held by a request that changes it, or deletes its owner.
ChangesGoal(r, g) ==
  /\ call[r].op \in {"allocate", "delete_goal"} /\ call[r].goal = g
  /\ pc[r] \in {"wallet", "commit"}

DeletesGoal(r, g) ==
  call[r].op = "close" /\ g \in seen[r].goals /\ pc[r] \in {"wallet", "commit"}

GoalHeld ==
  \A r \in Requests, g \in GoalIds : goalLock[g] = r => ChangesGoal(r, g) \/ DeletesGoal(r, g)

\* What a request has read of a goal it changes is still so.
GoalIsRead ==
  \A r \in Requests, g \in GoalIds : ChangesGoal(r, g) =>
    goalLock[g] = r /\ g \in LiveGoals(call[r].user) /\ seen[r].pot = goal[g].current

GoalsAreLocked ==
  \A r \in Requests, g \in GoalIds : DeletesGoal(r, g) => goalLock[g] = r

\* A goal being created does not exist, and nobody else creates it.
Creates(r) == call[r].op = "create_goal" /\ pc[r] = "commit"

GoalIsNew ==
  \A r \in Requests : Creates(r) =>
    /\ goal[call[r].goal].state = "none"
    /\ \A q \in Requests \ {r} : Creates(q) => call[q].goal # call[r].goal

PotsEmpty == \A g \in GoalIds : goal[g].state # "live" => goal[g].current = 0

\* Requests are of accounts that exist, or did, and are answered when they are done.
Asked ==
  \A r \in Requests :
    /\ pc[r] # "new" /\ call[r].op # "register" => account[call[r].user] # "none"
    /\ pc[r] = "done" <=> reply[r] # 0
    /\ call[r] \in Menu

RowsInv ==
  /\ SharersOpen /\ GoalHeld /\ GoalIsRead /\ GoalsAreLocked /\ GoalIsNew
  /\ PotsEmpty /\ Asked

\* An account that is gone has been closed by a request.
ClosedBySomebody ==
  \A u \in Users : account[u] = "gone" => \E q \in Requests : ClosesAccount(q, u)

\* A purchase on record is that of a request that was told so.
RecordedIsAnswered ==
  \A t \in bought :
    pc[t.id] = "done" /\ reply[t.id] = 200 /\ call[t.id].op = "purchase"
      /\ call[t.id].user = t.user

-----------------------------------------------------------------------------
(* The rows that steps rely on. *)

\* At the start no request is under way.
LEMMA InitRows == Init => RowsInv
BY CardsAssumption
   DEF Init, RowsInv, SharersOpen, KeySharers, GoalHeld, GoalIsRead, GoalsAreLocked,
       ChangesGoal, DeletesGoal, GoalIsNew, Creates, PotsEmpty, Asked, NoCall

\* Where an arrival leaves its request.
LEMMA ArrivalPlaces ==
  ASSUME IInv, NEW r \in Requests, Begin(r)
  PROVE  /\ \A q \in Requests \ {r} : /\ pc'[q] = pc[q] /\ call'[q] = call[q]
                                      /\ seen'[q] = seen[q] /\ reply'[q] = reply[q]
         /\ pc[r] = "new" /\ UNCHANGED <<db, locks>>
         /\ \/ /\ pc'[r] \in {"insert", "goal", "code", "commit"} /\ reply'[r] = reply[r]
            \/ pc'[r] = "done" /\ reply'[r] # 0
         /\ call'[r] \in Menu
         /\ call'[r].op # "register" => account[call'[r].user] # "none"
         /\ pc'[r] = "code" => call'[r].op = "close"
         /\ pc'[r] = "commit" => call'[r].op \in {"create_goal", "set_roundup", "boost"}
<1>1. TypeOK
  BY InvParts
<1>2. CASE ArrivedSomehow(r)
  BY <1>1, <1>2, CardsAssumption DEF ArrivedSomehow, Arrived, TypeOK
<1>3. CASE RegisterArrive(r)
  BY <1>1, <1>3, CardsAssumption DEF RegisterArrive, TypeOK
<1> QED BY <1>1, <1>2, <1>3, BeginArrives

\* A creation that arrives is of a goal that nobody has created or is creating.
LEMMA CreationIsNew ==
  ASSUME IInv, NEW r \in Requests, Begin(r), Creates(r)'
  PROVE  /\ goal[call'[r].goal].state = "none"
         /\ \A q \in Requests \ {r} : Creates(q) => call[q].goal # call'[r].goal
<1>1. TypeOK
  BY InvParts
<1>2. CreateGoalArrive(r)
  BY <1>1 DEF Begin, PurchaseRead, GoalArrive, RoundupArrive, BoostRead, RegisterArrive,
     CloseRead, Arrive, Creates, TypeOK
<1> QED BY <1>2 DEF CreateGoalArrive, Creates, InFlight

\* An arrival holds nothing yet.
LEMMA BeginRows ==
  ASSUME IInv, RowsInv, NEW r \in Requests, Begin(r)
  PROVE  RowsInv'
<1>1. /\ \A q \in Requests \ {r} : /\ pc'[q] = pc[q] /\ call'[q] = call[q]
                                   /\ seen'[q] = seen[q] /\ reply'[q] = reply[q]
      /\ pc[r] = "new" /\ UNCHANGED <<account, goal, goalLock, codeLock>>
      /\ \/ /\ pc'[r] \in {"insert", "goal", "code", "commit"} /\ reply'[r] = reply[r]
         \/ pc'[r] = "done" /\ reply'[r] # 0
      /\ call'[r] \in Menu
      /\ call'[r].op # "register" => account[call'[r].user] # "none"
      /\ pc'[r] = "code" => call'[r].op = "close"
      /\ pc'[r] = "commit" => call'[r].op \in {"create_goal", "set_roundup", "boost"}
  BY ArrivalPlaces DEF db, locks
<1>2. \A g \in GoalIds : goalLock[g] # r
  BY <1>1 DEF RowsInv, GoalHeld, ChangesGoal, DeletesGoal
<1>3. \A g \in GoalIds : ~ ChangesGoal(r, g)' /\ ~ DeletesGoal(r, g)'
  BY <1>1 DEF ChangesGoal, DeletesGoal
<1>4. \A u \in Users : KeySharers(u)' \subseteq KeySharers(u)
  BY <1>1 DEF KeySharers
<1>5. SharersOpen'
  BY <1>1, <1>4 DEF RowsInv, SharersOpen
<1>6. GoalHeld'
  BY <1>1, <1>2 DEF RowsInv, GoalHeld, ChangesGoal, DeletesGoal
<1>7. GoalIsRead' /\ GoalsAreLocked'
  <2>1. \A q \in Requests \ {r}, g \in GoalIds :
          /\ ChangesGoal(q, g)' <=> ChangesGoal(q, g)
          /\ DeletesGoal(q, g)' <=> DeletesGoal(q, g)
    BY <1>1 DEF ChangesGoal, DeletesGoal
  <2>2. UNCHANGED <<goal, goalLock>> /\ \A u : LiveGoals(u)' = LiveGoals(u)
    BY <1>1 DEF LiveGoals
  <2> QED BY <1>1, <1>3, <2>1, <2>2 DEF RowsInv, GoalIsRead, GoalsAreLocked
<1>8. GoalIsNew'
  BY <1>1, CreationIsNew DEF RowsInv, GoalIsNew, Creates
<1>9. PotsEmpty' /\ Asked'
  BY <1>1 DEF RowsInv, PotsEmpty, Asked
<1> QED BY <1>5, <1>6, <1>7, <1>8, <1>9 DEF RowsInv

\* A step within a handler keeps the rows, if the request may hold what it now holds.
LEMMA ProceedRows ==
  ASSUME IInv, RowsInv, NEW r \in Requests, NEW step, NEW s, Proceed(r, step, s),
         pc[r] \notin {"new", "done"}, step \notin {"new", "done"},
         call[r].op # "create_goal",
         \A u \in Users : r \in KeySharers(u)' => account[u] = "open",
         \A u \in Users, q \in Requests \ {r} : codeLock'[u] = q => codeLock[u] = q,
         \A g \in GoalIds, q \in Requests \ {r} : goalLock'[g] = q <=> goalLock[g] = q,
         \A g \in GoalIds :
           /\ goalLock'[g] = r => ChangesGoal(r, g)' \/ DeletesGoal(r, g)'
           /\ ChangesGoal(r, g)' =>
                goalLock'[g] = r /\ g \in LiveGoals(call[r].user) /\ s.pot = goal[g].current
           /\ DeletesGoal(r, g)' => goalLock'[g] = r
  PROVE  RowsInv'
<1>1. /\ \A q \in Requests \ {r} : pc'[q] = pc[q] /\ seen'[q] = seen[q]
      /\ pc'[r] = step /\ seen'[r] = s
      /\ UNCHANGED <<call, account, goal, reply>>
  BY InvParts DEF Proceed, TypeOK, db
<1>2. \A q \in Requests \ {r}, g \in GoalIds :
        /\ ChangesGoal(q, g)' <=> ChangesGoal(q, g)
        /\ DeletesGoal(q, g)' <=> DeletesGoal(q, g)
  BY <1>1 DEF ChangesGoal, DeletesGoal
<1>3. \A u : LiveGoals(u)' = LiveGoals(u)
  BY <1>1 DEF LiveGoals
<1>4. SharersOpen'
  <2>1. \A u \in Users, q \in Requests \ {r} : q \in KeySharers(u)' => q \in KeySharers(u)
    BY <1>1 DEF KeySharers
  <2>2. \A u \in Users : KeySharers(u)' \subseteq Requests
    BY DEF KeySharers
  <2> QED BY <1>1, <2>1, <2>2 DEF RowsInv, SharersOpen
<1>5. GoalHeld'
  BY <1>2 DEF RowsInv, GoalHeld
<1>6. GoalIsRead' /\ GoalsAreLocked'
  BY <1>1, <1>2, <1>3 DEF RowsInv, GoalIsRead, GoalsAreLocked
<1>7. GoalIsNew' /\ PotsEmpty' /\ Asked'
  BY <1>1 DEF RowsInv, GoalIsNew, Creates, PotsEmpty, Asked
<1> QED BY <1>4, <1>5, <1>6, <1>7 DEF RowsInv

\* A request may end if it has deleted no account that another's rows name, and changed
\* no goal but one it has locked or created.
LEMMA FinishRows ==
  ASSUME IInv, RowsInv, NEW r \in Requests, NEW code, Finish(r, code),
         InFlight(r), code # 0,
         \A u \in Users : account[u] = "open" /\ account'[u] # "open" => KeySharers(u) \subseteq {r},
         \A u \in Users : account[u] # "none" => account'[u] # "none",
         \A g \in GoalIds : \/ goal'[g] = goal[g]
                            \/ goalLock[g] = r /\ goal[g].state # "none"
                            \/ Creates(r) /\ call[r].goal = g,
         PotsEmpty'
  PROVE  RowsInv'
<1>1. /\ \A q \in Requests \ {r} : pc'[q] = pc[q] /\ seen'[q] = seen[q] /\ reply'[q] = reply[q]
      /\ pc'[r] = "done" /\ reply'[r] # 0 /\ UNCHANGED call
      /\ \A g \in GoalIds : goalLock'[g] = IF goalLock[g] = r THEN Nobody ELSE goalLock[g]
      /\ \A u \in Users : codeLock'[u] = IF codeLock[u] = r THEN Nobody ELSE codeLock[u]
  BY InvParts DEF Finish, TypeOK
<1>2. \A q \in Requests \ {r}, g \in GoalIds :
        /\ ChangesGoal(q, g)' <=> ChangesGoal(q, g)
        /\ DeletesGoal(q, g)' <=> DeletesGoal(q, g)
  BY <1>1 DEF ChangesGoal, DeletesGoal
<1>3. \A g : ~ ChangesGoal(r, g)' /\ ~ DeletesGoal(r, g)'
  BY <1>1 DEF ChangesGoal, DeletesGoal
<1>4. \A q \in Requests : call[q].goal \in GoalIds
  BY InvParts DEF TypeOK, Call
<1>5. SharersOpen'
  <2>1. ASSUME NEW u \in Users, NEW q \in KeySharers(u)' PROVE q \in KeySharers(u) /\ q # r
    BY <1>1, CardsAssumption DEF KeySharers
  <2> QED BY <2>1 DEF RowsInv, SharersOpen
<1>6. GoalHeld'
  BY <1>1, <1>2, CardsAssumption DEF RowsInv, GoalHeld
<1>7. GoalIsRead'
  <2> SUFFICES ASSUME NEW q \in Requests, NEW g \in GoalIds, ChangesGoal(q, g)'
               PROVE  /\ goalLock'[g] = q /\ g \in LiveGoals(call[q].user)'
                      /\ seen'[q].pot = goal'[g].current
    BY DEF GoalIsRead
  <2>1. q # r /\ goalLock[g] = q /\ g \in LiveGoals(call[q].user) /\ seen[q].pot = goal[g].current
    BY <1>2, <1>3 DEF RowsInv, GoalIsRead
  <2>2. goal'[g] = goal[g]
    BY <2>1 DEF RowsInv, GoalIsNew, LiveGoals
  <2> QED BY <1>1, <2>1, <2>2 DEF LiveGoals
<1>8. GoalsAreLocked'
  BY <1>1, <1>2, <1>3, CardsAssumption DEF RowsInv, GoalsAreLocked
<1>9. GoalIsNew'
  <2> SUFFICES ASSUME NEW q \in Requests, Creates(q)'
               PROVE  /\ goal'[call[q].goal].state = "none"
                      /\ \A p \in Requests \ {q} : Creates(p)' => call[p].goal # call[q].goal
    BY <1>1 DEF GoalIsNew
  <2>1. q # r /\ Creates(q) /\ \A p \in Requests : Creates(p)' => Creates(p)
    BY <1>1 DEF Creates
  <2>2. goal[call[q].goal].state = "none"
    BY <2>1 DEF RowsInv, GoalIsNew
  <2>3. goal'[call[q].goal] = goal[call[q].goal]
    BY <1>4, <2>1, <2>2 DEF RowsInv, GoalIsNew
  <2> QED BY <2>1, <2>2, <2>3 DEF RowsInv, GoalIsNew
<1>10. Asked'
  <2>1. \A q \in Requests : call[q].user \in Users
    BY InvParts DEF TypeOK, Call
  <2> QED BY <1>1, <2>1 DEF RowsInv, Asked, InFlight
<1> QED BY <1>5, <1>6, <1>7, <1>8, <1>9, <1>10 DEF RowsInv

\* Every answer that leaves the database as it was keeps the rows.
LEMMA RefuseRows ==
  ASSUME IInv, RowsInv, NEW r \in Requests, NEW code, Refuse(r, code), InFlight(r), code # 0
  PROVE  RowsInv'
<1>1. UNCHANGED <<account, goal>> /\ Finish(r, code)
  BY DEF Refuse, db
<1>2. PotsEmpty'
  BY <1>1 DEF RowsInv, PotsEmpty
<1> QED BY <1>1, <1>2, FinishRows

\* A request that waits for no goal's lock finds it free.
LEMMA GoalsFree ==
  ASSUME IInv, RowsInv, NEW r \in Requests, WaitsFor(r) = {}
  PROVE  /\ pc[r] = "goal" /\ call[r].goal \in LiveGoals(call[r].user) =>
              goalLock[call[r].goal] = Nobody
         /\ pc[r] = "goals" => \A g \in seen[r].goals : g \in GoalIds /\ goalLock[g] = Nobody
<1>1. call[r].goal \in GoalIds /\ seen[r].goals \subseteq GoalIds
  BY InvParts DEF TypeOK, Call, Seen
<1>2. pc[r] \in {"goal", "goals"} => \A g \in GoalIds : goalLock[g] # r
  BY DEF RowsInv, GoalHeld, ChangesGoal, DeletesGoal
<1>3. ASSUME pc[r] = "goal", call[r].goal \in LiveGoals(call[r].user)
      PROVE  goalLock[call[r].goal] = Nobody
  BY <1>1, <1>2, <1>3 DEF WaitsFor
<1>4. ASSUME pc[r] = "goals", NEW g \in seen[r].goals
      PROVE  goalLock[g] = Nobody
  BY <1>1, <1>2, <1>4 DEF WaitsFor
<1> QED BY <1>1, <1>3, <1>4

\* The wallet's lock changes nothing about goals.
LEMMA LockWalletRows ==
  ASSUME IInv, RowsInv, NEW r \in Requests, LockWallet(r)
  PROVE  RowsInv'
<1> DEFINE s == [seen[r] EXCEPT !.balance = wallet[Payee(r)]]
<1>1. /\ Proceed(r, "commit", s) /\ pc[r] = "wallet"
      /\ UNCHANGED <<goalLock, codeLock>>
  BY DEF LockWallet
<1>2. s.pot = seen[r].pot /\ s.goals = seen[r].goals
  BY InvParts DEF TypeOK, Seen
<1>3. call[r].op \in {"purchase", "allocate", "delete_goal", "register", "close"}
      /\ (call[r].op = "register" => call[r].friend # call[r].user)
  BY <1>1, InvParts DEF FlowInv, StepsOf
<1> HIDE DEF s
<1>4. pc'[r] = "commit" /\ seen'[r] = s /\ UNCHANGED <<call, account, goal>>
  BY <1>1, InvParts DEF Proceed, TypeOK, db
<1>5. \A u \in Users : r \in KeySharers(u)' => account[u] = "open"
  <2>1. \A u \in Users : r \in KeySharers(u)' => r \in KeySharers(u)
    BY <1>1, <1>4 DEF KeySharers
  <2> QED BY <2>1 DEF RowsInv, SharersOpen
<1>6. \A g \in GoalIds :
        /\ ChangesGoal(r, g)' <=> ChangesGoal(r, g)
        /\ DeletesGoal(r, g)' <=> DeletesGoal(r, g)
  BY <1>1, <1>2, <1>4 DEF ChangesGoal, DeletesGoal
<1>7. \A g \in GoalIds :
        /\ goalLock'[g] = r => ChangesGoal(r, g)' \/ DeletesGoal(r, g)'
        /\ ChangesGoal(r, g)' =>
             goalLock'[g] = r /\ g \in LiveGoals(call[r].user) /\ s.pot = goal[g].current
        /\ DeletesGoal(r, g)' => goalLock'[g] = r
  BY <1>1, <1>2, <1>6 DEF RowsInv, GoalHeld, GoalIsRead, GoalsAreLocked
<1> QED BY <1>1, <1>3, <1>5, <1>7, ProceedRows

\* The goal's lock is taken by the request that will change it.
LEMMA LockGoalRows ==
  ASSUME IInv, RowsInv, NEW r \in Requests, LockGoal(r)
  PROVE  RowsInv'
<1> DEFINE g    == call[r].goal
           s    == [seen[r] EXCEPT !.pot = goal[g].current]
           step == IF call[r].op = "delete_goal" /\ goal[g].current = 0
                     THEN "commit" ELSE "wallet"
<1>1. CASE g \notin LiveGoals(call[r].user)
  BY <1>1, RefuseRows DEF LockGoal, InFlight
<1>2. CASE g \in LiveGoals(call[r].user)
  <2>1. /\ Proceed(r, step, s) /\ UNCHANGED codeLock /\ pc[r] = "goal"
        /\ goalLock' = [goalLock EXCEPT ![g] = r]
    BY <1>2 DEF LockGoal
  <2>2. s.pot = goal[g].current
    BY InvParts DEF TypeOK, Seen
  <2>3. call[r].op \in {"allocate", "delete_goal"}
    BY <2>1, InvParts DEF FlowInv, StepsOf
  <2>4. g \in GoalIds /\ goalLock[g] = Nobody
    BY <1>2, <2>1, GoalsFree DEF LockGoal, LiveGoals
  <2>5. step \in {"commit", "wallet"}
    OBVIOUS
  <2> HIDE DEF s, step
  <2>6. pc'[r] = step /\ UNCHANGED call
    BY <2>1, InvParts DEF Proceed, TypeOK
  <2>7. \A h \in GoalIds : goalLock'[h] = IF h = g THEN r ELSE goalLock[h]
    BY <2>1, <2>4, InvParts DEF TypeOK
  <2>8. \A h \in GoalIds : goalLock[h] # r
    BY <2>1 DEF RowsInv, GoalHeld, ChangesGoal, DeletesGoal
  <2>9. \A h \in GoalIds : (ChangesGoal(r, h)' <=> h = g) /\ ~ DeletesGoal(r, h)'
    BY <2>3, <2>5, <2>6 DEF ChangesGoal, DeletesGoal
  <2>10. \A u \in Users : r \notin KeySharers(u)'
    BY <2>3, <2>6 DEF KeySharers
  <2> HIDE DEF g
  <2>11. \A h \in GoalIds, q \in Requests \ {r} : goalLock'[h] = q <=> goalLock[h] = q
    BY <2>4, <2>7, CardsAssumption
  <2>12. \A h \in GoalIds :
           /\ goalLock'[h] = r => ChangesGoal(r, h)' \/ DeletesGoal(r, h)'
           /\ ChangesGoal(r, h)' =>
                goalLock'[h] = r /\ h \in LiveGoals(call[r].user) /\ s.pot = goal[h].current
           /\ DeletesGoal(r, h)' => goalLock'[h] = r
    BY <1>2, <2>2, <2>7, <2>8, <2>9
  <2> QED BY <2>1, <2>3, <2>5, <2>10, <2>11, <2>12, ProceedRows
<1> QED BY <1>1, <1>2

\* An INSERT that names an account finds it open; no goal is held yet.
LEMMA InsertRows ==
  ASSUME IInv, RowsInv, NEW r \in Requests,
         \/ PurchaseInsert(r) \/ RegisterInsert(r) \/ RegisterReferral(r)
         \/ RegisterLockCode(r) \/ CloseLockCode(r)
  PROVE  RowsInv'
<1>1. CASE \E code \in Replies : Refuse(r, code) /\ code # 0
  <2>1. InFlight(r)
    BY DEF PurchaseInsert, RegisterInsert, RegisterReferral, RegisterLockCode, CloseLockCode,
           Is, InFlight
  <2> QED BY <1>1, <2>1, RefuseRows
<1>2. CASE ~ \E code \in Replies : Refuse(r, code) /\ code # 0
  <2>1. PICK step \in {"wallet", "referral", "code", "commit", "goals"}, s \in {seen[r], NothingSeen,
               [NothingSeen EXCEPT !.refs = refs[call[r].friend]]} :
          /\ Proceed(r, step, s) /\ UNCHANGED goalLock
          /\ pc[r] \in {"insert", "referral", "code"}
          /\ \/ call[r].op = "purchase" /\ step = "wallet" /\ account[call[r].user] = "open"
             \/ call[r].op = "register" /\ step \in {"referral", "commit"} /\ pc[r] = "insert"
             \/ /\ call[r].op = "register" /\ step = "code" /\ pc[r] = "referral"
                /\ account[call[r].friend] = "open"
             \/ call[r].op = "register" /\ step = "wallet" /\ pc[r] = "code"
             \/ call[r].op = "close" /\ step = "goals"
          /\ \A u \in Users : codeLock'[u] \in {codeLock[u], r}
          /\ step # "wallet" \/ call[r].op = "purchase" \/ pc[r] = "code"
          /\ step = "commit" => UNCHANGED codeLock
    BY <1>2, InvParts
       DEF PurchaseInsert, RegisterInsert, RegisterReferral, RegisterLockCode, CloseLockCode,
           Is, AccountGone, Replies, DuplicateStatus, locks, TypeOK
  <2>2. pc'[r] = step /\ UNCHANGED <<call, account>>
    BY <2>1, InvParts DEF Proceed, TypeOK, db
  <2>3. \A g \in GoalIds : goalLock[g] # r
    BY <2>1 DEF RowsInv, GoalHeld, ChangesGoal, DeletesGoal
  <2>4. \A g \in GoalIds : ~ ChangesGoal(r, g)' /\ ~ DeletesGoal(r, g)'
    BY <2>1, <2>2 DEF ChangesGoal, DeletesGoal
  <2>5. \A u \in Users : r \in KeySharers(u)' => account[u] = "open"
    <3>1. \A u \in Users : codeLock[u] = r => call[r].op = "close" \/ pc[r] \in {"wallet", "commit"}
      BY InvParts DEF FlowInv, CodeHeld
    <3>2. ASSUME NEW u \in Users, r \in KeySharers(u)'
          PROVE  account[u] = "open" \/ r \in KeySharers(u)
      BY <2>1, <2>2, <3>1, <3>2 DEF KeySharers
    <3> QED BY <3>2 DEF RowsInv, SharersOpen
  <2>6. \A u \in Users, q \in Requests \ {r} : codeLock'[u] = q => codeLock[u] = q
    BY <2>1
  <2> QED BY <2>1, <2>3, <2>4, <2>5, <2>6, ProceedRows
<1> QED BY <1>1, <1>2

\* A deletion takes the locks of the goals it has loaded.
LEMMA CloseLockGoalsRows ==
  ASSUME IInv, RowsInv, NEW r \in Requests, CloseLockGoals(r)
  PROVE  RowsInv'
<1>1. /\ Proceed(r, "wallet", seen[r]) /\ UNCHANGED codeLock
      /\ pc[r] = "goals" /\ call[r].op = "close"
      /\ goalLock' = [g \in GoalIds |-> IF g \in seen[r].goals THEN r ELSE goalLock[g]]
  BY DEF CloseLockGoals, Is
<1>2. pc'[r] = "wallet" /\ seen'[r] = seen[r] /\ UNCHANGED call
  BY <1>1, InvParts DEF Proceed, TypeOK
<1>3. \A g \in seen[r].goals : goalLock[g] = Nobody
  BY <1>1, GoalsFree DEF CloseLockGoals
<1>4. \A g \in GoalIds : goalLock[g] # r
  BY <1>1 DEF RowsInv, GoalHeld, ChangesGoal, DeletesGoal
<1>5. \A g \in GoalIds : ~ ChangesGoal(r, g)' /\ (DeletesGoal(r, g)' <=> g \in seen[r].goals)
  BY <1>1, <1>2 DEF ChangesGoal, DeletesGoal
<1>6. \A u \in Users : r \notin KeySharers(u)'
  BY <1>1, <1>2 DEF KeySharers
<1>7. \A g \in GoalIds, q \in Requests \ {r} : goalLock'[g] = q <=> goalLock[g] = q
  BY <1>1, <1>3, CardsAssumption
<1>8. \A g \in GoalIds :
        /\ goalLock'[g] = r => ChangesGoal(r, g)' \/ DeletesGoal(r, g)'
        /\ ChangesGoal(r, g)' =>
             goalLock'[g] = r /\ g \in LiveGoals(call[r].user) /\ seen[r].pot = goal[g].current
        /\ DeletesGoal(r, g)' => goalLock'[g] = r
  BY <1>1, <1>4, <1>5
<1> QED BY <1>1, <1>6, <1>7, <1>8, ProceedRows

\* A commit that touches neither accounts nor goals.
LEMMA PlainCommitRows ==
  ASSUME IInv, RowsInv, NEW r \in Requests,
         PurchaseCommit(r) \/ RoundupCommit(r) \/ BoostCommit(r)
  PROVE  RowsInv'
<1>1. UNCHANGED <<account, goal>> /\ InFlight(r) /\ \E code \in {200, 500} : Finish(r, code)
  BY DEF PurchaseCommit, RoundupCommit, BoostCommit, Is, InFlight, Refuse, db
<1>2. PotsEmpty'
  BY <1>1 DEF RowsInv, PotsEmpty
<1> QED BY <1>1, <1>2, FinishRows

\* What a commit does to the goal it creates, fills or deletes.
LEMMA GoalWritten ==
  ASSUME IInv, RowsInv, NEW r \in Requests,
         CreateGoalCommit(r) \/ AllocateCommit(r) \/ DeleteGoalCommit(r), UNCHANGED account,
         ~ \E code : Refuse(r, code)
  PROVE  /\ call[r].goal \in GoalIds
         /\ \A g \in GoalIds : g # call[r].goal => goal'[g] = goal[g]
         /\ goal'[call[r].goal].state # "live" => goal'[call[r].goal].current = 0
         /\ \/ Creates(r)
            \/ ChangesGoal(r, call[r].goal)
<1>1. call[r].goal \in GoalIds /\ goal \in [GoalIds -> Goal]
  BY InvParts DEF TypeOK, Call
<1>2. CASE CreateGoalCommit(r)
  BY <1>1, <1>2 DEF CreateGoalCommit, Is, Creates
<1>3. CASE AllocateCommit(r)
  <2>1. ChangesGoal(r, call[r].goal)
    BY <1>3 DEF AllocateCommit, Is, ChangesGoal
  <2>2. goal[call[r].goal].state = "live"
    BY <1>1, <2>1 DEF RowsInv, GoalIsRead, LiveGoals
  <2>3. goal' = [goal EXCEPT ![call[r].goal].current = Filled(r),
                             ![call[r].goal].done =
                                @ \/ Filled(r) >= goal[call[r].goal].target]
    BY <1>3 DEF AllocateCommit
  <2> QED BY <1>1, <2>1, <2>2, <2>3 DEF Goal
<1>4. CASE DeleteGoalCommit(r)
  <2>1. ChangesGoal(r, call[r].goal)
    BY <1>4 DEF DeleteGoalCommit, Is, ChangesGoal
  <2>2. goal' = [goal EXCEPT ![call[r].goal].state = "deleted", ![call[r].goal].current = 0]
    BY <1>4 DEF DeleteGoalCommit
  <2> QED BY <1>1, <2>1, <2>2 DEF Goal
<1> QED BY <1>2, <1>3, <1>4

\* The commits that make, change and delete goals leave the rows other steps rely on.
LEMMA GoalCommitRows ==
  ASSUME IInv, RowsInv, NEW r \in Requests,
         CreateGoalCommit(r) \/ AllocateCommit(r) \/ DeleteGoalCommit(r)
  PROVE  RowsInv'
<1>1. InFlight(r)
  BY DEF CreateGoalCommit, AllocateCommit, DeleteGoalCommit, Is, InFlight
<1>2. CASE \E code : Refuse(r, code)
  <2>1. \E code \in {400, 500} : Refuse(r, code) \/ (\E c \in {200} : Finish(r, c) /\ UNCHANGED <<account, goal>>)
    BY <1>2 DEF CreateGoalCommit, AllocateCommit, DeleteGoalCommit, Refuse, db
  <2>2. PotsEmpty'
    BY <1>2 DEF Refuse, db, RowsInv, PotsEmpty
  <2> QED BY <1>1, <2>1, <2>2, RefuseRows, FinishRows
<1>3. CASE ~ \E code : Refuse(r, code)
  <2>1. UNCHANGED account /\ Finish(r, 200)
    BY <1>3 DEF CreateGoalCommit, AllocateCommit, DeleteGoalCommit
  <2>2. \A g \in GoalIds : \/ goal'[g] = goal[g]
                           \/ goalLock[g] = r /\ goal[g].state # "none"
                           \/ Creates(r) /\ call[r].goal = g
    BY <1>3, <2>1, GoalWritten DEF RowsInv, GoalIsRead, LiveGoals
  <2>3. PotsEmpty'
    BY <1>3, <2>1, GoalWritten DEF RowsInv, PotsEmpty
  <2> QED BY <1>1, <2>1, <2>2, <2>3, FinishRows
<1> QED BY <1>2, <1>3

\* So does a registration's,
LEMMA RegisterCommitRows ==
  ASSUME IInv, RowsInv, NEW r \in Requests, RegisterCommit(r)
  PROVE  RowsInv'
<1>1. /\ account' = [account EXCEPT ![call[r].user] = "open"]
      /\ UNCHANGED goal /\ Finish(r, 200) /\ InFlight(r)
  BY DEF RegisterCommit, Is, InFlight
<1>2. \A u \in Users : account'[u] \in {account[u], "open"}
  BY <1>1, InvParts DEF TypeOK
<1>3. PotsEmpty'
  BY <1>1 DEF RowsInv, PotsEmpty
<1> QED BY <1>1, <1>2, <1>3, FinishRows

\* A deletion goes through when no row names the account, and with all its goals.
ClosesNow(r) ==
  /\ CloseCommit(r) /\ account[call[r].user] # "gone"
  /\ rows[call[r].user] = seen[r].rows /\ LiveGoals(call[r].user) \subseteq seen[r].goals

\* A deletion that commits is the only one to touch the account: nobody else shares its key,
\* and its goals are its own.
LEMMA ClosingIsAlone ==
  ASSUME IInv, RowsInv, NEW r \in Requests, ClosesNow(r)
  PROVE  /\ call[r].user \in Users /\ account[call[r].user] = "open"
         /\ \A u \in Users : account'[u] = IF u = call[r].user THEN "gone" ELSE account[u]
         /\ KeySharers(call[r].user) \subseteq {r}
         /\ \A g \in LiveGoals(call[r].user) : g \in GoalIds /\ goalLock[g] = r
         /\ \A g \in GoalIds :
              goal'[g] = IF g \in LiveGoals(call[r].user)
                           THEN [goal[g] EXCEPT !.state = "deleted", !.current = 0] ELSE goal[g]
         /\ Finish(r, 200)
<1>1. /\ pc[r] = "commit" /\ call[r].op = "close" /\ WaitsFor(r) = {}
      /\ account' = [account EXCEPT ![call[r].user] = "gone"] /\ Finish(r, 200)
      /\ goal' = [g \in GoalIds |->
                    IF g \in LiveGoals(call[r].user)
                      THEN [goal[g] EXCEPT !.state = "deleted", !.current = 0] ELSE goal[g]]
  BY DEF ClosesNow, CloseCommit, Is
<1>2. call[r].user \in Users /\ account \in [Users -> {"none", "open", "gone"}]
  BY InvParts DEF TypeOK, Call
<1>3. account[call[r].user] = "open"
  BY <1>1, <1>2, InvParts DEF ClosesNow, FlowInv, Registrants, InFlight
<1>4. KeySharers(call[r].user) \ {Nobody, r} = {}
  BY <1>1 DEF WaitsFor
<1>5. KeySharers(call[r].user) \subseteq Requests
  BY DEF KeySharers
<1>6. \A g \in LiveGoals(call[r].user) : g \in GoalIds /\ goalLock[g] = r
  BY <1>1 DEF ClosesNow, RowsInv, GoalsAreLocked, DeletesGoal, LiveGoals
<1> QED BY <1>1, <1>2, <1>3, <1>4, <1>5, <1>6, CardsAssumption

\* so its commit, too, leaves the rows other steps rely on.
LEMMA CloseCommitRows ==
  ASSUME IInv, RowsInv, NEW r \in Requests, CloseCommit(r)
  PROVE  RowsInv'
<1>1. InFlight(r)
  BY DEF CloseCommit, Is, InFlight
<1>2. CASE ~ ClosesNow(r)
  <2>1. Refuse(r, 200) \/ Refuse(r, 500)
    BY <1>2 DEF ClosesNow, CloseCommit
  <2> QED BY <1>1, <2>1, RefuseRows
<1>3. CASE ClosesNow(r)
  <2>1. /\ Finish(r, 200) /\ KeySharers(call[r].user) \subseteq {r}
        /\ \A u \in Users : account'[u] = IF u = call[r].user THEN "gone" ELSE account[u]
        /\ \A g \in GoalIds :
             \/ goal'[g] = goal[g]
             \/ /\ goalLock[g] = r /\ goal[g].state # "none"
                /\ goal'[g].current = 0
    <3>1. /\ Finish(r, 200) /\ KeySharers(call[r].user) \subseteq {r}
          /\ \A u \in Users : account'[u] = IF u = call[r].user THEN "gone" ELSE account[u]
          /\ \A g \in LiveGoals(call[r].user) : g \in GoalIds /\ goalLock[g] = r
          /\ \A g \in GoalIds :
               goal'[g] = IF g \in LiveGoals(call[r].user)
                            THEN [goal[g] EXCEPT !.state = "deleted", !.current = 0] ELSE goal[g]
      BY <1>3, ClosingIsAlone
    <3>2. \A g \in LiveGoals(call[r].user) : goal[g].state # "none" /\ goal[g] \in Goal
      BY InvParts DEF LiveGoals, TypeOK
    <3>3. \A g \in LiveGoals(call[r].user) : goal'[g].current = 0
      <4>1. ASSUME NEW g \in LiveGoals(call[r].user) PROVE goal'[g].current = 0
        <5>1. g \in GoalIds /\ goal[g] \in Goal
          BY <3>1, <3>2
        <5>2. goal'[g] = [goal[g] EXCEPT !.state = "deleted", !.current = 0]
          BY <3>1, <5>1
        <5> QED BY ONLY <5>1, <5>2, DeletedGoal
      <4> QED BY <4>1
    <3> QED BY ONLY <3>1, <3>2, <3>3
  <2>2. PotsEmpty'
    BY <2>1 DEF RowsInv, PotsEmpty
  <2> QED BY <1>1, <2>1, <2>2, FinishRows
<1> QED BY <1>2, <1>3

\* Every step keeps the rows.
LEMMA RowsInductive == IInv /\ RowsInv /\ [Next]_vars => RowsInv'
<1> SUFFICES ASSUME IInv, RowsInv, [Next]_vars PROVE RowsInv'
  OBVIOUS
<1>1. ASSUME NEW r \in Requests, Continue(r) PROVE RowsInv'
  <2>1. CASE PurchaseDeclined(r) \/ ScoreFails(r)
    BY <2>1, RefuseRows DEF PurchaseDeclined, ScoreFails, CacheError, Is, InFlight
  <2>2. CASE DeadlockVictim(r)
    <3>1. WaitsFor(r) # {}
      BY <2>2 DEF DeadlockVictim, OnCycle
    <3>2. InFlight(r)
      BY <3>1 DEF WaitsFor, InFlight
    <3> QED BY <2>2, <3>2, RefuseRows DEF DeadlockVictim
  <2> QED BY <1>1, <2>1, <2>2, LockWalletRows, LockGoalRows, InsertRows, CloseLockGoalsRows,
             PlainCommitRows, GoalCommitRows, RegisterCommitRows, CloseCommitRows DEF Continue
<1>2. CASE Restart
  <2>1. /\ \A q \in Requests : /\ pc'[q] = IF InFlight(q) THEN "done" ELSE pc[q]
                               /\ reply'[q] = IF InFlight(q) THEN 1 ELSE reply[q]
        /\ UNCHANGED <<account, goal, call>>
        /\ \A g \in GoalIds : goalLock'[g] = Nobody
        /\ \A u \in Users : codeLock'[u] = Nobody
    BY <1>2 DEF Restart, db
  <2>2. \A q \in Requests : pc'[q] \in {"new", "done"}
    BY <2>1 DEF InFlight
  <2>3. SharersOpen' /\ GoalHeld' /\ GoalIsRead' /\ GoalsAreLocked' /\ GoalIsNew'
    BY <2>1, <2>2, CardsAssumption
       DEF SharersOpen, KeySharers, GoalHeld, GoalIsRead, GoalsAreLocked, ChangesGoal,
           DeletesGoal, GoalIsNew, Creates
  <2>4. PotsEmpty' /\ Asked'
    BY <2>1, <2>2 DEF RowsInv, PotsEmpty, Asked, InFlight
  <2> QED BY <2>3, <2>4 DEF RowsInv
<1>3. CASE Tick \/ UNCHANGED vars
  <2>1. UNCHANGED <<account, goal, goalLock, codeLock, pc, call, seen, reply>>
    BY <1>3 DEF Tick, vars, db, locks
  <2> QED BY <2>1
     DEF RowsInv, SharersOpen, KeySharers, GoalHeld, GoalIsRead, LiveGoals, GoalsAreLocked,
         ChangesGoal, DeletesGoal, GoalIsNew, Creates, PotsEmpty, Asked
<1> QED BY <1>1, <1>2, <1>3, BeginRows DEF Next, Idle

-----------------------------------------------------------------------------
(* Cards implements Bank. *)

Settled == {r \in Requests : reply[r] = 200 /\ call[r].op \in Settling}

Spent == {<<t.user, t.key>> : t \in {x \in bought : x.key # NoKey}}

Pots == [g \in GoalIds |-> goal[g].current]

BankState == <<account, wallet, OwnerOf(goal), Pots, Spent, Settled>>

\* Where members, balances, goals and answers stay as they are the Bank stutters.
LEMMA BankStateKept ==
  ASSUME UNCHANGED BankState
  PROVE  UNCHANGED B!bankVars
BY DEF BankState, Settled, Spent, Pots, B!bankVars, OwnerOf

\* A request that has not been answered and now is, with 200, is settled; every other
\* step settles nothing.
LEMMA Settles ==
  ASSUME IInv, RowsInv, NEW r \in Requests, NEW code, Finish(r, code), InFlight(r)
  PROVE  IF code = 200 /\ call[r].op \in Settling
           THEN r \notin Settled /\ Settled' = Settled \cup {r} ELSE UNCHANGED Settled
<1>1. reply \in [Requests -> Replies] /\ call' = call /\ reply' = [reply EXCEPT ![r] = code]
  BY InvParts DEF TypeOK, Finish
<1>2. reply[r] = 0
  BY DEF RowsInv, Asked, InFlight
<1> QED BY <1>1, <1>2 DEF Settled

\* A step that answers nobody with 200 settles nothing.
LEMMA UnansweredSettlesNothing ==
  ASSUME TypeOK, \A r \in Requests : \/ reply'[r] = reply[r] /\ call'[r] = call[r]
                                     \/ reply'[r] # 200 /\ reply[r] # 200
  PROVE  UNCHANGED Settled
BY DEF TypeOK, Settled

\* A refusal, and a request that moves on, are nothing to the Bank.
LEMMA RefusedIsStutter ==
  ASSUME IInv, RowsInv, NEW r \in Requests, NEW code, Refuse(r, code), InFlight(r),
         code # 200 \/ call[r].op \notin Settling
  PROVE  UNCHANGED B!bankVars
<1>1. Finish(r, code) /\ UNCHANGED <<account, wallet, goal, bought>>
  BY DEF Refuse, db
<1>2. UNCHANGED Settled
  BY <1>1, Settles
<1> QED BY <1>1, <1>2, BankStateKept DEF BankState, OwnerOf, Pots, Spent

\* A handler that moves on without a commit is a stutter of the Bank,
LEMMA ProceedIsStutter ==
  ASSUME IInv, NEW r \in Requests, NEW step, NEW s, Proceed(r, step, s)
  PROVE  UNCHANGED B!bankVars
<1>1. UNCHANGED <<account, wallet, goal, bought, reply, call>>
  BY DEF Proceed, db
<1>2. UNCHANGED Settled
  BY <1>1 DEF Settled
<1> QED BY <1>1, <1>2, BankStateKept DEF BankState, OwnerOf, Pots, Spent

\* and so is a request that arrives.
LEMMA BeginIsStutter ==
  ASSUME IInv, RowsInv, NEW r \in Requests, Begin(r)
  PROVE  UNCHANGED B!bankVars
<1>1. /\ UNCHANGED <<account, wallet, goal, bought>>
      /\ \A q \in Requests \ {r} : call'[q] = call[q] /\ reply'[q] = reply[q]
      /\ pc[r] = "new"
  BY ArrivalPlaces DEF db
<1>2. reply[r] = 0
  BY <1>1 DEF RowsInv, Asked
<1>3. reply'[r] # 200
  BY <1>2, BeginArrives, InvParts DEF ArrivedSomehow, Arrived, RegisterArrive, TypeOK
<1>4. UNCHANGED Settled
  BY <1>1, <1>2, <1>3, UnansweredSettlesNothing, InvParts
<1> QED BY <1>1, <1>4, BankStateKept DEF BankState, OwnerOf, Pots, Spent

\* A settings change is nothing to the Bank either.
LEMMA SettingsAreStutter ==
  ASSUME IInv, RowsInv, NEW r \in Requests, RoundupCommit(r) \/ BoostCommit(r)
  PROVE  UNCHANGED B!bankVars
<1>1. /\ UNCHANGED <<account, wallet, goal, bought>> /\ \E code : Finish(r, code)
      /\ InFlight(r) /\ call[r].op \notin Settling
  BY DEF RoundupCommit, BoostCommit, Is, InFlight, Refuse, db, Settling
<1>2. UNCHANGED Settled
  BY <1>1, Settles
<1> QED BY <1>1, <1>2, BankStateKept DEF BankState, OwnerOf, Pots, Spent

\* What a purchase pays is among the Payments.
LEMMA PaysPayments ==
  ASSUME IInv, RowsInv, NEW r \in Requests, call[r].op = "purchase"
  PROVE  {Reward(r), Reward(r) + call[r].spare} \subseteq Payments
<1> DEFINE i == LevelIndex(seen[r].earned)
           b == IF seen[r].boost THEN 20 ELSE 10
<1>1. i \in 1..5 /\ b \in {10, 20}
  BY LevelIndexType
<1>2. Reward(r) = calculate_reward(call[r].amount, 1, LEVELS[i].multiplier, b).total_sats
  BY DEF Reward, Multiplier
<1>3. call[r] \in Menu
  BY DEF RowsInv, Asked
<1> HIDE DEF i, b
<1> QED BY <1>1, <1>2, <1>3, BankAssumption

\* The purchase that commits pays, with its round-up, under a key that has not paid.
LEMMA PurchasePays ==
  ASSUME IInv, RowsInv, KeysInv, NEW r \in Requests, PurchaseCommit(r)
  PROVE  B!Settle(r) /\ \E u \in Users, k \in Keys \cup {NoKey}, n \in Payments : B!Pay(u, k, n)
<1> DEFINE u     == call[r].user
           k     == call[r].key
           spare == IF u \in roundup THEN call[r].spare ELSE 0
           sats  == Reward(r) + spare
<1>1. /\ pc[r] = "commit" /\ call[r].op = "purchase" /\ Finish(r, 200) /\ InFlight(r)
      /\ wallet' = [wallet EXCEPT ![u] = seen[r].balance + Reward(r) + spare]
      /\ UNCHANGED <<account, goal>>
      /\ \E tx : bought' = bought \cup {tx} /\ tx.user = u /\ tx.key = k
  BY DEF PurchaseCommit, Is, InFlight
<1>2. u \in Users /\ k \in Keys \cup {NoKey} /\ Reward(r) \in Nat /\ spare \in Nat
  BY PaymentType, InvParts DEF TypeOK, Call
<1>3. sats \in Payments
  BY <1>1, <1>2, PaysPayments
<1>4. seen[r].balance = wallet[u] /\ wallet[u] \in Int
  BY <1>1, <1>2, ReadIsCurrent, InvParts DEF NewBalance, Payee, TypeOK
<1>5. account[u] = "open"
  BY <1>1, <1>2 DEF RowsInv, SharersOpen, KeySharers
<1>6. <<u, k>> \notin Spent
  <2>1. CASE k = NoKey
    BY <2>1 DEF Spent
  <2>2. CASE k # NoKey
    <3>1. \A t \in bought : ~ SameKey(t, call[r])
      BY <1>1, <2>2 DEF KeysInv, KeysPending, Inserted
    <3> QED BY <3>1 DEF SameKey, Spent
  <2> QED BY <2>1, <2>2
<1>7. Spent' = IF k = NoKey THEN Spent ELSE Spent \cup {<<u, k>>}
  <2>1. PICK tx : bought' = bought \cup {tx} /\ tx.user = u /\ tx.key = k
    BY <1>1
  <2> QED BY <2>1 DEF Spent
<1>8. r \notin Settled /\ Settled' = Settled \cup {r}
  BY <1>1, Settles DEF Settling
<1>9. B!Settle(r)
  BY <1>8 DEF B!Settle, Settled
<1>10. wallet' = [wallet EXCEPT ![u] = @ + sats]
  <2>1. seen[r].balance + Reward(r) + spare = wallet[u] + sats
    BY <1>2, <1>4
  <2> QED BY <1>1, <2>1
<1> HIDE DEF sats, spare
<1>11. PICK v \in Users, key \in Keys \cup {NoKey}, n \in Payments : v = u /\ key = k /\ n = sats
  BY <1>2, <1>3
<1>12. B!Pay(v, key, n)
  BY <1>1, <1>5, <1>6, <1>7, <1>10, <1>11 DEF B!Pay, Spent, OwnerOf
<1> QED BY <1>9, <1>12

\* An allocation saves what the balance has.
LEMMA AllocationSaves ==
  ASSUME IInv, RowsInv, NEW r \in Requests, AllocateCommit(r), Affordable(r)
  PROVE  B!Settle(r) /\ \E u \in Users, g \in GoalIds : \E n \in 0..wallet[u] : B!Save(u, g, n)
<1>1. /\ pc[r] = "commit" /\ call[r].op = "allocate" /\ Finish(r, 200) /\ InFlight(r)
      /\ wallet' = [wallet EXCEPT ![call[r].user] = seen[r].balance - call[r].amount]
      /\ goal' = [goal EXCEPT ![call[r].goal].current = Filled(r),
                              ![call[r].goal].done =
                                 @ \/ Filled(r) >= goal[call[r].goal].target]
      /\ UNCHANGED <<account, bought>>
  BY DEF AllocateCommit, Is, InFlight
<1>2. PICK u \in Users, g \in GoalIds, n \in Nat :
        u = call[r].user /\ g = call[r].goal /\ n = call[r].amount
  BY InvParts DEF TypeOK, Call
<1>3. goal \in [GoalIds -> Goal] /\ wallet[u] \in Int /\ goal[g].current \in Nat
  BY InvParts DEF TypeOK, Goal
<1>4. seen[r].balance = wallet[u]
  BY <1>1, <1>2, ReadIsCurrent DEF NewBalance, Payee
<1>5. ChangesGoal(r, g)
  BY <1>1, <1>2 DEF ChangesGoal
<1>6. goal[g].state = "live" /\ goal[g].owner = u /\ seen[r].pot = goal[g].current
  BY <1>2, <1>5 DEF RowsInv, GoalIsRead, LiveGoals
<1>7. n \in 0..wallet[u]
  BY <1>2, <1>3, <1>4 DEF Affordable
<1>8. wallet' = [wallet EXCEPT ![u] = @ - n]
  BY <1>1, <1>2, <1>4
<1>9. \A h \in GoalIds : /\ goal'[h].state = goal[h].state /\ goal'[h].owner = goal[h].owner
                         /\ goal'[h].current = IF h = g THEN goal[g].current + n
                                                         ELSE goal[h].current
  BY <1>1, <1>2, <1>3, <1>6 DEF Filled, Goal
<1>10. Pots' = [Pots EXCEPT ![g] = @ + n] /\ OwnerOf(goal)' = OwnerOf(goal)
       /\ OwnerOf(goal)[g] = u
  BY <1>6, <1>9 DEF Pots, OwnerOf
<1>11. Spent' = Spent /\ n <= wallet[u]
  BY <1>1, <1>3, <1>7 DEF Spent
<1>12. r \notin Settled /\ Settled' = Settled \cup {r}
  BY <1>1, Settles DEF Settling
<1>13. B!Settle(r)
  BY <1>12 DEF B!Settle, Settled
<1>14. B!Save(u, g, n)
  BY <1>1, <1>8, <1>10, <1>11 DEF B!Save, Spent, Pots, OwnerOf
<1> QED BY <1>7, <1>13, <1>14

\* A goal that is created is an empty pot.
LEMMA CreationOpensPot ==
  ASSUME IInv, RowsInv, NEW r \in Requests, CreateGoalCommit(r), ~ AccountGone(r)
  PROVE  B!Settle(r) /\ \E u \in Users, g \in GoalIds : B!OpenPot(u, g)
<1>1. /\ call[r].op = "create_goal" /\ Finish(r, 200) /\ InFlight(r) /\ Creates(r)
      /\ goal' = [goal EXCEPT ![call[r].goal] =
           [state |-> "live", owner |-> call[r].user, target |-> call[r].amount,
            current |-> 0, done |-> FALSE]]
      /\ UNCHANGED <<account, wallet, bought>>
  BY DEF CreateGoalCommit, Is, InFlight, Creates
<1>2. PICK u \in Users, g \in GoalIds : u = call[r].user /\ g = call[r].goal
  BY InvParts DEF TypeOK, Call
<1>3. goal[g].state = "none" /\ goal[g].current = 0
  BY <1>1, <1>2 DEF RowsInv, GoalIsNew, PotsEmpty
<1>4. \A h \in GoalIds :
        /\ goal'[h].state = IF h = g THEN "live" ELSE goal[h].state
        /\ goal'[h].owner = IF h = g THEN u ELSE goal[h].owner
        /\ goal'[h].current = goal[h].current
  BY <1>1, <1>2, <1>3, InvParts DEF TypeOK
<1>5. Pots' = Pots /\ OwnerOf(goal') = [OwnerOf(goal) EXCEPT ![g] = u]
      /\ OwnerOf(goal)[g] = NoOwner
  BY <1>3, <1>4 DEF Pots, OwnerOf
<1>6. account[u] = "open" /\ Spent' = Spent
  BY <1>1, <1>2 DEF AccountGone, Spent
<1>7. r \notin Settled /\ Settled' = Settled \cup {r}
  BY <1>1, Settles DEF Settling
<1>8. B!Settle(r)
  BY <1>7 DEF B!Settle, Settled
<1>9. B!OpenPot(u, g)
  BY <1>1, <1>5, <1>6 DEF B!OpenPot, Spent, Pots, OwnerOf
<1> QED BY <1>8, <1>9

\* A goal that is deleted gives its owner what is in it, nothing or something.
LEMMA DeletionDropsPot ==
  ASSUME IInv, RowsInv, NEW r \in Requests, DeleteGoalCommit(r)
  PROVE  B!Settle(r) /\ \E u \in Users, g \in GoalIds : B!DropPot(u, g)
<1>1. /\ pc[r] = "commit" /\ call[r].op = "delete_goal" /\ Finish(r, 200) /\ InFlight(r)
      /\ goal' = [goal EXCEPT ![call[r].goal].state = "deleted", ![call[r].goal].current = 0]
      /\ UNCHANGED <<account, bought>>
      /\ IF seen[r].pot = 0 THEN UNCHANGED wallet
         ELSE wallet' = [wallet EXCEPT ![call[r].user] = seen[r].balance + seen[r].pot]
  BY DEF DeleteGoalCommit, Is, InFlight
<1>2. PICK u \in Users, g \in GoalIds : u = call[r].user /\ g = call[r].goal
  BY InvParts DEF TypeOK, Call
<1>3. goal \in [GoalIds -> Goal] /\ wallet \in [Users -> Int] /\ goal[g].current \in Nat
  BY InvParts DEF TypeOK, Goal
<1>4. ChangesGoal(r, g)
  BY <1>1, <1>2 DEF ChangesGoal
<1>5. goal[g].state = "live" /\ goal[g].owner = u /\ seen[r].pot = goal[g].current
  BY <1>2, <1>4 DEF RowsInv, GoalIsRead, LiveGoals
<1>6. wallet' = [wallet EXCEPT ![u] = @ + goal[g].current]
  <2>1. CASE seen[r].pot = 0
    <3>1. wallet[u] + goal[g].current = wallet[u]
      BY <1>3, <1>5, <2>1
    <3> QED BY <1>1, <1>3, <2>1, <3>1
  <2>2. CASE seen[r].pot # 0
    <3>1. seen[r].balance = wallet[u]
      BY <1>1, <1>2, <2>2, ReadIsCurrent DEF NewBalance, Payee
    <3> QED BY <1>1, <1>2, <1>5, <2>2, <3>1
  <2> QED BY <2>1, <2>2
<1>7. \A h \in GoalIds :
        /\ goal'[h].state = IF h = g THEN "deleted" ELSE goal[h].state
        /\ goal'[h].owner = goal[h].owner
        /\ goal'[h].current = IF h = g THEN 0 ELSE goal[h].current
  BY <1>1, <1>2, <1>3 DEF Goal
<1>8. /\ Pots' = [Pots EXCEPT ![g] = 0] /\ OwnerOf(goal') = [OwnerOf(goal) EXCEPT ![g] = NoOwner]
      /\ OwnerOf(goal)[g] = u /\ Pots[g] = goal[g].current
  BY <1>5, <1>7 DEF Pots, OwnerOf
<1>9. Spent' = Spent
  BY <1>1 DEF Spent
<1>10. r \notin Settled /\ Settled' = Settled \cup {r}
  BY <1>1, Settles DEF Settling
<1>11. B!Settle(r)
  BY <1>10 DEF B!Settle, Settled
<1>12. B!DropPot(u, g)
  BY <1>1, <1>6, <1>8, <1>9 DEF B!DropPot, Spent, Pots, OwnerOf
<1> QED BY <1>11, <1>12

\* A registration makes a member, and pays for a referral if there is one.
LEMMA RegistrationJoins ==
  ASSUME IInv, RowsInv, NEW r \in Requests, RegisterCommit(r)
  PROVE  B!Settle(r) /\ \E u \in Users : B!Join(u) \/ \E f \in Users : B!JoinReferred(u, f)
<1>1. /\ pc[r] = "commit" /\ call[r].op = "register" /\ Finish(r, 200) /\ InFlight(r)
      /\ account' = [account EXCEPT ![call[r].user] = "open"]
      /\ UNCHANGED <<goal, bought>>
      /\ IF IsReferred(r)
           THEN wallet' = [wallet EXCEPT ![call[r].friend] = seen[r].balance + ReferrerSats,
                                         ![call[r].user] = WelcomeSats]
           ELSE UNCHANGED wallet
  BY DEF RegisterCommit, Is, InFlight
<1>2. PICK u \in Users, f \in Users : u = call[r].user /\ f = call[r].friend
  BY InvParts DEF TypeOK, Call
<1>3. account[u] = "none"
  BY <1>1, <1>2, InvParts DEF FlowInv, Registrants, Registers
<1>4. r \notin Settled /\ Settled' = Settled \cup {r}
  BY <1>1, Settles DEF Settling
<1>5. B!Settle(r)
  BY <1>4 DEF B!Settle, Settled
<1>6. Pots' = Pots /\ OwnerOf(goal)' = OwnerOf(goal) /\ Spent' = Spent
  BY <1>1 DEF Pots, OwnerOf, Spent
<1>7. CASE ~ IsReferred(r)
  <2>1. B!Join(u)
    BY <1>1, <1>2, <1>3, <1>6, <1>7 DEF B!Join, Pots, OwnerOf, Spent
  <2> QED BY <1>5, <2>1
<1>8. CASE IsReferred(r)
  <2>1. codeLock[f] = r /\ u # f
    BY <1>1, <1>2, <1>8, InvParts DEF IsReferred, FlowInv, CodeHeld
  <2>2. account[f] = "open"
    BY <1>1, <1>2, <2>1 DEF RowsInv, SharersOpen, KeySharers
  <2>3. seen[r].balance = wallet[f]
    BY <1>1, <1>2, <1>8, ReadIsCurrent DEF NewBalance, Payee
  <2>4. wallet' = [wallet EXCEPT ![u] = WelcomeSats, ![f] = @ + ReferrerSats]
    BY <1>1, <1>2, <1>8, <2>1, <2>3, InvParts DEF TypeOK
  <2>5. B!JoinReferred(u, f)
    BY <1>1, <1>2, <1>3, <1>6, <2>2, <2>4 DEF B!JoinReferred, Pots, OwnerOf, Spent
  <2> QED BY <1>5, <2>5
<1> QED BY <1>7, <1>8

\* A deletion that goes through is a member leaving.
LEMMA ClosingLeaves ==
  ASSUME IInv, RowsInv, NEW r \in Requests, ClosesNow(r)
  PROVE  \E u \in Users : B!Leave(u)
<1>1. PICK u \in Users : u = call[r].user
  BY InvParts DEF TypeOK, Call
<1>2. /\ account' = [account EXCEPT ![u] = "gone"] /\ wallet' = [wallet EXCEPT ![u] = 0]
      /\ bought' = {t \in bought : t.user # u} /\ call[r].op = "close" /\ InFlight(r)
  BY <1>1 DEF ClosesNow, CloseCommit, Is, InFlight
<1>3. /\ account[u] = "open" /\ Finish(r, 200)
      /\ \A g \in GoalIds :
           goal'[g] = IF g \in LiveGoals(u)
                        THEN [goal[g] EXCEPT !.state = "deleted", !.current = 0] ELSE goal[g]
  BY <1>1, ClosingIsAlone
<1>4. \A g \in GoalIds :
        /\ goal'[g].state = IF g \in LiveGoals(u) THEN "deleted" ELSE goal[g].state
        /\ goal'[g].owner = goal[g].owner
        /\ goal'[g].current = IF g \in LiveGoals(u) THEN 0 ELSE goal[g].current
  <2>2. \A g \in GoalIds : goal[g] \in Goal
    BY InvParts DEF TypeOK
  <2>3. ASSUME NEW g \in GoalIds, g \in LiveGoals(u)
        PROVE  /\ goal'[g].state = "deleted" /\ goal'[g].owner = goal[g].owner
               /\ goal'[g].current = 0
    <3>1. goal[g] \in Goal /\ goal'[g] = [goal[g] EXCEPT !.state = "deleted", !.current = 0]
      BY <1>3, <2>2, <2>3
    <3> QED BY ONLY <3>1, DeletedGoal
  <2>4. ASSUME NEW g \in GoalIds, g \notin LiveGoals(u) PROVE goal'[g] = goal[g]
    BY <1>3, <2>4
  <2> QED BY <2>3, <2>4
<1>5. \A g \in GoalIds : g \in LiveGoals(u) <=> OwnerOf(goal)[g] = u
  BY BankAssumption DEF LiveGoals, OwnerOf
<1>6. /\ Pots' = [g \in GoalIds |-> IF OwnerOf(goal)[g] = u THEN 0 ELSE Pots[g]]
      /\ OwnerOf(goal)' = [g \in GoalIds |-> IF OwnerOf(goal)[g] = u THEN NoOwner
                                              ELSE OwnerOf(goal)[g]]
  BY <1>4, <1>5 DEF Pots, OwnerOf, LiveGoals
<1>7. Spent' = {x \in Spent : x[1] # u}
  BY <1>2 DEF Spent
<1>8. Settled' = Settled
  BY <1>2, <1>3, Settles DEF Settling
<1>9. B!Leave(u)
  BY <1>2, <1>3, <1>6, <1>7, <1>8 DEF B!Leave, Pots, OwnerOf, Spent, Settled
<1> QED BY <1>9

\* A step of a handler that does not commit is nothing to the Bank.
LEMMA StepIsStutter ==
  ASSUME IInv, RowsInv, NEW r \in Requests,
         \/ LockWallet(r) \/ LockGoal(r) \/ PurchaseDeclined(r) \/ PurchaseInsert(r)
         \/ ScoreFails(r) \/ RegisterInsert(r) \/ RegisterReferral(r) \/ RegisterLockCode(r)
         \/ CloseLockCode(r) \/ CloseLockGoals(r) \/ DeadlockVictim(r)
  PROVE  UNCHANGED B!bankVars
<1>1. CASE \E step, s : Proceed(r, step, s)
  BY <1>1, ProceedIsStutter
<1>2. CASE \E code \in {CacheError, 404, 409, 500, 503} : Refuse(r, code) /\ InFlight(r)
  BY <1>2, RefusedIsStutter DEF CacheError
<1>3. CASE DeadlockVictim(r)
  <2>1. WaitsFor(r) # {} /\ Refuse(r, 500)
    BY <1>3 DEF DeadlockVictim, OnCycle
  <2>2. InFlight(r)
    BY <2>1 DEF WaitsFor, InFlight
  <2> QED BY <1>2, <2>1, <2>2
<1>4. CASE PurchaseDeclined(r) \/ PurchaseInsert(r) \/ ScoreFails(r) \/ RegisterInsert(r)
  BY <1>1, <1>2, <1>4 DEF PurchaseDeclined, PurchaseInsert, ScoreFails, RegisterInsert, Is,
     InFlight, DuplicateStatus
<1>5. CASE LockWallet(r) \/ LockGoal(r)
  BY <1>1, <1>2, <1>5 DEF LockWallet, LockGoal, InFlight
<1>6. CASE RegisterReferral(r) \/ RegisterLockCode(r) \/ CloseLockCode(r) \/ CloseLockGoals(r)
  BY <1>1, <1>2, <1>6 DEF RegisterReferral, RegisterLockCode, CloseLockCode, CloseLockGoals,
     Is, InFlight
<1> QED BY <1>3, <1>4, <1>5, <1>6

\* A commit is one step of the Bank, or none.
LEMMA CommitIsBankStep ==
  ASSUME IInv, RowsInv, KeysInv, NEW r \in Requests,
         \/ PurchaseCommit(r) \/ CreateGoalCommit(r) \/ AllocateCommit(r) \/ DeleteGoalCommit(r)
         \/ RoundupCommit(r) \/ BoostCommit(r) \/ RegisterCommit(r) \/ CloseCommit(r)
  PROVE  B!BankNext \/ UNCHANGED B!bankVars
<1>1. CASE PurchaseCommit(r)
  BY <1>1, PurchasePays DEF B!BankNext
<1>2. CASE CreateGoalCommit(r)
  <2>1. CASE AccountGone(r)
    BY <1>2, <2>1, RefusedIsStutter DEF CreateGoalCommit, Is, InFlight
  <2>2. CASE ~ AccountGone(r)
    BY <1>2, <2>2, CreationOpensPot DEF B!BankNext
  <2> QED BY <2>1, <2>2
<1>3. CASE AllocateCommit(r)
  <2>1. CASE ~ Affordable(r)
    BY <1>3, <2>1, RefusedIsStutter DEF AllocateCommit, Is, InFlight
  <2>2. CASE Affordable(r)
    BY <1>3, <2>2, AllocationSaves DEF B!BankNext
  <2> QED BY <2>1, <2>2
<1>4. CASE DeleteGoalCommit(r)
  BY <1>4, DeletionDropsPot DEF B!BankNext
<1>5. CASE RoundupCommit(r) \/ BoostCommit(r)
  BY <1>5, SettingsAreStutter
<1>6. CASE RegisterCommit(r)
  BY <1>6, RegistrationJoins DEF B!BankNext
<1>7. CASE CloseCommit(r)
  <2>1. CASE ClosesNow(r)
    BY <2>1, ClosingLeaves DEF B!BankNext
  <2>2. CASE ~ ClosesNow(r)
    <3>1. /\ Refuse(r, 200) \/ Refuse(r, 500)
          /\ InFlight(r) /\ call[r].op \notin Settling
      BY <1>7, <2>2 DEF ClosesNow, CloseCommit, Is, InFlight, Settling
    <3> QED BY <3>1, RefusedIsStutter
  <2> QED BY <2>1, <2>2
<1> QED BY <1>1, <1>2, <1>3, <1>4, <1>5, <1>6, <1>7

\* Every step is a step of the Bank, or none.
LEMMA StepIsBankStep ==
  IInv /\ RowsInv /\ KeysInv /\ [Next]_vars => [B!BankNext]_B!bankVars
<1> SUFFICES ASSUME IInv, RowsInv, KeysInv, [Next]_vars
             PROVE  B!BankNext \/ UNCHANGED B!bankVars
  OBVIOUS
<1>1. CASE \E r \in Requests : Begin(r) \/ Continue(r)
  BY <1>1, BeginIsStutter, StepIsStutter, CommitIsBankStep DEF Continue
<1>2. CASE Restart
  <2>1. /\ UNCHANGED <<account, wallet, goal, bought, call>>
        /\ \A r \in Requests : IF InFlight(r) THEN reply'[r] = 1 ELSE reply'[r] = reply[r]
    BY <1>2 DEF Restart, db
  <2>2. \A r \in Requests : InFlight(r) => reply[r] = 0
    BY DEF RowsInv, Asked, InFlight
  <2>3. UNCHANGED Settled
    BY <2>1, <2>2, UnansweredSettlesNothing, InvParts
  <2> QED BY <2>1, <2>3, BankStateKept DEF BankState, OwnerOf, Pots, Spent
<1>3. CASE Tick \/ UNCHANGED vars
  <2>1. UNCHANGED <<account, wallet, goal, bought, call, reply>>
    BY <1>3 DEF Tick, vars, db
  <2> QED BY <2>1, BankStateKept DEF BankState, Settled, OwnerOf, Pots, Spent
<1> QED BY <1>1, <1>2, <1>3 DEF Next, Idle

\* The Bank opens as the API does.
LEMMA InitIsBankInit == Init => B!BankInit
<1> SUFFICES ASSUME Init PROVE B!BankInit
  OBVIOUS
<1>1. Pots = [g \in GoalIds |-> 0]
  BY CardsAssumption DEF Init, Pots
<1>2. Spent = {} /\ Settled = {}
  BY DEF Init, Spent, Settled
<1> QED BY <1>1, <1>2 DEF Init, B!BankInit, Pots, Spent, Settled, OwnerOf

\* The handlers, interleaved, crashing and retried, look to their clients like the Bank:
\* each request takes effect at most once and in one step (services.py, transactions.py,
\* goals.py, routers/auth.py).
THEOREM CardsImplementsBank == Spec => ImplementsBank
<1>1. Init => RowsInv /\ KeysInv
  BY InitRows DEF Init, KeysInv, KeysPending, PaidOnce, Inserted
<1> QED BY <1>1, InitInv, InitIsBankInit, Inductive, RowsInductive, KeysInductive,
           StepIsBankStep, PTL DEF Spec, ImplementsBank, B!BankSpec

-----------------------------------------------------------------------------
(* Who waits for whom. *)

\* The order in which every handler but a deletion takes its locks.
Rank(r) ==
  CASE pc[r] = "insert" -> 0
    [] pc[r] \in {"code", "goal"} -> 1
    [] pc[r] = "wallet" -> 2
    [] pc[r] = "commit" -> 3
    [] OTHER -> 4

\* Only a deletion has several goals to lock.
GoalsByDeletion == \A r \in Requests : pc[r] = "goals" => call[r].op = "close"

\* A request that waits is at one of the steps that can.
LEMMA WaitersAreRanked ==
  ASSUME GoalsByDeletion, NEW r \in Requests, WaitsFor(r) # {}, call[r].op # "close"
  PROVE  Rank(r) \in 0..2
BY DEF WaitsFor, Rank, GoalsByDeletion

\* A request waits for one that is further on, or deletes an account.
LEMMA WaitsGoUp ==
  ASSUME IInv, RowsInv, GoalsByDeletion, NEW r \in Requests, call[r].op # "close",
         NEW q \in WaitsFor(r)
  PROVE  q \in Requests /\ q # r /\ (call[q].op = "close" \/ Rank(r) < Rank(q))
<1>1. /\ walletLock \in [Users -> Requests \cup {Nobody}]
      /\ goalLock \in [GoalIds -> Requests \cup {Nobody}]
      /\ codeLock \in [Users -> Requests \cup {Nobody}]
      /\ Payee(r) \in Users
  BY InvParts, PayeeType DEF TypeOK
<1>2. CASE pc[r] = "insert"
  BY <1>2 DEF WaitsFor, SameInsert, Rank
<1>3. CASE pc[r] = "code"
  <2>1. q = codeLock[Payee(r)] /\ q # Nobody /\ q # r
    BY <1>3 DEF WaitsFor
  <2>2. \/ pc[q] \in {"wallet", "commit"}
        \/ call[q].op = "close"
    BY <1>1, <2>1, InvParts DEF FlowInv, CodeHeld
  <2> QED BY <1>1, <1>3, <2>1, <2>2 DEF Rank
<1>4. CASE pc[r] = "goal"
  <2>1. PICK g \in GoalIds : q = goalLock[g] /\ q # Nobody /\ q # r
    BY <1>4 DEF WaitsFor, LiveGoals
  <2>2. \/ pc[q] \in {"wallet", "commit"}
        \/ call[q].op = "close"
    BY <1>1, <2>1 DEF RowsInv, GoalHeld, ChangesGoal, DeletesGoal
  <2> QED BY <1>1, <1>4, <2>1, <2>2 DEF Rank
<1>5. CASE pc[r] = "wallet"
  <2>1. q = walletLock[Payee(r)] /\ q # Nobody /\ q # r
    BY <1>5 DEF WaitsFor
  <2>2. pc[q] = "commit"
    BY <1>1, <2>1, InvParts DEF FlowInv, WalletHeld
  <2> QED BY <1>1, <1>5, <2>1, <2>2 DEF Rank
<1>6. CASE pc[r] \notin {"insert", "code", "goal", "wallet"}
  BY <1>6 DEF WaitsFor, GoalsByDeletion
<1> QED BY <1>2, <1>3, <1>4, <1>5, <1>6

\* The place after the i-th of a circle of n.
After(i, n) == IF i = n THEN 1 ELSE i + 1

\* A circle may be read from any of its members.
LEMMA CirclesTurn ==
  ASSUME NEW n \in 1..Cardinality({q \in Requests : WaitsFor(q) # {}}),
         NEW p \in [1..n -> {q \in Requests : WaitsFor(q) # {}}],
         \A i \in 1..n : p[After(i, n)] \in WaitsFor(p[i]),
         NEW j \in 1..n
  PROVE  OnCycle(p[j])
<1> DEFINE waiting == {q \in Requests : WaitsFor(q) # {}}
           At(i) == IF i + j - 1 <= n THEN i + j - 1 ELSE i + j - 1 - n
           turned == [i \in 1..n |-> p[At(i)]]
<1>1. n \in Nat /\ j \in Nat
  OBVIOUS
<1>2. \A i \in 1..n : At(i) \in 1..n
  BY <1>1
<1>3. turned \in [1..n -> waiting] /\ \A i \in 1..n : turned[i] = p[At(i)]
  BY <1>2
<1>4. At(1) = j /\ After(At(n), n) = j /\ \A i \in 1..(n - 1) : At(i + 1) = After(At(i), n)
  BY <1>1 DEF After
<1>5. \A i \in 1..(n - 1) : i \in 1..n /\ i + 1 \in 1..n
  BY <1>1
<1>6. n \in 1..n /\ 1 \in 1..n
  BY <1>1
<1> HIDE DEF turned, At, waiting
<1>7. turned[1] = p[j] /\ p[j] \in WaitsFor(turned[n])
  BY <1>2, <1>3, <1>4, <1>6
<1>8. \A i \in 1..(n - 1) : turned[i + 1] \in WaitsFor(turned[i])
  BY <1>2, <1>3, <1>4, <1>5
<1> QED BY <1>3, <1>7, <1>8 DEF OnCycle, waiting

\* Every member of a circle is waited for by one before it.
LEMMA CirclesClose ==
  ASSUME NEW r \in Requests, OnCycle(r)
  PROVE  \E n \in 1..Cardinality({q \in Requests : WaitsFor(q) # {}}) :
         \E p \in [1..n -> {q \in Requests : WaitsFor(q) # {}}] :
           p[1] = r /\ \A i \in 1..n : p[After(i, n)] \in WaitsFor(p[i])
<1> DEFINE waiting == {q \in Requests : WaitsFor(q) # {}}
<1>1. PICK n \in 1..Cardinality(waiting) : \E p \in [1..n -> waiting] :
        /\ p[1] = r
        /\ \A i \in 1..(n - 1) : p[i + 1] \in WaitsFor(p[i])
        /\ r \in WaitsFor(p[n])
  BY DEF OnCycle
<1>2. PICK p \in [1..n -> waiting] :
        /\ p[1] = r
        /\ \A i \in 1..(n - 1) : p[i + 1] \in WaitsFor(p[i])
        /\ r \in WaitsFor(p[n])
  BY <1>1
<1>3. n \in Nat /\ \A i \in 1..n : i = n \/ i \in 1..(n - 1)
  OBVIOUS
<1>4. \A i \in 1..n : p[After(i, n)] \in WaitsFor(p[i])
  BY <1>2, <1>3 DEF After
<1> QED BY <1>2, <1>4

\* A circle has a deletion in it: other requests only wait upwards, and there are no more
\* than three steps to wait at.
LEMMA CirclesHaveDeletions ==
  ASSUME IInv, RowsInv, GoalsByDeletion, NEW r \in Requests, OnCycle(r)
  PROVE  \E q \in Requests : OnCycle(q) /\ call[q].op = "close"
<1> DEFINE waiting == {q \in Requests : WaitsFor(q) # {}}
<1>1. PICK n \in 1..Cardinality(waiting) : \E p \in [1..n -> waiting] :
        p[1] = r /\ \A i \in 1..n : p[After(i, n)] \in WaitsFor(p[i])
  BY CirclesClose
<1>2. PICK p \in [1..n -> waiting] :
        p[1] = r /\ \A i \in 1..n : p[After(i, n)] \in WaitsFor(p[i])
  BY <1>1
<1>3. \A i \in 1..n : After(i, n) \in 1..n /\ p[i] \in Requests /\ WaitsFor(p[i]) # {}
  BY DEF After
<1>4. SUFFICES ASSUME \A i \in 1..n : call[p[i]].op # "close" PROVE FALSE
  BY <1>1, <1>2, <1>3, CirclesTurn
<1>5. \A i \in 1..n : Rank(p[i]) \in 0..2 /\ Rank(p[i]) < Rank(p[After(i, n)])
  BY <1>2, <1>3, <1>4, WaitersAreRanked, WaitsGoUp
<1> DEFINE a == After(1, n)
           b == After(a, n)
           c == After(b, n)
<1>6. 1 \in 1..n /\ a \in 1..n /\ b \in 1..n /\ c \in 1..n
  BY <1>3
<1>7. Rank(p[1]) < Rank(p[a]) /\ Rank(p[a]) < Rank(p[b]) /\ Rank(p[b]) < Rank(p[c])
  BY <1>5, <1>6
<1>8. {Rank(p[1]), Rank(p[a]), Rank(p[b]), Rank(p[c])} \subseteq 0..2
  BY <1>5, <1>6
<1> HIDE DEF a, b, c
<1> QED BY <1>7, <1>8

-----------------------------------------------------------------------------
(* What becomes of a request. *)

\* A step of a handler ends the request with an answer, or takes it on.
LEMMA ContinueShape ==
  ASSUME NEW r \in Requests, Continue(r)
  PROVE  /\ InFlight(r)
         /\ \/ \E code \in Replies \ {0, 1} : Finish(r, code)
            \/ \E step \in Steps \ {"new", "done"} : \E s :
                 Proceed(r, step, s) /\ (step = "goals" => call[r].op = "close")
<1>1. CASE LockWallet(r) \/ LockGoal(r)
  BY <1>1 DEF LockWallet, LockGoal, Refuse, InFlight, Replies, Steps
<1>2. CASE PurchaseDeclined(r) \/ PurchaseInsert(r) \/ ScoreFails(r) \/ RegisterInsert(r)
  BY <1>2 DEF PurchaseDeclined, PurchaseInsert, ScoreFails, RegisterInsert, Refuse, Is,
     InFlight, Replies, Steps, DuplicateStatus, CacheError
<1>3. CASE RegisterReferral(r) \/ RegisterLockCode(r) \/ CloseLockCode(r) \/ CloseLockGoals(r)
  <2>1. CASE RegisterReferral(r)
    BY <2>1 DEF RegisterReferral, Refuse, Is, InFlight, Replies, Steps
  <2>2. CASE RegisterLockCode(r)
    BY <2>2 DEF RegisterLockCode, Is, InFlight, Steps
  <2>3. CASE CloseLockCode(r)
    BY <2>3 DEF CloseLockCode, Is, InFlight, Steps
  <2>4. CASE CloseLockGoals(r)
    BY <2>4 DEF CloseLockGoals, Is, InFlight, Steps
  <2> QED BY <1>3, <2>1, <2>2, <2>3, <2>4
<1>4. CASE \/ PurchaseCommit(r) \/ CreateGoalCommit(r) \/ AllocateCommit(r)
           \/ DeleteGoalCommit(r) \/ RegisterCommit(r)
  <2>1. CASE PurchaseCommit(r)
    BY <2>1 DEF PurchaseCommit, Refuse, Is, InFlight, Replies
  <2>2. CASE CreateGoalCommit(r)
    BY <2>2 DEF CreateGoalCommit, Refuse, Is, InFlight, Replies
  <2>3. CASE AllocateCommit(r)
    BY <2>3 DEF AllocateCommit, Refuse, Is, InFlight, Replies
  <2>4. CASE DeleteGoalCommit(r)
    BY <2>4 DEF DeleteGoalCommit, Refuse, Is, InFlight, Replies
  <2>5. CASE RegisterCommit(r)
    BY <2>5 DEF RegisterCommit, Is, InFlight, Replies
  <2> QED BY <1>4, <2>1, <2>2, <2>3, <2>4, <2>5
<1>5. CASE RoundupCommit(r) \/ BoostCommit(r) \/ CloseCommit(r)
  <2>1. CASE RoundupCommit(r)
    BY <2>1 DEF RoundupCommit, Refuse, Is, InFlight, Replies
  <2>2. CASE BoostCommit(r)
    BY <2>2 DEF BoostCommit, Refuse, Is, InFlight, Replies
  <2>3. CASE CloseCommit(r)
    <3>1. pc[r] = "commit" /\ (Finish(r, 200) \/ Finish(r, 500))
      BY <2>3, Zenon DEF CloseCommit, Refuse, Is
    <3> QED BY <3>1 DEF InFlight, Replies
  <2> QED BY <1>5, <2>1, <2>2, <2>3
<1>6. CASE DeadlockVictim(r)
  <2>1. WaitsFor(r) # {} /\ Finish(r, 500)
    BY <1>6 DEF DeadlockVictim, OnCycle, Refuse
  <2> QED BY <2>1 DEF WaitsFor, InFlight, Replies
<1> QED BY <1>1, <1>2, <1>3, <1>4, <1>5, <1>6 DEF Continue

\* A request that has arrived stays the same, and an answer is given once.
LEMMA RequestsStay ==
  ASSUME IInv, RowsInv, [Next]_vars, NEW q \in Requests, pc[q] # "new"
  PROVE  /\ call'[q] = call[q] /\ pc'[q] # "new"
         /\ reply[q] # 0 => reply'[q] = reply[q] /\ pc[q] = "done" /\ pc'[q] = "done"
<1>1. /\ pc \in [Requests -> Steps] /\ reply \in [Requests -> Replies]
      /\ reply[q] # 0 => pc[q] = "done"
  BY InvParts DEF TypeOK, RowsInv, Asked
<1>2. ASSUME NEW r \in Requests, Begin(r) PROVE pc[r] = "new" /\ (q # r => UNCHANGED <<pc[q], call[q], reply[q]>>)
  BY <1>2, ArrivalPlaces
<1>3. ASSUME NEW r \in Requests, Continue(r)
      PROVE  /\ InFlight(r) /\ call'[q] = call[q]
             /\ q # r => UNCHANGED <<pc[q], reply[q]>>
             /\ pc'[r] # "new"
  BY <1>1, <1>3, ContinueShape DEF Finish, Proceed
<1>4. CASE Restart
  BY <1>1, <1>4 DEF Restart, InFlight
<1>5. CASE Tick \/ UNCHANGED vars
  BY <1>1, <1>5 DEF Tick, vars
<1> QED BY <1>1, <1>2, <1>3, <1>4, <1>5 DEF Next, Idle, InFlight

\* What writes the database: a commit that is not refused.
Commits(r) ==
  /\ ~ \E code : Refuse(r, code)
  /\ \/ PurchaseCommit(r) \/ CreateGoalCommit(r) \/ AllocateCommit(r) \/ DeleteGoalCommit(r)
     \/ RoundupCommit(r) \/ BoostCommit(r) \/ RegisterCommit(r) \/ ClosesNow(r)

\* The database changes by commits only.
LEMMA StepKinds ==
  ASSUME IInv, [Next]_vars
  PROVE  UNCHANGED db \/ \E r \in Requests : Commits(r)
<1>1. ASSUME NEW r \in Requests, Continue(r) PROVE UNCHANGED db \/ Commits(r)
  <2>1. \/ \E code : Refuse(r, code)
        \/ \E step, s : Proceed(r, step, s)
        \/ PurchaseCommit(r) \/ CreateGoalCommit(r) \/ AllocateCommit(r) \/ DeleteGoalCommit(r)
        \/ RoundupCommit(r) \/ BoostCommit(r) \/ RegisterCommit(r) \/ CloseCommit(r)
    <3>1. CASE LockWallet(r) \/ LockGoal(r)
      BY <3>1, Zenon DEF LockWallet, LockGoal
    <3>2. CASE PurchaseDeclined(r) \/ PurchaseInsert(r) \/ ScoreFails(r) \/ RegisterInsert(r)
      BY <3>2, Zenon DEF PurchaseDeclined, PurchaseInsert, ScoreFails, RegisterInsert
    <3>3. CASE RegisterReferral(r) \/ RegisterLockCode(r)
      BY <3>3, Zenon DEF RegisterReferral, RegisterLockCode
    <3>4. CASE CloseLockCode(r) \/ CloseLockGoals(r) \/ DeadlockVictim(r)
      BY <3>4, Zenon DEF CloseLockCode, CloseLockGoals, DeadlockVictim
    <3> QED BY <1>1, <3>1, <3>2, <3>3, <3>4, Zenon DEF Continue
  <2>2. (\E code : Refuse(r, code)) \/ (\E step, s : Proceed(r, step, s)) => UNCHANGED db
    BY DEF Refuse, Proceed
  <2>3. CloseCommit(r) => (\E code : Refuse(r, code)) \/ ClosesNow(r)
    BY DEF CloseCommit, ClosesNow
  <2> QED BY <2>1, <2>2, <2>3, Zenon DEF Commits
<1>2. (\E r \in Requests : Begin(r)) \/ Restart \/ Tick \/ UNCHANGED vars => UNCHANGED db
  BY ArrivalPlaces DEF Restart, Tick, vars
<1> QED BY <1>1, <1>2 DEF Next, Idle

-----------------------------------------------------------------------------
(* Failures. *)

\* Only a deletion is about to lock several goals, an account that is gone has been
\* deleted, and the database fails a purchase with a key of its own only when its account
\* is being.
FailuresInv == GoalsByDeletion /\ ClosedBySomebody /\ RacesNeverErr

\* Whoever waits in a circle waits for one who waits for another.
LEMMA CircleOfThree ==
  ASSUME NEW r \in Requests, OnCycle(r)
  PROVE  \E q \in WaitsFor(r) : \E v \in WaitsFor(q) : WaitsFor(v) # {}
<1> DEFINE waiting == {q \in Requests : WaitsFor(q) # {}}
<1>1. PICK n \in 1..Cardinality(waiting) : \E p \in [1..n -> waiting] :
        p[1] = r /\ \A i \in 1..n : p[After(i, n)] \in WaitsFor(p[i])
  BY CirclesClose
<1>2. PICK p \in [1..n -> waiting] :
        p[1] = r /\ \A i \in 1..n : p[After(i, n)] \in WaitsFor(p[i])
  BY <1>1
<1>3. 1 \in 1..n /\ \A i \in 1..n : After(i, n) \in 1..n
  BY DEF After
<1> QED BY <1>2, <1>3

\* Who waits for the lock of a wallet waits for a commit, and if that waits as well it
\* is the deletion of the wallet's owner.
LEMMA WalletHolderCloses ==
  ASSUME IInv, NEW r \in Requests, pc[r] = "wallet", NEW q \in WaitsFor(r), WaitsFor(q) # {}
  PROVE  q \in Requests /\ ClosesAccount(q, Payee(r))
<1>1. q = walletLock[Payee(r)] /\ q # Nobody
  BY DEF WaitsFor
<1>2. q \in Requests /\ pc[q] = "commit" /\ Payee(q) = Payee(r)
  BY <1>1, InvParts, PayeeType DEF TypeOK, FlowInv, WalletHeld
<1>3. call[q].op = "close"
  BY <1>2 DEF WaitsFor
<1> QED BY <1>2, <1>3 DEF ClosesAccount, Payee

\* A purchase that waits in a circle waits for the deletion of its account.
LEMMA DeadlockedPurchase ==
  ASSUME IInv, RowsInv, GoalsByDeletion, NEW r \in Requests, OnCycle(r), call[r].op = "purchase"
  PROVE  \E q \in Requests : ClosesAccount(q, call[r].user)
<1>1. PICK q \in WaitsFor(r) : \E v \in WaitsFor(q) : WaitsFor(v) # {}
  BY CircleOfThree
<1>2. CASE pc[r] = "wallet"
  BY <1>1, <1>2, WalletHolderCloses DEF Payee
<1>3. CASE pc[r] = "insert"
  <2>1. q \in Requests /\ call[q].op = "purchase" /\ call[q].user = call[r].user
        /\ pc[q] \in {"wallet", "commit"}
    BY <1>1, <1>3 DEF WaitsFor, SameInsert
  <2>2. pc[q] = "wallet"
    BY <1>1, <2>1 DEF WaitsFor
  <2> QED BY <1>1, <2>1, <2>2, WalletHolderCloses DEF Payee
<1>4. CASE pc[r] \notin {"wallet", "insert"}
  BY <1>1, <1>4, InvParts DEF WaitsFor, FlowInv, StepsOf, GoalsByDeletion
<1> QED BY <1>2, <1>3, <1>4

\* A purchase that is answered with 500 was on such a circle, or found no account, or its
\* key was empty.
LEMMA FailedPurchase ==
  ASSUME IInv, RowsInv, FailuresInv, NEW r \in Requests, Continue(r), call[r].op = "purchase",
         call[r].key # EmptyKey, reply'[r] = 500
  PROVE  \E q \in Requests : ClosesAccount(q, call[r].user)
<1>1. /\ reply \in [Requests -> Replies] /\ account \in [Users -> {"none", "open", "gone"}]
      /\ call[r].user \in Users
  BY InvParts DEF TypeOK, Call
<1>2. InFlight(r) /\ reply[r] = 0
  BY ContinueShape DEF RowsInv, Asked, InFlight
<1>3. CASE DeadlockVictim(r)
  BY <1>3, DeadlockedPurchase DEF DeadlockVictim, FailuresInv
<1>4. CASE PurchaseInsert(r) /\ AccountGone(r)
  <2>1. account[call[r].user] = "gone"
    BY <1>1, <1>2, <1>4 DEF AccountGone, RowsInv, Asked, InFlight
  <2> QED BY <1>1, <2>1 DEF FailuresInv, ClosedBySomebody
<1>5. CASE PurchaseInsert(r) /\ ~ AccountGone(r)
  BY <1>1, <1>2, <1>5 DEF PurchaseInsert, Refuse, Finish, Proceed, DuplicateStatus
<1>6. CASE PurchaseDeclined(r) \/ ScoreFails(r) \/ PurchaseCommit(r)
  BY <1>1, <1>6 DEF PurchaseDeclined, ScoreFails, PurchaseCommit, Refuse, Finish, CacheError
<1>7. CASE LockWallet(r) \/ LockGoal(r)
  BY <1>1, <1>2, <1>7 DEF LockWallet, LockGoal, Refuse, Finish, Proceed
<1> QED BY <1>3, <1>4, <1>5, <1>6, <1>7
   DEF Continue, CreateGoalCommit, AllocateCommit, DeleteGoalCommit, RoundupCommit,
       BoostCommit, RegisterInsert, RegisterReferral, RegisterLockCode, RegisterCommit,
       CloseLockCode, CloseLockGoals, CloseCommit, Is

\* Accounts are only closed by deletions.
LEMMA GoneByDeletion ==
  ASSUME IInv, RowsInv, [Next]_vars, NEW u \in Users, account[u] # "gone", account'[u] = "gone"
  PROVE  \E q \in Requests : ClosesAccount(q, u)
<1>1. account \in [Users -> {"none", "open", "gone"}]
  BY InvParts DEF TypeOK
<1>2. CASE \E r \in Requests : ClosesNow(r)
  <2>1. PICK r \in Requests : ClosesNow(r)
    BY <1>2
  <2>2. call[r].op = "close" /\ pc[r] = "commit"
    BY <2>1 DEF ClosesNow, CloseCommit, Is
  <2>3. u = call[r].user
    BY <2>1, ClosingIsAlone
  <2> QED BY <2>2, <2>3 DEF ClosesAccount
<1>3. CASE \E r \in Requests : RegisterCommit(r)
  BY <1>1, <1>3 DEF RegisterCommit
<1>4. CASE UNCHANGED db
  BY <1>4 DEF db
<1>5. ASSUME NEW r \in Requests, Commits(r) PROVE ClosesNow(r) \/ RegisterCommit(r)
  <2>1. ~ UNCHANGED account
    OBVIOUS
  <2> QED BY <1>5, <2>1 DEF Commits, PurchaseCommit, CreateGoalCommit, AllocateCommit,
         DeleteGoalCommit, RoundupCommit, BoostCommit
<1> QED BY <1>2, <1>3, <1>4, <1>5, StepKinds

\* A request that comes to be answered with 500 has taken a step of its handler.
LEMMA FailuresAreAnswers ==
  ASSUME IInv, RowsInv, [Next]_vars, NEW r \in Requests, reply[r] # 500, reply'[r] = 500
  PROVE  Continue(r)
<1>1. reply \in [Requests -> Replies]
  BY InvParts DEF TypeOK
<1>2. ASSUME NEW q \in Requests, Begin(q) PROVE FALSE
  <2>1. q = r
    BY <1>2, ArrivalPlaces
  <2>2. CASE ArrivedSomehow(r)
    BY <1>1, <2>2 DEF ArrivedSomehow, Arrived
  <2>3. CASE RegisterArrive(r)
    BY <1>1, <2>3 DEF RegisterArrive
  <2> QED BY <1>2, <2>1, <2>2, <2>3, BeginArrives, InvParts
<1>3. ASSUME NEW q \in Requests, Continue(q) PROVE q = r
  BY <1>1, <1>3, ContinueShape DEF Finish, Proceed
<1>4. CASE Restart \/ Tick \/ UNCHANGED vars
  BY <1>4 DEF Restart, Tick, vars
<1> QED BY <1>2, <1>3, <1>4 DEF Next, Idle

\* Every step keeps the account of failures.
LEMMA FailuresInductive == IInv /\ RowsInv /\ FailuresInv /\ [Next]_vars => FailuresInv'
<1> SUFFICES ASSUME IInv, RowsInv, FailuresInv, [Next]_vars PROVE FailuresInv'
  OBVIOUS
<1>1. pc \in [Requests -> Steps] /\ reply \in [Requests -> Replies]
  BY InvParts DEF TypeOK
<1>2. \A q \in Requests : \A u : ClosesAccount(q, u) => ClosesAccount(q, u)'
  BY RequestsStay DEF ClosesAccount
<1>3. GoalsByDeletion'
  <2>1. ASSUME NEW r \in Requests, Begin(r) PROVE GoalsByDeletion'
    BY <2>1, ArrivalPlaces DEF FailuresInv, GoalsByDeletion
  <2>2. ASSUME NEW r \in Requests, Continue(r) PROVE GoalsByDeletion'
    BY <1>1, <2>2, ContinueShape DEF FailuresInv, GoalsByDeletion, Finish, Proceed
  <2>3. CASE Restart \/ Tick \/ UNCHANGED vars
    BY <2>3 DEF Restart, Tick, vars, FailuresInv, GoalsByDeletion
  <2> QED BY <2>1, <2>2, <2>3 DEF Next, Idle
<1>4. ClosedBySomebody'
  BY <1>2, GoneByDeletion DEF FailuresInv, ClosedBySomebody
<1>5. RacesNeverErr'
  <2>1. ASSUME NEW r \in Requests, NEW u, u = call'[r].user, call'[r].op = "purchase",
               call'[r].key # EmptyKey, reply'[r] = 500
        PROVE  \E q \in Requests : ClosesAccount(q, u)'
    <3>1. CASE reply[r] = 500
      <4>1. call'[r] = call[r]
        BY <3>1, RequestsStay DEF RowsInv, Asked
      <4> QED BY <1>2, <2>1, <3>1, <4>1 DEF FailuresInv, RacesNeverErr
    <3>2. CASE reply[r] # 500
      <4>1. Continue(r)
        BY <2>1, <3>2, FailuresAreAnswers
      <4>2. call'[r] = call[r]
        BY <4>1, ContinueShape, RequestsStay DEF InFlight
      <4> QED BY <1>2, <2>1, <4>1, <4>2, FailedPurchase
    <3> QED BY <3>1, <3>2
  <2> QED BY <2>1 DEF RacesNeverErr, ClosesAccount
<1> QED BY <1>3, <1>4, <1>5 DEF FailuresInv

\* The account of failures, of every state.
LEMMA FailuresAlways == Spec => [](IInv /\ RowsInv /\ FailuresInv)
<1>1. Init => FailuresInv
  BY CardsAssumption DEF Init, FailuresInv, GoalsByDeletion, ClosedBySomebody, RacesNeverErr
<1> QED BY <1>1, InitInv, InitRows, Inductive, RowsInductive, FailuresInductive, PTL DEF Spec

\* Requests can wait for each other in a circle only when one of them deletes an account:
\* every other handler locks goals and codes before wallets (goals.py:28-33).
THEOREM DeadlocksNeedDeletions == Spec => []OnlyDeletionDeadlocks
<1>1. IInv /\ RowsInv /\ FailuresInv => OnlyDeletionDeadlocks
  BY CirclesHaveDeletions DEF FailuresInv, OnlyDeletionDeadlocks
<1> QED BY <1>1, FailuresAlways, PTL

\* Purchases that race, with one key or several, get no error of the database unless the key
\* is the empty one or the account is being deleted (transactions.py:76-79, 101-106).
THEOREM RacingPurchasesNeverErr == Spec => []RacesNeverErr
<1>1. FailuresInv => RacesNeverErr
  BY DEF FailuresInv
<1> QED BY <1>1, FailuresAlways, PTL

-----------------------------------------------------------------------------
(* What a deletion takes away. *)

\* A step leaves no orphan if it closes no account and only writes the rows of open ones.
LEMMA NoNewOrphans ==
  ASSUME TypeOK, NoOrphans,
         \A u \in Users : account[u] = "open" => account'[u] = "open",
         \A t \in bought' : t \in bought \/ account'[t.user] = "open",
         \A g \in GoalIds : goal'[g].state = "live" =>
           \/ goal[g].state = "live" /\ goal'[g].owner = goal[g].owner
           \/ account'[goal'[g].owner] = "open",
         \A x \in referrals' : \/ x \in referrals
                               \/ account'[x.referrer] = "open" /\ account'[x.referee] = "open",
         \A u \in Users : \/ account'[u] = "open"
                          \/ /\ wallet'[u] = wallet[u] /\ ledger'[u] = ledger[u]
                             /\ badges'[u] = badges[u] /\ (u \in roundup' => u \in roundup)
                             /\ boost'[u] = boost[u]
  PROVE  NoOrphans'
<1>1. /\ \A t \in bought : t.user \in Users
      /\ \A g \in GoalIds : goal[g].owner \in Users
      /\ \A x \in referrals : x.referrer \in Users /\ x.referee \in Users
  BY DEF TypeOK, Purchase, Goal
<1>2. \A t \in bought' : account'[t.user] = "open"
  BY <1>1 DEF NoOrphans
<1>3. \A g \in GoalIds : goal'[g].state = "live" => account'[goal'[g].owner] = "open"
  BY <1>1 DEF NoOrphans
<1>4. \A x \in referrals' : account'[x.referrer] = "open" /\ account'[x.referee] = "open"
  BY <1>1 DEF NoOrphans
<1>5. \A u \in Users : account'[u] # "open" =>
        /\ wallet'[u] = 0 /\ ledger'[u] = NoLedger
        /\ badges'[u] = {} /\ u \notin roundup' /\ boost'[u].until = -1
  BY DEF NoOrphans
<1> QED BY <1>2, <1>3, <1>4, <1>5, Zenon DEF NoOrphans, NoLedger

\* A purchase is of an open account.
LEMMA PurchaseOrphans ==
  ASSUME IInv, RowsInv, NoOrphans, NEW r \in Requests, PurchaseCommit(r)
  PROVE  NoOrphans'
<1> DEFINE u == call[r].user
<1>1. /\ pc[r] = "commit" /\ call[r].op = "purchase"
      /\ \E tx : bought' = bought \cup {tx} /\ tx.user = u
      /\ \E n : wallet' = [wallet EXCEPT ![u] = n]
      /\ \E m, n : ledger' = Entry(Entry(ledger, u, "cashback", m), u, "round_up", n)
      /\ \E b : badges' = [badges EXCEPT ![u] = b]
      /\ UNCHANGED <<account, goal, roundup, boost, referrals>>
  <2>1. /\ pc[r] = "commit" /\ call[r].op = "purchase"
        /\ \E tx : bought' = bought \cup {tx} /\ tx.user = u
        /\ UNCHANGED <<account, goal, roundup, boost, referrals>>
    BY DEF PurchaseCommit, Is
  <2>2. \E n : wallet' = [wallet EXCEPT ![u] = n]
    BY DEF PurchaseCommit
  <2>3. \E m, n : ledger' = Entry(Entry(ledger, u, "cashback", m), u, "round_up", n)
    BY DEF PurchaseCommit
  <2>4. \E b : badges' = [badges EXCEPT ![u] = b]
    BY DEF PurchaseCommit
  <2> QED BY <2>1, <2>2, <2>3, <2>4
<1>2. u \in Users /\ TypeOK
  BY InvParts DEF TypeOK, Call
<1>3. account[u] = "open"
  BY <1>1, <1>2 DEF RowsInv, SharersOpen, KeySharers
<1> HIDE DEF u
<1>4. \A v \in Users : v # u => wallet'[v] = wallet[v] /\ badges'[v] = badges[v]
  BY <1>1, <1>2 DEF TypeOK
<1>5. \A v \in Users : v # u => ledger'[v] = ledger[v]
  BY <1>1, <1>2 DEF TypeOK, Entry
<1> QED BY <1>1, <1>2, <1>3, <1>4, <1>5, NoNewOrphans

\* So is what an allocation or the end of a goal writes, for the goal is live.
LEMMA GoalOrphans ==
  ASSUME IInv, RowsInv, NoOrphans, NEW r \in Requests,
         CreateGoalCommit(r) \/ AllocateCommit(r) \/ DeleteGoalCommit(r),
         ~ \E code : Refuse(r, code)
  PROVE  NoOrphans'
<1> DEFINE u == call[r].user
           g == call[r].goal
<1>1. /\ UNCHANGED <<account, bought, badges, roundup, boost, referrals>>
      /\ \/ CreateGoalCommit(r) /\ account[u] = "open"
         \/ ChangesGoal(r, g)
      /\ \E n : wallet' \in {wallet, [wallet EXCEPT ![u] = n]}
      /\ \E n : ledger' \in {ledger, Entry(ledger, u, "goal_allocation", n)}
  <2>1. CASE CreateGoalCommit(r)
    BY <2>1 DEF CreateGoalCommit, AccountGone, Is
  <2>2. CASE AllocateCommit(r)
    BY <2>2 DEF AllocateCommit, AccountGone, Is, ChangesGoal
  <2>3. CASE DeleteGoalCommit(r)
    BY <2>3 DEF DeleteGoalCommit, AccountGone, Is, ChangesGoal
  <2> QED BY <2>1, <2>2, <2>3
<1>2. u \in Users /\ g \in GoalIds /\ TypeOK
  BY InvParts DEF TypeOK, Call
<1>3. account[u] = "open"
  BY <1>1, <1>2 DEF RowsInv, GoalIsRead, LiveGoals, NoOrphans
<1>4. \A h \in GoalIds : h # g => goal'[h] = goal[h]
  BY <1>1, GoalWritten
<1>5. goal'[g].state = "live" => goal'[g].owner = u
  <2>1. CASE CreateGoalCommit(r)
    BY <1>2, <2>1 DEF CreateGoalCommit, TypeOK
  <2>2. CASE AllocateCommit(r)
    <3>1. goal[g].owner = u
      BY <1>1, <1>2, <2>2 DEF AllocateCommit, CreateGoalCommit, Is, RowsInv, GoalIsRead, LiveGoals
    <3>2. /\ goal' = [goal EXCEPT ![g].current = Filled(r),
                                  ![g].done = @ \/ Filled(r) >= goal[g].target]
          /\ goal[g] \in Goal
      BY <1>2, <2>2 DEF AllocateCommit, TypeOK
    <3> QED BY <1>2, <3>1, <3>2 DEF TypeOK, Goal
  <2>3. CASE DeleteGoalCommit(r)
    BY <1>2, <2>3 DEF DeleteGoalCommit, TypeOK, Goal
  <2> QED BY <2>1, <2>2, <2>3
<1> HIDE DEF u, g
<1>6. \A v \in Users : v # u => wallet'[v] = wallet[v]
  BY <1>1, <1>2 DEF TypeOK
<1>7. \A v \in Users : v # u => ledger'[v] = ledger[v]
  BY <1>1, <1>2 DEF TypeOK, Entry
<1> QED BY <1>1, <1>2, <1>3, <1>4, <1>5, <1>6, <1>7, NoNewOrphans

\* Settings are written for accounts that are open.
LEMMA SettingsOrphans ==
  ASSUME IInv, RowsInv, NoOrphans, NEW r \in Requests, RoundupCommit(r) \/ BoostCommit(r),
         ~ \E code : Refuse(r, code)
  PROVE  NoOrphans'
<1> DEFINE u == call[r].user
<1>1. /\ UNCHANGED <<account, wallet, ledger, bought, goal, badges, referrals>>
      /\ account[u] = "open"
      /\ roundup' \in {roundup, roundup \ {u}, roundup \cup {u}}
      /\ \E b : boost' \in {boost, [boost EXCEPT ![u] = b]}
  BY DEF RoundupCommit, BoostCommit, AccountGone
<1>2. u \in Users /\ TypeOK
  BY InvParts DEF TypeOK, Call
<1> HIDE DEF u
<1>3. \A v \in Users : v # u => boost'[v] = boost[v] /\ (v \in roundup' => v \in roundup)
  BY <1>1, <1>2 DEF TypeOK
<1> QED BY <1>1, <1>2, <1>3, NoNewOrphans

\* A registration writes the rows of the account it opens and of the referrer's.
LEMMA RegisterOrphans ==
  ASSUME IInv, RowsInv, NoOrphans, NEW r \in Requests, RegisterCommit(r)
  PROVE  NoOrphans'
<1> DEFINE u == call[r].user
           f == call[r].friend
<1>1. /\ pc[r] = "commit" /\ call[r].op = "register"
      /\ account' = [account EXCEPT ![u] = "open"]
      /\ UNCHANGED <<bought, goal, badges, roundup, boost>>
      /\ IF IsReferred(r)
           THEN /\ referrals' = referrals \cup {[referrer |-> f, referee |-> u]}
                /\ \E m, n : wallet' = [wallet EXCEPT ![f] = m, ![u] = n]
                /\ \E m, n : ledger' = Entry(Entry(ledger, f, "referral_bonus", m),
                                             u, "referral_welcome", n)
           ELSE UNCHANGED <<referrals, wallet, ledger>>
  BY DEF RegisterCommit, Is
<1>2. u \in Users /\ f \in Users /\ TypeOK
  BY InvParts DEF TypeOK, Call
<1>3. \A v \in Users : account'[v] = IF v = u THEN "open" ELSE account[v]
  BY <1>1, <1>2 DEF TypeOK
<1>4. IsReferred(r) => account[f] = "open"
  <2>1. IsReferred(r) => codeLock[f] = r /\ u # f
    BY <1>1, <1>2, InvParts DEF IsReferred, FlowInv, CodeHeld
  <2> QED BY <1>1, <1>2, <2>1 DEF RowsInv, SharersOpen, KeySharers
<1> HIDE DEF u, f
<1>5. \A v \in Users : v # u /\ (v # f \/ ~ IsReferred(r)) =>
        wallet'[v] = wallet[v] /\ ledger'[v] = ledger[v]
  BY <1>1, <1>2 DEF TypeOK, Entry
<1>6. \A x \in referrals' : \/ x \in referrals
                            \/ account'[x.referrer] = "open" /\ account'[x.referee] = "open"
  <2>1. CASE IsReferred(r)
    <3>1. account'[f] = "open" /\ account'[u] = "open"
      BY <1>2, <1>3, <1>4, <2>1
    <3>2. referrals' = referrals \cup {[referrer |-> f, referee |-> u]}
      BY <1>1, <2>1
    <3>3. ASSUME NEW x \in referrals', x \notin referrals PROVE x.referrer = f /\ x.referee = u
      BY <3>2, <3>3
    <3> QED BY <3>1, <3>3
  <2>2. CASE ~ IsReferred(r)
    <3>1. referrals' = referrals
      BY <1>1, <2>2
    <3> QED BY <3>1
  <2> QED BY <2>1, <2>2
<1> QED BY <1>1, <1>2, <1>3, <1>4, <1>5, <1>6, NoNewOrphans

\* A deletion that goes through takes everything with it.
LEMMA CloseOrphans ==
  ASSUME IInv, RowsInv, NoOrphans, NEW r \in Requests, ClosesNow(r)
  PROVE  NoOrphans'
<1> DEFINE u == call[r].user
<1>1. /\ wallet' = [wallet EXCEPT ![u] = 0] /\ ledger' = [ledger EXCEPT ![u] = NoLedger]
      /\ bought' = {t \in bought : t.user # u} /\ roundup' = roundup \ {u}
      /\ boost' = [boost EXCEPT ![u].until = -1] /\ badges' = [badges EXCEPT ![u] = {}]
      /\ referrals' = {x \in referrals : u \notin {x.referrer, x.referee}}
  <2>1. CloseCommit(r) /\ account[u] # "gone" /\ rows[u] = seen[r].rows
        /\ LiveGoals(u) \subseteq seen[r].goals
    BY DEF ClosesNow
  <2>2. wallet' = [wallet EXCEPT ![u] = 0] /\ ledger' = [ledger EXCEPT ![u] = NoLedger]
    BY ONLY <2>1, Zenon DEF CloseCommit
  <2>3. bought' = {t \in bought : t.user # u} /\ roundup' = roundup \ {u}
    BY ONLY <2>1, Zenon DEF CloseCommit
  <2>4. boost' = [boost EXCEPT ![u].until = -1] /\ badges' = [badges EXCEPT ![u] = {}]
    BY ONLY <2>1, Zenon DEF CloseCommit
  <2>5. referrals' = ReferralsWithout(u)
    BY ONLY <2>1, Zenon DEF CloseCommit
  <2> QED BY ONLY <2>2, <2>3, <2>4, <2>5 DEF ReferralsWithout
<1>2. /\ u \in Users
      /\ \A v \in Users : account'[v] = IF v = u THEN "gone" ELSE account[v]
      /\ \A g \in GoalIds : goal'[g] = IF g \in LiveGoals(u)
             THEN [goal[g] EXCEPT !.state = "deleted", !.current = 0] ELSE goal[g]
  BY ClosingIsAlone
<1>3. TypeOK
  BY InvParts
<1> HIDE DEF u
<1>4. \A t \in bought' : account'[t.user] = "open"
  BY <1>1, <1>2, <1>3 DEF NoOrphans, TypeOK, Purchase
<1>5. \A g \in GoalIds : goal'[g].state = "live" => account'[goal'[g].owner] = "open"
  <2>1. ASSUME NEW h \in Goal, NEW d, d = [h EXCEPT !.state = "deleted", !.current = 0]
        PROVE  d.state # "live"
    BY <2>1 DEF Goal
  <2>2. \A g \in GoalIds : goal[g] \in Goal
    BY <1>3 DEF TypeOK
  <2>3. ASSUME NEW g \in GoalIds, goal'[g].state = "live"
        PROVE  goal'[g] = goal[g] /\ g \notin LiveGoals(u)
    BY <1>2, <2>1, <2>2, <2>3
  <2>4. ASSUME NEW g \in GoalIds, goal[g].state = "live", g \notin LiveGoals(u)
        PROVE  goal[g].owner # u /\ goal[g].owner \in Users /\ account[goal[g].owner] = "open"
    BY <2>2, <2>4 DEF NoOrphans, LiveGoals, Goal
  <2> QED BY <1>2, <2>3, <2>4
<1>6. \A x \in referrals' : account'[x.referrer] = "open" /\ account'[x.referee] = "open"
  BY <1>1, <1>2, <1>3 DEF NoOrphans, TypeOK
<1>7. ASSUME NEW v \in Users, account'[v] # "open"
      PROVE  wallet'[v] = 0 /\ ledger'[v] = NoLedger /\ badges'[v] = {} /\ v \notin roundup'
               /\ boost'[v].until = -1
  <2>1. CASE v = u
    <3>1. /\ wallet'[u] = 0 /\ ledger'[u] = NoLedger /\ badges'[u] = {} /\ u \notin roundup'
      BY <1>1, <1>2, <1>3 DEF TypeOK
    <3>2. boost[u] \in Boost /\ boost'[u] = [boost[u] EXCEPT !.until = -1]
      BY <1>1, <1>2, <1>3 DEF TypeOK
    <3>3. boost'[u].until = -1
      BY <3>2 DEF Boost
    <3> QED BY <2>1, <3>1, <3>3
  <2>2. CASE v # u
    BY <1>1, <1>2, <1>3, <1>7, <2>2 DEF TypeOK, NoOrphans
  <2> QED BY <2>1, <2>2
<1> QED BY <1>4, <1>5, <1>6, <1>7, Zenon DEF NoOrphans, NoLedger

\* A step that writes nothing leaves everything.
LEMMA SameRowsNoOrphans ==
  ASSUME NoOrphans, UNCHANGED db
  PROVE  NoOrphans'
BY DEF NoOrphans, NoLedger, db

\* Every step leaves no orphans.
LEMMA OrphansInductive == IInv /\ RowsInv /\ NoOrphans /\ [Next]_vars => NoOrphans'
BY StepKinds, SameRowsNoOrphans, PurchaseOrphans, GoalOrphans, SettingsOrphans, RegisterOrphans,
   CloseOrphans DEF Commits

\* A deletion leaves nothing behind, whatever commits while it runs: every row belongs to
\* an open account (routers/auth.py:117-144).
THEOREM NothingOrphaned == Spec => []NoOrphans
<1>1. Init => NoOrphans
  BY CardsAssumption DEF Init, NoOrphans
<1> QED BY <1>1, InitInv, InitRows, Inductive, RowsInductive, OrphansInductive, PTL DEF Spec

-----------------------------------------------------------------------------
(* What an answer says. *)

AnswersInv == RecordedIsAnswered /\ AnswersAreTrue

\* The purchases on record change when one commits, which was not on record, and when an
\* account is deleted, with all of its own.
LEMMA RecordChanges ==
  ASSUME IInv, RowsInv, [Next]_vars
  PROVE  \/ UNCHANGED bought
         \/ \E r \in Requests : \E tx :
              /\ PurchaseCommit(r) /\ bought' = bought \cup {tx}
              /\ tx.id = r /\ tx.user = call[r].user
              /\ pc[r] # "done" /\ pc'[r] = "done" /\ reply'[r] = 200
              /\ call'[r] = call[r] /\ call[r].op = "purchase"
         \/ \E u \in Users : bought' = {t \in bought : t.user # u} /\ account'[u] = "gone"
<1>1. TypeOK
  BY InvParts
<1>2. ASSUME NEW r \in Requests, PurchaseCommit(r)
      PROVE  \E tx : /\ bought' = bought \cup {tx}
                     /\ tx.id = r /\ tx.user = call[r].user
                     /\ pc[r] # "done" /\ pc'[r] = "done" /\ reply'[r] = 200
                     /\ call'[r] = call[r] /\ call[r].op = "purchase"
  <2>1. \E tx : bought' = bought \cup {tx} /\ tx.id = r /\ tx.user = call[r].user
    BY <1>2 DEF PurchaseCommit
  <2>2. pc[r] = "commit" /\ call[r].op = "purchase" /\ Finish(r, 200)
    BY <1>2 DEF PurchaseCommit, Is
  <2>3. pc'[r] = "done" /\ reply'[r] = 200 /\ call'[r] = call[r]
    BY <1>1, <2>2 DEF Finish, TypeOK
  <2> QED BY <2>1, <2>2, <2>3
<1>3. ASSUME NEW r \in Requests, ClosesNow(r)
      PROVE  \E u \in Users : bought' = {t \in bought : t.user # u} /\ account'[u] = "gone"
  <2>1. bought' = {t \in bought : t.user # call[r].user}
    BY <1>3 DEF ClosesNow, CloseCommit
  <2>2. call[r].user \in Users /\ account'[call[r].user] = "gone"
    BY <1>3, ClosingIsAlone
  <2> QED BY <2>1, <2>2
<1>4. ASSUME NEW r \in Requests, Commits(r), ~ PurchaseCommit(r), ~ ClosesNow(r)
      PROVE  UNCHANGED bought
  BY <1>4 DEF Commits, CreateGoalCommit, AllocateCommit, DeleteGoalCommit, RoundupCommit,
     BoostCommit, RegisterCommit
<1> QED BY <1>2, <1>3, <1>4, StepKinds DEF db

\* A request with a purchase on record has been told so.
LEMMA RecordedInductive == IInv /\ RowsInv /\ RecordedIsAnswered /\ [Next]_vars => RecordedIsAnswered'
<1> SUFFICES ASSUME IInv, RowsInv, RecordedIsAnswered, [Next]_vars,
                    NEW t \in bought'
             PROVE  /\ pc'[t.id] = "done" /\ reply'[t.id] = 200
                    /\ call'[t.id].op = "purchase" /\ call'[t.id].user = t.user
  BY DEF RecordedIsAnswered
<1>1. \A x \in bought : x.id \in Requests
  BY InvParts DEF TypeOK, Purchase
<1>2. CASE t \in bought
  BY <1>1, <1>2, RequestsStay DEF RecordedIsAnswered
<1>3. CASE t \notin bought
  BY <1>3, RecordChanges
<1> QED BY <1>2, <1>3

\* What a purchase that has run is told.
LEMMA PurchaseTold ==
  ASSUME IInv, RowsInv, NEW r \in Requests, Continue(r), call[r].op = "purchase",
         pc'[r] = "done", ~ PurchaseCommit(r)
  PROVE  /\ reply'[r] # 200
         /\ reply'[r] = 409 =>
              call[r].key # NoKey /\ \E t \in bought' : t.user = call[r].user /\ t.key = call[r].key
<1>1. pc \in [Requests -> Steps] /\ reply \in [Requests -> Replies]
  BY InvParts DEF TypeOK
<1>2. CASE DeadlockVictim(r)
  BY <1>1, <1>2 DEF DeadlockVictim, Refuse, Finish
<1>3. CASE PurchaseInsert(r) /\ Recorded(r)
  <2>1. UNCHANGED bought
    BY <1>3 DEF PurchaseInsert, Refuse, db
  <2>2. reply'[r] \in {409, 500}
    BY <1>1, <1>3 DEF PurchaseInsert, Refuse, Finish, DuplicateStatus
  <2> QED BY <1>3, <2>1, <2>2 DEF Recorded
<1>4. CASE PurchaseInsert(r) /\ ~ Recorded(r)
  BY <1>1, <1>4 DEF PurchaseInsert, Refuse, Finish, Proceed
<1>5. CASE PurchaseDeclined(r) \/ ScoreFails(r)
  BY <1>1, <1>5 DEF PurchaseDeclined, ScoreFails, Refuse, Finish, CacheError
<1>6. CASE LockWallet(r)
  BY <1>1, <1>6 DEF LockWallet, Proceed
<1>7. CASE LockGoal(r)
  BY <1>7, InvParts DEF LockGoal, FlowInv, StepsOf
<1> QED BY <1>2, <1>3, <1>4, <1>5, <1>6, <1>7
   DEF Continue, CreateGoalCommit, AllocateCommit, DeleteGoalCommit, RoundupCommit,
       BoostCommit, RegisterInsert, RegisterReferral, RegisterLockCode, RegisterCommit,
       CloseLockCode, CloseLockGoals, CloseCommit, Is

\* An account that is open and had requests was open before.
LEMMA OpenWasOpen ==
  ASSUME IInv, [Next]_vars, NEW u \in Users, account[u] # "none", account'[u] = "open"
  PROVE  account[u] = "open"
<1>1. account \in [Users -> {"none", "open", "gone"}]
  BY InvParts DEF TypeOK
<1>2. CASE UNCHANGED db
  BY <1>2 DEF db
<1>3. ASSUME NEW r \in Requests, RegisterCommit(r) PROVE account[u] = "open"
  <2>1. account[call[r].user] = "none" /\ account' = [account EXCEPT ![call[r].user] = "open"]
    BY <1>3, InvParts DEF RegisterCommit, Is, FlowInv, Registrants, Registers
  <2> QED BY <1>1, <2>1
<1>4. ASSUME NEW r \in Requests, ClosesNow(r) PROVE account[u] = "open"
  <2>1. account' = [account EXCEPT ![call[r].user] = "gone"]
    BY <1>4 DEF ClosesNow, CloseCommit
  <2> QED BY <1>1, <2>1
<1>5. ASSUME NEW r \in Requests, Commits(r), ~ RegisterCommit(r), ~ ClosesNow(r)
      PROVE  UNCHANGED account
  BY <1>5 DEF Commits, PurchaseCommit, CreateGoalCommit, AllocateCommit, DeleteGoalCommit,
     RoundupCommit, BoostCommit
<1> QED BY <1>2, <1>3, <1>4, <1>5, StepKinds

\* Every step keeps the answers true.
LEMMA AnswersInductive == IInv /\ RowsInv /\ AnswersInv /\ [Next]_vars => AnswersInv'
<1> SUFFICES ASSUME IInv, RowsInv, AnswersInv, [Next]_vars PROVE AnswersInv'
  OBVIOUS
<1>1. RecordedIsAnswered'
  BY RecordedInductive DEF AnswersInv
<1>2. /\ pc \in [Requests -> Steps] /\ reply \in [Requests -> Replies]
      /\ \A r \in Requests : call[r].user \in Users
      /\ \A t \in bought : t.id \in Requests
  BY InvParts DEF TypeOK, Call, Purchase
<1>3. ASSUME NEW r \in Requests, NEW c, c = call'[r],
             pc'[r] = "done", c.op = "purchase", account'[c.user] = "open"
      PROVE  /\ reply'[r] = 200 <=> \E t \in bought' : t.id = r
             /\ reply'[r] = 409 =>
                  c.key # NoKey /\ \E t \in bought' : t.user = c.user /\ t.key = c.key
  <2>1. (\E t \in bought' : t.id = r) => reply'[r] = 200
    BY <1>1 DEF RecordedIsAnswered
  <2>2. CASE pc[r] = "done"
    <3>1. call[r] = c /\ reply'[r] = reply[r] /\ reply[r] # 0
      BY <1>3, <2>2, RequestsStay DEF RowsInv, Asked
    <3>2. account[c.user] = "open"
      BY <1>2, <1>3, <2>2, <3>1, OpenWasOpen DEF RowsInv, Asked
    <3>3. \A t \in bought : t.user = c.user => t \in bought'
      BY <1>3, RecordChanges
    <3>4. /\ reply[r] = 200 => \E t \in bought : t.id = r
          /\ reply[r] = 409 =>
               c.key # NoKey /\ \E t \in bought : t.user = c.user /\ t.key = c.key
      BY <1>3, <2>2, <3>1, <3>2 DEF AnswersInv, AnswersAreTrue
    <3>5. \A t \in bought : t.id = r => t.user = c.user
      BY <3>1 DEF AnswersInv, RecordedIsAnswered
    <3> QED BY <2>1, <3>1, <3>3, <3>4, <3>5
  <2>3. CASE pc[r] # "done" /\ PurchaseCommit(r)
    <3>1. reply'[r] = 200
      BY <1>2, <2>3 DEF PurchaseCommit, Finish
    <3>2. \E tx : bought' = bought \cup {tx} /\ tx.id = r
      BY <2>3 DEF PurchaseCommit
    <3> QED BY <3>1, <3>2
  <2>4. CASE pc[r] # "done" /\ ~ PurchaseCommit(r) /\ Continue(r)
    <3>1. call[r] = c
      BY <1>3, <2>4, ContinueShape, RequestsStay DEF InFlight
    <3> QED BY <1>3, <2>1, <2>4, <3>1, PurchaseTold
  <2>5. CASE pc[r] # "done" /\ ~ Continue(r)
    <3>1. reply'[r] \in {0, 1, 400, 401}
      <4>1. reply[r] = 0
        BY <1>2, <2>5 DEF RowsInv, Asked
      <4>2. ASSUME NEW q \in Requests, Begin(q) PROVE reply'[r] \in {0, 1, 400, 401}
        <5>1. CASE q # r
          BY <4>1, <4>2, <5>1, ArrivalPlaces
        <5>2. CASE ArrivedSomehow(r)
          BY <1>2, <4>1, <5>2 DEF ArrivedSomehow, Arrived
        <5>3. CASE RegisterArrive(r)
          BY <1>2, <4>1, <5>3 DEF RegisterArrive
        <5> QED BY <4>2, <5>1, <5>2, <5>3, BeginArrives, InvParts
      <4>3. ASSUME NEW q \in Requests, Continue(q) PROVE reply'[r] = 0
        BY <1>2, <2>5, <4>1, <4>3, ContinueShape DEF Finish, Proceed
      <4>4. CASE Restart \/ Tick \/ UNCHANGED vars
        BY <1>2, <4>1, <4>4 DEF Restart, Tick, vars
      <4> QED BY <4>2, <4>3, <4>4 DEF Next, Idle
    <3> QED BY <2>1, <3>1
  <2> QED BY <2>2, <2>3, <2>4, <2>5
<1>4. AnswersAreTrue'
  BY <1>3 DEF AnswersAreTrue
<1> QED BY <1>1, <1>4 DEF AnswersInv

\* 200 means that the purchase is on record and every other answer that it is not, and
\* 409 is only given for a key that is on record (transactions.py:44-54, 92-106).
THEOREM AnswersHold == Spec => []AnswersAreTrue
<1>1. Init => AnswersInv
  BY DEF Init, AnswersInv, RecordedIsAnswered, AnswersAreTrue
<1>2. AnswersInv => AnswersAreTrue
  BY DEF AnswersInv
<1> QED BY <1>1, <1>2, InitInv, InitRows, Inductive, RowsInductive, AnswersInductive, PTL DEF Spec

-----------------------------------------------------------------------------
(* What referrals have paid. *)

ReferralsInv == IsFiniteSet(referrals) /\ ReferralsPaid

SentBy(u) == {x \in referrals : x.referrer = u}

Bonus(u) == ledger[u]["referral_bonus"]
Welcome(u) == ledger[u]["referral_welcome"]

\* A ledger row changes one total of one user.
LEMMA EntryRows ==
  ASSUME NEW l \in [Users -> [LedgerTypes -> Int]], NEW u \in Users,
         NEW type \in LedgerTypes, NEW sats \in Int
  PROVE  /\ Entry(l, u, type, sats) \in [Users -> [LedgerTypes -> Int]]
         /\ \A v \in Users, t \in LedgerTypes :
              Entry(l, u, type, sats)[v][t] = IF v = u /\ t = type THEN l[v][t] + sats ELSE l[v][t]
BY DEF Entry

\* Only registrations and deletions touch what referrals have paid.
LEMMA BonusesStay ==
  ASSUME IInv, NEW r \in Requests, Commits(r), ~ RegisterCommit(r), ~ ClosesNow(r)
  PROVE  /\ \A v \in Users : Bonus(v)' = Bonus(v) /\ Welcome(v)' = Welcome(v)
         /\ UNCHANGED <<account, referrals>>
<1> DEFINE u == call[r].user
<1>1. /\ TypeOK /\ u \in Users /\ ledger \in [Users -> [LedgerTypes -> Int]]
      /\ call[r].amount \in Nat /\ call[r].spare \in Nat /\ seen[r].pot \in Nat
      /\ Reward(r) \in Nat
  BY InvParts, PaymentType DEF TypeOK, Call, Seen
<1>2. CASE PurchaseCommit(r)
  <2>1. PICK m \in Int, n \in Int :
          ledger' = Entry(Entry(ledger, u, "cashback", m), u, "round_up", n)
    BY <1>1, <1>2 DEF PurchaseCommit
  <2>2. PICK l \in [Users -> [LedgerTypes -> Int]] : l = Entry(ledger, u, "cashback", m)
    BY <1>1, EntryRows DEF LedgerTypes
  <2>3. \A v \in Users, t \in {"referral_bonus", "referral_welcome"} : ledger'[v][t] = ledger[v][t]
    <3>1. {"referral_bonus", "referral_welcome", "round_up", "cashback"} \subseteq LedgerTypes
      BY DEF LedgerTypes
    <3>2. \A v \in Users, t \in {"referral_bonus", "referral_welcome"} : l[v][t] = ledger[v][t]
      BY <1>1, <2>2, <3>1 DEF Entry
    <3>3. \A v \in Users, t \in {"referral_bonus", "referral_welcome"} :
            Entry(l, u, "round_up", n)[v][t] = l[v][t]
      BY <1>1, <3>1 DEF Entry
    <3> QED BY <2>1, <2>2, <3>2, <3>3
  <2> QED BY <1>2, <2>3 DEF PurchaseCommit, Bonus, Welcome
<1>3. CASE AllocateCommit(r) \/ DeleteGoalCommit(r)
  <2>1. \/ UNCHANGED ledger
        \/ \E n \in Int : ledger' = Entry(ledger, u, "goal_allocation", n)
    BY <1>1, <1>3 DEF AllocateCommit, DeleteGoalCommit, Refuse, db
  <2>2. ASSUME NEW n \in Int, ledger' = Entry(ledger, u, "goal_allocation", n)
        PROVE  \A v \in Users, t \in {"referral_bonus", "referral_welcome"} :
                 ledger'[v][t] = ledger[v][t]
    BY <1>1, <2>2 DEF Entry, LedgerTypes
  <2>3. \A v \in Users, t \in {"referral_bonus", "referral_welcome"} : ledger'[v][t] = ledger[v][t]
    BY <2>1, <2>2
  <2> QED BY <1>3, <2>3 DEF AllocateCommit, DeleteGoalCommit, Refuse, db, Bonus, Welcome
<1>4. CASE CreateGoalCommit(r) \/ RoundupCommit(r) \/ BoostCommit(r)
  BY <1>4 DEF CreateGoalCommit, RoundupCommit, BoostCommit, Refuse, db, Bonus, Welcome
<1> QED BY <1>2, <1>3, <1>4 DEF Commits

\* A referral that is paid is one more of the referrer's, and the only one of the referee.
LEMMA ReferralPays ==
  ASSUME IInv, RowsInv, NoOrphans, ReferralsInv, NEW r \in Requests, RegisterCommit(r)
  PROVE  ReferralsInv'
<1>0. PICK u \in Users, f \in Users : u = call[r].user /\ f = call[r].friend
  BY InvParts DEF TypeOK, Call
<1> DEFINE x == [referrer |-> f, referee |-> u]
<1>1. /\ TypeOK /\ ledger \in [Users -> [LedgerTypes -> Int]]
      /\ WelcomeSats \in Nat /\ ReferrerSats \in Nat
      /\ account \in [Users -> {"none", "open", "gone"}]
  BY InvParts, CardsAssumption DEF TypeOK, Call
<1>2. account[u] = "none" /\ account' = [account EXCEPT ![u] = "open"]
  BY <1>0, InvParts DEF RegisterCommit, Is, FlowInv, Registrants, Registers
<1>3. CASE ~ IsReferred(r)
  <2>1. UNCHANGED <<referrals, ledger>>
    BY <1>3 DEF RegisterCommit
  <2>2. (\A v \in Users : account'[v] # "gone") => \A v \in Users : account[v] # "gone"
    BY <1>1, <1>2
  <2> QED BY <2>1, <2>2 DEF ReferralsInv, ReferralsPaid
<1>4. CASE IsReferred(r)
  <2>1. u # f
    BY <1>0, <1>4, InvParts DEF RegisterCommit, Is, IsReferred, FlowInv, CodeHeld
  <2>2. /\ referrals' = referrals \cup {x}
        /\ ledger' = Entry(Entry(ledger, f, "referral_bonus", ReferrerSats),
                           u, "referral_welcome", WelcomeSats)
    BY <1>0, <1>4 DEF RegisterCommit
  <2>3. /\ Entry(ledger, f, "referral_bonus", ReferrerSats) \in [Users -> [LedgerTypes -> Int]]
        /\ \A v \in Users, t \in LedgerTypes :
             Entry(ledger, f, "referral_bonus", ReferrerSats)[v][t] =
               IF v = f /\ t = "referral_bonus" THEN ledger[v][t] + ReferrerSats ELSE ledger[v][t]
    <3>1. "referral_bonus" \in LedgerTypes /\ ReferrerSats \in Int
      BY <1>1 DEF LedgerTypes
    <3> QED BY <1>1, <3>1 DEF Entry
  <2>4. ledger[u] = NoLedger
    BY <1>1, <1>2, InvParts DEF MoneyInv, Newcomers
  <2>5. /\ Bonus(f)' = Bonus(f) + ReferrerSats
        /\ \A v \in Users : v # f => Bonus(v)' = Bonus(v)
        /\ Bonus(u)' = 0 /\ Welcome(u)' = WelcomeSats
        /\ \A v \in Users : v # u => Welcome(v)' = Welcome(v)
    <3>1. \A v \in Users, t \in LedgerTypes :
            ledger'[v][t] =
              IF v = u /\ t = "referral_welcome"
                THEN Entry(ledger, f, "referral_bonus", ReferrerSats)[v][t] + WelcomeSats
                ELSE Entry(ledger, f, "referral_bonus", ReferrerSats)[v][t]
      <4>1. "referral_welcome" \in LedgerTypes /\ WelcomeSats \in Int
        BY <1>1 DEF LedgerTypes
      <4> QED BY <1>1, <2>2, <2>3, <4>1 DEF Entry
    <3>2. "referral_bonus" \in LedgerTypes /\ "referral_welcome" \in LedgerTypes
          /\ ledger[u]["referral_bonus"] = 0 /\ ledger[u]["referral_welcome"] = 0
      BY <2>4 DEF NoLedger, LedgerTypes
    <3> QED BY <1>1, <2>1, <2>3, <3>1, <3>2 DEF Bonus, Welcome
  <2>6. \A y \in referrals : y.referrer # u /\ y.referee # u
    BY <1>2 DEF NoOrphans
  <2>7. x.referrer = f /\ x.referee = u /\ x \notin referrals
    BY <2>6
  <2> HIDE DEF x
  <2>8. \A v \in Users : IsFiniteSet(SentBy(v)) /\ Cardinality(SentBy(v)) \in Nat
    BY FS_Subset, FS_CardinalityType DEF ReferralsInv, SentBy
  <2>9. /\ SentBy(f)' = SentBy(f) \cup {x} /\ x \notin SentBy(f)
        /\ \A v \in Users : v # f => SentBy(v)' = SentBy(v)
        /\ SentBy(u)' = {}
    BY <2>1, <2>2, <2>6, <2>7 DEF SentBy
  <2>10. Cardinality(SentBy(f)') = Cardinality(SentBy(f)) + 1
    BY <2>8, <2>9, FS_AddElement
  <2>11. \A n \in Nat : (n + 1) * ReferrerSats = n * ReferrerSats + ReferrerSats
    BY <1>1
  <2>12. (\A v \in Users : account'[v] # "gone") => \A v \in Users : account[v] # "gone"
    BY <1>1, <1>2
  <2>13. IsFiniteSet(referrals')
    BY <2>2, FS_AddElement DEF ReferralsInv
  <2>14. ASSUME NEW v \in Users
         PROVE  /\ Bonus(v)' >= Cardinality(SentBy(v)') * ReferrerSats
                /\ (\A w \in Users : account'[w] # "gone") =>
                     Bonus(v)' = Cardinality(SentBy(v)') * ReferrerSats
                /\ (\E y \in referrals' : y.referee = v) => Welcome(v)' = WelcomeSats
    <3>1. /\ Bonus(v) \in Int
          /\ Bonus(v) >= Cardinality(SentBy(v)) * ReferrerSats
          /\ (\A w \in Users : account[w] # "gone") =>
               Bonus(v) = Cardinality(SentBy(v)) * ReferrerSats
          /\ (\E y \in referrals : y.referee = v) => Welcome(v) = WelcomeSats
      BY <1>1 DEF ReferralsInv, ReferralsPaid, Bonus, Welcome, SentBy, LedgerTypes
    <3>2. (\E y \in referrals' : y.referee = v) => Welcome(v)' = WelcomeSats
      BY <2>2, <2>5, <2>7, <3>1
    <3>3. CASE v = f
      <4>1. Cardinality(SentBy(v)') * ReferrerSats
              = Cardinality(SentBy(v)) * ReferrerSats + ReferrerSats
        BY <2>8, <2>10, <2>11, <3>3
      <4>2. Cardinality(SentBy(v)) * ReferrerSats \in Int
        BY <1>1, <2>8
      <4> QED BY <1>1, <2>5, <2>12, <3>1, <3>2, <3>3, <4>1, <4>2
    <3>4. CASE v # f
      BY <2>5, <2>9, <2>12, <3>1, <3>2, <3>4
    <3> QED BY <3>3, <3>4
  <2> QED BY <2>13, <2>14 DEF ReferralsInv, ReferralsPaid, Bonus, Welcome, SentBy
<1> QED BY <1>3, <1>4

\* A deletion takes the account's referrals; what they paid to others stays.
LEMMA ReferralStaysPaid ==
  ASSUME IInv, RowsInv, ReferralsInv, NEW r \in Requests, ClosesNow(r)
  PROVE  ReferralsInv'
<1>0. PICK u \in Users : u = call[r].user
  BY InvParts DEF TypeOK, Call
<1>1. /\ referrals' = {x \in referrals : u \notin {x.referrer, x.referee}}
      /\ ledger' = [ledger EXCEPT ![u] = NoLedger]
  <2>1. CloseCommit(r) /\ account[u] # "gone" /\ rows[u] = seen[r].rows
        /\ LiveGoals(u) \subseteq seen[r].goals
    BY <1>0 DEF ClosesNow
  <2> QED BY <1>0, <2>1 DEF CloseCommit, ReferralsWithout
<1>2. /\ account'[u] = "gone" /\ ledger \in [Users -> [LedgerTypes -> Int]]
      /\ ReferrerSats \in Nat
  BY <1>0, ClosingIsAlone, InvParts, CardsAssumption DEF TypeOK
<1>3. IsFiniteSet(referrals')
  BY <1>1, FS_Subset DEF ReferralsInv
<1>4. \A v \in Users : v # u => ledger'[v] = ledger[v]
  BY <1>1, <1>2
<1>5. Bonus(u)' = 0
  BY <1>1, <1>2 DEF Bonus, NoLedger, LedgerTypes
<1>6. ASSUME NEW v \in Users
      PROVE  /\ Bonus(v)' >= Cardinality(SentBy(v)') * ReferrerSats
             /\ (\E y \in referrals' : y.referee = v) => Welcome(v)' = WelcomeSats
  <2>1. CASE v = u
    <3>1. SentBy(v)' = {} /\ ~ \E y \in referrals' : y.referee = v
      BY <1>1, <2>1 DEF SentBy
    <3>2. Cardinality(SentBy(v)') * ReferrerSats = 0
      BY <1>2, <3>1, FS_EmptySet
    <3> QED BY <1>5, <2>1, <3>1, <3>2
  <2>2. CASE v # u
    <3>1. SentBy(v)' \subseteq SentBy(v) /\ IsFiniteSet(SentBy(v))
      BY <1>1, FS_Subset DEF SentBy, ReferralsInv
    <3>2. /\ Cardinality(SentBy(v)') \in Nat /\ Cardinality(SentBy(v)) \in Nat
          /\ Cardinality(SentBy(v)') <= Cardinality(SentBy(v))
      BY <3>1, FS_Subset, FS_CardinalityType
    <3>3. \A m, n \in Nat : m <= n => m * ReferrerSats <= n * ReferrerSats
      BY <1>2
    <3>4. /\ Cardinality(SentBy(v)') * ReferrerSats <= Cardinality(SentBy(v)) * ReferrerSats
          /\ Cardinality(SentBy(v)') * ReferrerSats \in Int
          /\ Cardinality(SentBy(v)) * ReferrerSats \in Int
      BY <1>2, <3>2, <3>3
    <3>5. Bonus(v)' = Bonus(v) /\ Welcome(v)' = Welcome(v) /\ Bonus(v) \in Int
      BY <1>2, <1>4, <2>2 DEF Bonus, Welcome, LedgerTypes
    <3>6. /\ Bonus(v) >= Cardinality(SentBy(v)) * ReferrerSats
          /\ (\E y \in referrals : y.referee = v) => Welcome(v) = WelcomeSats
      BY DEF ReferralsInv, ReferralsPaid, Bonus, Welcome, SentBy
    <3> QED BY <1>1, <3>4, <3>5, <3>6
  <2> QED BY <2>1, <2>2
<1> QED BY <1>2, <1>3, <1>6 DEF ReferralsInv, ReferralsPaid, Bonus, Welcome, SentBy

\* Every step keeps the referrals paid.
LEMMA ReferralsInductive ==
  IInv /\ RowsInv /\ NoOrphans /\ ReferralsInv /\ [Next]_vars => ReferralsInv'
<1> SUFFICES ASSUME IInv, RowsInv, NoOrphans, ReferralsInv, [Next]_vars PROVE ReferralsInv'
  OBVIOUS
<1>1. ASSUME NEW r \in Requests, Commits(r), ~ RegisterCommit(r), ~ ClosesNow(r)
      PROVE  ReferralsInv'
  BY <1>1, BonusesStay DEF ReferralsInv, ReferralsPaid, Bonus, Welcome
<1>2. CASE UNCHANGED db
  BY <1>2 DEF db, ReferralsInv, ReferralsPaid
<1> QED BY <1>1, <1>2, StepKinds, ReferralPays, ReferralStaysPaid

\* Every referral on record has paid both sides, whatever registrations race with each
\* other and with deletions (services.py:137-156).
THEOREM ReferralsArePaid == Spec => []ReferralsPaid
<1>1. Init => NoOrphans /\ ReferralsInv
  <2>1. Init => NoOrphans
    BY CardsAssumption DEF Init, NoOrphans
  <2>2. ASSUME Init PROVE ReferralsInv
    <3>1. referrals = {} /\ \A u \in Users : ledger[u]["referral_bonus"] = 0
      BY <2>2 DEF Init, NoLedger, LedgerTypes
    <3>2. \A u \in Users : Cardinality({x \in referrals : x.referrer = u}) = 0
      <4>1. \A u \in Users : {x \in referrals : x.referrer = u} = {}
        BY <3>1
      <4> QED BY <4>1, FS_EmptySet
    <3>3. IsFiniteSet(referrals) /\ 0 * ReferrerSats = 0
      BY <3>1, FS_EmptySet, CardsAssumption
    <3> QED BY <3>1, <3>2, <3>3 DEF ReferralsInv, ReferralsPaid
  <2> QED BY <2>1, <2>2
<1>2. ReferralsInv => ReferralsPaid
  BY DEF ReferralsInv
<1> QED BY <1>1, <1>2, InitInv, InitRows, Inductive, RowsInductive, OrphansInductive,
           ReferralsInductive, PTL DEF Spec

-----------------------------------------------------------------------------
(* Streaks and badges. *)

\* Only purchases and deletions touch the purchases, the streaks and the badges.
LEMMA HistoryStays ==
  ASSUME NEW r \in Requests, Commits(r), ~ PurchaseCommit(r), ~ ClosesNow(r)
  PROVE  UNCHANGED <<bought, streak, badges>>
BY DEF Commits, CreateGoalCommit, AllocateCommit, DeleteGoalCommit, RoundupCommit, BoostCommit,
   RegisterCommit

\* What a purchase does to its user's history.
LEMMA PurchaseHistory ==
  ASSUME IInv, NEW r \in Requests, PurchaseCommit(r), NEW u \in Users, u = call[r].user
  PROVE  \E tx, sats, level : \E day \in Streak :
           /\ PurchasesOf(u)' = Mine(u, tx)
           /\ tx.counted = utctoday(now) /\ bought' = bought \cup {tx} /\ tx.user = u
           /\ day = update_streak(streak[u], utctoday(now)) /\ streak'[u] = day
           /\ badges'[u] = badges[u] \cup MetBadges(Mine(u, tx), sats, level, day, utctoday(now))
           /\ \A v \in Users \ {u} : /\ PurchasesOf(v)' = PurchasesOf(v)
                                     /\ streak'[v] = streak[v] /\ badges'[v] = badges[v]
<1> DEFINE day   == update_streak(streak[u], utctoday(now))
           after == seen[r].earned + Reward(r)
           tx    == [id |-> r, user |-> u, key |-> call[r].key, cat |-> call[r].cat,
                     sats |-> Reward(r), boost |-> seen[r].boost, at |-> seen[r].at,
                     counted |-> utctoday(now)]
           met   == MetBadges(Mine(u, tx), after, LevelIndex(after), day, utctoday(now))
<1>1. /\ bought' = bought \cup {tx}
      /\ streak' = [streak EXCEPT ![u] = day]
      /\ badges' = [badges EXCEPT ![u] = @ \cup met]
  BY Zenon DEF PurchaseCommit
<1>2. /\ streak \in [Users -> Streak] /\ badges \in [Users -> SUBSET Badges] /\ now \in Nat
  BY InvParts DEF TypeOK
<1>3. day \in Streak
  BY <1>2, StreakType DEF utctoday
<1>4. tx.counted = utctoday(now) /\ tx.user = u
  OBVIOUS
<1> HIDE DEF tx, day, met
<1>5. /\ streak'[u] = day /\ badges'[u] = badges[u] \cup met
      /\ \A v \in Users \ {u} : streak'[v] = streak[v] /\ badges'[v] = badges[v]
  BY <1>1, <1>2
<1>6. /\ PurchasesOf(u)' = Mine(u, tx)
      /\ \A v \in Users \ {u} : PurchasesOf(v)' = PurchasesOf(v)
  BY <1>1, <1>4 DEF PurchasesOf, Mine
<1> QED BY <1>1, <1>3, <1>4, <1>5, <1>6 DEF met, day

\* What a deletion does to its user's history.
LEMMA DeletedHistory ==
  ASSUME IInv, RowsInv, NEW r \in Requests, ClosesNow(r), NEW u \in Users, u = call[r].user
  PROVE  /\ PurchasesOf(u)' = {} /\ streak'[u] = NewStreak /\ badges'[u] = {}
         /\ bought' \subseteq bought
         /\ \A v \in Users \ {u} : /\ PurchasesOf(v)' = PurchasesOf(v)
                                   /\ streak'[v] = streak[v] /\ badges'[v] = badges[v]
<1>1. CloseCommit(r) /\ account[u] # "gone" /\ rows[u] = seen[r].rows
      /\ LiveGoals(u) \subseteq seen[r].goals
  BY DEF ClosesNow
<1>2. /\ bought' = {t \in bought : t.user # u}
      /\ streak' = [streak EXCEPT ![u] = NewStreak]
      /\ badges' = [badges EXCEPT ![u] = {}]
  BY <1>1 DEF CloseCommit
<1>3. streak \in [Users -> Streak] /\ badges \in [Users -> SUBSET Badges]
  BY InvParts DEF TypeOK
<1> QED BY <1>2, <1>3 DEF PurchasesOf

\* The badges whose conditions are counted under the lock of the wallet.
Counted == {"first_swipe", "centurion", "streak_master", "category_explorer",
            "precision_spender", "night_owl"}

\* Their conditions depend on the purchases and the streak alone.
LEMMA CountedConditions ==
  ASSUME NEW mine, NEW s, NEW sats, NEW level, NEW today, NEW b \in Counted,
         Conditions(mine, 0, 1, s, 0)[b]
  PROVE  b \in MetBadges(mine, sats, level, s, today)
BY DEF Counted, Conditions, MetBadges, Badges

\* Without purchases none of them holds.
LEMMA NoConditions ==
  ASSUME NEW b \in Counted
  PROVE  ~ Conditions({}, 0, 1, NewStreak, 0)[b]
<1>1. Cardinality({}) = 0 /\ {t.cat : t \in {}} = {}
  BY FS_EmptySet
<1>2. BadgeAt.centurion >= 1 /\ BadgeAt.streak_master >= 1 /\ BadgeAt.category_explorer >= 1
      /\ BadgeAt.centurion \in Nat /\ BadgeAt.streak_master \in Nat
      /\ BadgeAt.category_explorer \in Nat
  BY BadgeAtAssumption
<1> DEFINE met == Conditions({}, 0, 1, NewStreak, 0)
<1>3. /\ met.first_swipe <=> FALSE
      /\ met.centurion <=> Cardinality({}) >= BadgeAt.centurion
      /\ met.streak_master <=> NewStreak.current >= BadgeAt.streak_master
      /\ met.category_explorer <=> Cardinality({t.cat : t \in {}}) >= BadgeAt.category_explorer
      /\ met.precision_spender => \E c \in {t.cat : t \in {}} : TRUE
      /\ met.night_owl <=> FALSE
  BY DEF Conditions
<1>4. NewStreak.current = 0
  BY DEF NewStreak
<1>5. /\ ~ met.first_swipe /\ ~ met.centurion /\ ~ met.streak_master
      /\ ~ met.category_explorer /\ ~ met.precision_spender /\ ~ met.night_owl
  BY <1>1, <1>2, <1>3, <1>4
<1> HIDE DEF met
<1> QED BY <1>5 DEF Counted, met

\* Every step awards the badges that it makes due.
LEMMA BadgesInductive == IInv /\ RowsInv /\ CountedBadges /\ [Next]_vars => CountedBadges'
<1> SUFFICES ASSUME IInv, RowsInv, CountedBadges, [Next]_vars, NEW v \in Users, NEW b \in Counted,
                    Conditions(PurchasesOf(v)', 0, 1, streak'[v], 0)[b]
             PROVE  b \in badges'[v]
  BY DEF CountedBadges, Counted
<1>1. Conditions(PurchasesOf(v), 0, 1, streak[v], 0)[b] => b \in badges[v]
  BY DEF CountedBadges, Counted
<1>2. CASE UNCHANGED <<bought, streak, badges>>
  BY <1>1, <1>2 DEF PurchasesOf
<1>3. ASSUME NEW r \in Requests, PurchaseCommit(r) PROVE b \in badges'[v]
  <2>1. PICK u \in Users : u = call[r].user
    BY InvParts DEF TypeOK, Call
  <2> QED BY <1>1, <1>3, <2>1, PurchaseHistory, CountedConditions
<1>4. ASSUME NEW r \in Requests, ClosesNow(r) PROVE b \in badges'[v]
  <2>1. PICK u \in Users : u = call[r].user
    BY InvParts DEF TypeOK, Call
  <2> QED BY <1>1, <1>4, <2>1, DeletedHistory, NoConditions
<1> QED BY <1>2, <1>3, <1>4, StepKinds, HistoryStays DEF db

\* A badge whose condition holds of the purchases on record has been awarded by the
\* purchase that completed it (gamification.py:74-112).
THEOREM BadgesAreAwarded == Spec => []CountedBadges
<1>1. Init => CountedBadges
  <2> SUFFICES ASSUME Init, NEW u \in Users, NEW b \in Counted
               PROVE  ~ Conditions(PurchasesOf(u), 0, 1, streak[u], 0)[b]
    BY DEF CountedBadges, Counted
  <2>1. PurchasesOf(u) = {} /\ streak[u] = NewStreak
    BY DEF Init, PurchasesOf
  <2> QED BY <2>1, NoConditions
<1> QED BY <1>1, InitInv, InitRows, Inductive, RowsInductive, BadgesInductive, PTL DEF Spec

\* s is the streak of purchases on the days `days`: its last run is the one up to the last
\* day, and no run is longer than its longest.
StreakOf(s, days) ==
  IF days = {} THEN s = NewStreak
  ELSE /\ s.last \in days /\ \A d \in days : d <= s.last
       /\ IsRun(s.last, s.current, days)
       /\ \E d \in days : IsRun(d, s.longest, days)
       /\ \A d \in days : \A n \in Nat \ {0} : ((d - n + 1)..d) \subseteq days => n <= s.longest

\* The days of a run of n that ends on day d.
LEMMA RunDays ==
  ASSUME NEW days, NEW d \in Int, NEW n \in Nat
  PROVE  IsRun(d, n, days) <=>
           (\A x \in Int : d - n < x /\ x <= d => x \in days) /\ (d - n) \notin days
BY DEF IsRun

\* A purchase on a day, or on no day before the last, extends the streak.
LEMMA StreakExtends ==
  ASSUME NEW days \in SUBSET Nat, NEW s \in Streak, StreakOf(s, days),
         NEW today \in Nat, \A d \in days : d <= today
  PROVE  StreakOf(update_streak(s, today), days \cup {today})
<1> DEFINE new == update_streak(s, today)
           all == days \cup {today}
<1>1. /\ s.current \in Nat /\ s.longest \in Nat /\ s.last \in Int
      /\ new.last = today /\ new.current = Extended(s, today)
      /\ new.longest = IF Extended(s, today) > s.longest THEN Extended(s, today) ELSE s.longest
      /\ Extended(s, today) \in Nat /\ new.longest \in Nat
  BY DEF Streak, update_streak, Extended, NoDay
<1> HIDE DEF new
<1>2. CASE days = {}
  <2>1. s.last = -2 /\ s.longest = 0
    BY <1>2 DEF StreakOf, NewStreak, NoDay
  <2>2. Extended(s, today) = 1
    BY <2>1 DEF Extended
  <2>3. new.current = 1 /\ new.longest = 1 /\ all = {today}
    BY <1>1, <1>2, <2>1, <2>2
  <2>4. IsRun(today, 1, all)
    BY <2>3, RunDays
  <2>5. \A n \in Nat \ {0} : ((today - n + 1)..today) \subseteq all => n <= 1
    <3> SUFFICES ASSUME NEW n \in Nat, n > 1 PROVE ~ ((today - n + 1)..today) \subseteq all
      OBVIOUS
    <3>1. today - 1 \in (today - n + 1)..today /\ today - 1 \notin all
      BY <2>3
    <3> QED BY <3>1
  <2> QED BY <1>1, <2>3, <2>4, <2>5 DEF StreakOf, new
<1>3. CASE days # {}
  <2>1. /\ s.last \in days /\ \A d \in days : d <= s.last
        /\ IsRun(s.last, s.current, days)
        /\ \A d \in days : \A n \in Nat \ {0} : ((d - n + 1)..d) \subseteq days => n <= s.longest
    BY <1>3 DEF StreakOf
  <2>2. PICK e \in days : IsRun(e, s.longest, days)
    BY <1>3 DEF StreakOf
  <2>3. s.current # 0 /\ s.last <= today /\ \A d \in days : d \in Int
    BY <1>1, <2>1 DEF IsRun
  <2>4. s.current <= s.longest
    BY <1>1, <2>1, <2>3 DEF IsRun
  <2>5. IsRun(today, new.current, all)
    <3>1. CASE s.last = today
      <4>1. new.current = s.current /\ all = days
        BY <1>1, <2>1, <3>1 DEF Extended
      <4> QED BY <2>1, <3>1, <4>1
    <3>2. CASE s.last = today - 1
      <4>1. new.current = s.current + 1
        BY <1>1, <3>2 DEF Extended
      <4>2. /\ \A x \in Int : s.last - s.current < x /\ x <= s.last => x \in days
            /\ (s.last - s.current) \notin days
        BY <1>1, <2>1, RunDays
      <4>3. \A x \in Int : today - new.current < x /\ x <= today => x \in all
        BY <1>1, <3>2, <4>1, <4>2
      <4>4. (today - new.current) \notin all
        BY <1>1, <3>2, <4>1, <4>2
      <4> QED BY <1>1, <4>3, <4>4, RunDays
    <3>3. CASE s.last < today - 1
      <4>1. new.current = 1
        BY <1>1, <3>3 DEF Extended
      <4>2. (today - 1) \notin all
        BY <1>1, <2>1, <3>3
      <4> QED BY <4>1, <4>2, RunDays
    <3> QED BY <1>1, <2>3, <3>1, <3>2, <3>3
  <2>6. \E d \in all : IsRun(d, new.longest, all)
    <3>1. CASE new.longest = new.current
      BY <2>5, <3>1
    <3>2. CASE new.longest # new.current
      <4>1. new.longest = s.longest
        BY <1>1, <3>2
      <4>2. e <= s.last /\ e \in Int
        BY <2>1, <2>3
      <4>3. (e - s.longest) \notin all
        <5>1. CASE today \in days
          BY <2>2, <5>1 DEF IsRun
        <5>2. CASE today \notin days
          <6>1. e - s.longest < today
            BY <1>1, <2>1, <2>3, <4>2, <5>2
          <6> QED BY <2>2, <6>1 DEF IsRun
        <5> QED BY <5>1, <5>2
      <4> QED BY <2>2, <4>1, <4>3 DEF IsRun
    <3> QED BY <3>1, <3>2
  <2>7. ASSUME NEW d \in all, NEW n \in Nat \ {0}, ((d - n + 1)..d) \subseteq all
        PROVE  n <= new.longest
    <3>1. CASE d = today
      <4>1. (today - new.current) \notin all
        BY <2>5 DEF IsRun
      <4>2. n <= new.current
        <5> SUFFICES ASSUME n > new.current PROVE today - new.current \in (d - n + 1)..d
          BY <1>1, <2>7, <4>1
        <5> QED BY <1>1, <3>1
      <4> QED BY <1>1, <4>2
    <3>2. CASE d # today
      <4>1. d \in days /\ d < today
        BY <2>3, <3>2
      <4>2. ((d - n + 1)..d) \subseteq days
        BY <2>7, <4>1
      <4>3. n <= s.longest
        BY <2>1, <4>1, <4>2
      <4> QED BY <1>1, <4>3
    <3> QED BY <3>1, <3>2
  <2>8. \A d \in all : d <= today
    BY <2>3
  <2> HIDE DEF all
  <2>9. all # {} /\ today \in all
    BY DEF all
  <2> QED BY <1>1, <2>5, <2>6, <2>7, <2>8, <2>9 DEF StreakOf, new, all
<1> QED BY <1>2, <1>3

\* Every user's streak is that of the days on which purchases were counted, none of them
\* to come.
StreaksInv ==
  /\ \A u \in Users : StreakOf(streak[u], DaysCounted(u))
  /\ \A t \in bought : t.counted <= utctoday(now)

\* The last day of a streak is the greatest one.
LEMMA StreakOfIsRun == TypeOK /\ StreaksInv => StreakIsRun
<1> SUFFICES ASSUME TypeOK, StreaksInv, NEW u \in Users, DaysCounted(u) # {}
             PROVE  /\ streak[u].last = Max(DaysCounted(u))
                    /\ IsRun(streak[u].last, streak[u].current, DaysCounted(u))
                    /\ \E d \in DaysCounted(u) : IsRun(d, streak[u].longest, DaysCounted(u))
                    /\ \A d \in DaysCounted(u), n \in 1..Cardinality(DaysCounted(u)) :
                         ((d - n + 1)..d) \subseteq DaysCounted(u) => n <= streak[u].longest
  BY DEF StreakIsRun, StreaksInv, StreakOf
<1> DEFINE days == DaysCounted(u)
           s    == streak[u]
<1>1. /\ s.last \in days /\ \A d \in days : d <= s.last
      /\ IsRun(s.last, s.current, days)
      /\ \E d \in days : IsRun(d, s.longest, days)
      /\ \A d \in days : \A n \in Nat \ {0} : ((d - n + 1)..d) \subseteq days => n <= s.longest
  BY DEF StreaksInv, StreakOf
<1>2. days \subseteq Nat
  BY DEF DaysCounted, PurchasesOf, TypeOK, Purchase
<1> HIDE DEF days, s
<1>3. \A n \in 1..Cardinality(days) : n \in Nat \ {0}
  OBVIOUS
<1>4. Max(days) \in days /\ \A y \in days : Max(days) >= y
  <2>1. \E x \in days : \A y \in days : x >= y
    BY <1>1, <1>2
  <2> QED BY <2>1 DEF Max
<1>5. s.last = Max(days)
  <2>1. \A d \in days : d \in Int
    BY <1>2
  <2>2. PICK m \in days : m = Max(days) /\ \A y \in days : m >= y
    BY <1>4
  <2>3. s.last = m
    BY <1>1, <2>1, <2>2
  <2> QED BY <2>2, <2>3
<1> QED BY <1>1, <1>3, <1>5 DEF days, s

\* Every step keeps the streaks.
LEMMA StreaksInductive == IInv /\ RowsInv /\ StreaksInv /\ [Next]_vars => StreaksInv'
<1> SUFFICES ASSUME IInv, RowsInv, StreaksInv, [Next]_vars PROVE StreaksInv'
  OBVIOUS
<1>1. /\ now \in Nat /\ now' \in Nat /\ now <= now'
      /\ bought \subseteq Purchase /\ streak \in [Users -> Streak]
  <2>1. TypeOK /\ TypeOK'
    BY InvParts, TypeInductive
  <2>2. now' = now \/ now' = now + 1
    <3>1. ASSUME NEW r \in Requests, Begin(r) PROVE now' = now
      BY <3>1, BeginArrives, <2>1 DEF ArrivedSomehow, Arrived, RegisterArrive
    <3>2. ASSUME NEW r \in Requests, Continue(r) PROVE now' = now
      BY <3>2, ContinueShape DEF Finish, Proceed
    <3> QED BY <3>1, <3>2 DEF Next, Idle, Restart, Tick, vars
  <2> QED BY <2>1, <2>2 DEF TypeOK
<1>2. utctoday(now) \in Nat /\ utctoday(now') \in Nat /\ utctoday(now) <= utctoday(now')
  <2>1. ASSUME NEW a \in Nat, NEW b \in Nat, a <= b
        PROVE  a \div 2 \in Nat /\ b \div 2 \in Nat /\ a \div 2 <= b \div 2
    BY <2>1
  <2> QED BY <1>1, <2>1 DEF utctoday
<1>3. \A u \in Users : DaysCounted(u) \subseteq Nat /\ \A d \in DaysCounted(u) : d <= utctoday(now)
  BY <1>1 DEF DaysCounted, PurchasesOf, Purchase, StreaksInv
<1>4. \A t \in bought : t.counted <= utctoday(now')
  BY <1>1, <1>2 DEF StreaksInv, Purchase
<1>5. CASE UNCHANGED <<bought, streak>>
  BY <1>4, <1>5 DEF StreaksInv, DaysCounted, PurchasesOf
<1>6. ASSUME NEW r \in Requests, PurchaseCommit(r) PROVE StreaksInv'
  <2>1. PICK u \in Users : u = call[r].user
    BY InvParts DEF TypeOK, Call
  <2>2. PICK tx, sats, level : \E day \in Streak :
          /\ PurchasesOf(u)' = Mine(u, tx)
          /\ tx.counted = utctoday(now) /\ bought' = bought \cup {tx} /\ tx.user = u
          /\ day = update_streak(streak[u], utctoday(now)) /\ streak'[u] = day
          /\ badges'[u] = badges[u] \cup MetBadges(Mine(u, tx), sats, level, day, utctoday(now))
          /\ \A v \in Users \ {u} : /\ PurchasesOf(v)' = PurchasesOf(v)
                                    /\ streak'[v] = streak[v] /\ badges'[v] = badges[v]
    BY <1>6, <2>1, PurchaseHistory
  <2>3. DaysCounted(u)' = DaysCounted(u) \cup {utctoday(now)}
    BY <2>2 DEF DaysCounted, PurchasesOf, Mine
  <2>4. StreakOf(streak'[u], DaysCounted(u)')
    BY <1>1, <1>2, <1>3, <2>2, <2>3, StreakExtends DEF StreaksInv
  <2>5. \A v \in Users \ {u} : StreakOf(streak'[v], DaysCounted(v)')
    BY <2>2 DEF StreaksInv, DaysCounted
  <2>6. \A t \in bought' : t.counted <= utctoday(now')
    BY <1>2, <1>4, <2>2
  <2> QED BY <2>4, <2>5, <2>6 DEF StreaksInv, StreakOf, IsRun
<1>7. ASSUME NEW r \in Requests, ClosesNow(r) PROVE StreaksInv'
  <2>1. PICK u \in Users : u = call[r].user
    BY InvParts DEF TypeOK, Call
  <2>2. /\ PurchasesOf(u)' = {} /\ streak'[u] = NewStreak /\ bought' \subseteq bought
        /\ \A v \in Users \ {u} : PurchasesOf(v)' = PurchasesOf(v) /\ streak'[v] = streak[v]
    BY <1>7, <2>1, DeletedHistory
  <2>3. \A v \in Users : StreakOf(streak'[v], DaysCounted(v)')
    BY <2>2 DEF StreaksInv, DaysCounted, StreakOf
  <2>4. \A t \in bought' : t.counted <= utctoday(now')
    BY <1>4, <2>2
  <2> QED BY <2>3, <2>4 DEF StreaksInv, StreakOf, IsRun
<1> QED BY <1>5, <1>6, <1>7, StepKinds, HistoryStays DEF db

\* The streak is the run of consecutive days, up to the last one counted, on which a
\* purchase was committed, and the longest is the longest one (gamification.py:36-54).
THEOREM StreaksAreRuns == Spec => []StreakIsRun
<1>1. Init => StreaksInv
  BY DEF Init, StreaksInv, StreakOf, DaysCounted, PurchasesOf
<1>2. IInv /\ StreaksInv => StreakIsRun
  BY StreakOfIsRun, InvParts
<1> QED BY <1>1, <1>2, InitInv, InitRows, Inductive, RowsInductive, StreaksInductive, PTL DEF Spec

-----------------------------------------------------------------------------
(* Levels. *)

\* A higher level never pays less.
LEMMA PaymentGrows ==
  ASSUME NEW amount \in Nat, NEW a \in Int, NEW b \in Int, a <= b, NEW boosted \in {10, 20}
  PROVE  calculate_reward(amount, 1, Multiplier(a), boosted).total_sats
           <= calculate_reward(amount, 1, Multiplier(b), boosted).total_sats
<1>1. PICK k \in Nat, l \in Nat : k = Multiplier(a) /\ l = Multiplier(b) /\ k <= l
  BY MultiplierType, MultiplierGrows
<1>2. PICK one \in Nat \ {0} : one = 1
  OBVIOUS
<1>3. calculate_reward(amount, one, k, boosted).total_sats
        <= calculate_reward(amount, one, l, boosted).total_sats
  BY <1>1, <1>2, RewardGrows, amount <= amount, boosted \in Nat, boosted <= boosted
<1> QED BY ONLY <1>1, <1>2, <1>3

\* What a purchase may be paid is a natural number.
LEMMA PaidType ==
  ASSUME NEW amount \in Nat, NEW a \in Int, NEW boosted \in {10, 20}
  PROVE  calculate_reward(amount, 1, Multiplier(a), boosted).total_sats \in Nat
<1>1. PICK k \in Nat : k = Multiplier(a)
  BY MultiplierType
<1>2. amount * k * boosted \in Nat
  BY <1>1
<1>3. PICK n \in Nat : n = amount * k * boosted
  BY <1>2
<1>4. Rounded(n, 100) \in Nat
  BY RoundedType
<1> QED BY <1>1, <1>3, <1>4 DEF calculate_reward

\* What an account has earned only grows, until it is deleted.
LEMMA EarnedGrows ==
  ASSUME IInv, RowsInv, [Next]_vars, NEW u \in Users, account[u] # "none", account'[u] = "open"
  PROVE  total_sats_earned(u) <= total_sats_earned(u)'
<1>1. /\ TypeOK /\ ledger \in [Users -> [LedgerTypes -> Int]] /\ total_sats_earned(u) \in Int
      /\ \A r \in Requests : /\ call[r].amount \in Nat /\ call[r].spare \in Nat
                             /\ seen[r].pot \in Nat /\ Reward(r) \in Nat
                             /\ call[r].user \in Users /\ call[r].friend \in Users
  BY InvParts, PaymentType DEF TypeOK, Call, Seen, total_sats_earned, LedgerTypes
<1>2. {"referral_bonus", "referral_welcome", "round_up", "cashback", "goal_allocation"}
        \subseteq LedgerTypes
  BY DEF LedgerTypes
<1>3. CASE UNCHANGED ledger
  BY <1>1, <1>3 DEF total_sats_earned
<1>4. ASSUME NEW r \in Requests, PurchaseCommit(r)
      PROVE  total_sats_earned(u) <= total_sats_earned(u)'
  <2>1. PICK v \in Users, m \in Nat, n \in Int :
          ledger' = Entry(Entry(ledger, v, "cashback", m), v, "round_up", n)
    BY <1>1, <1>4 DEF PurchaseCommit
  <2>2. ledger'[u]["cashback"] = IF u = v THEN ledger[u]["cashback"] + m ELSE ledger[u]["cashback"]
    BY <1>1, <1>2, <2>1 DEF Entry
  <2> QED BY <1>1, <2>2 DEF total_sats_earned
<1>5. ASSUME NEW r \in Requests, AllocateCommit(r) \/ DeleteGoalCommit(r), ~ UNCHANGED ledger
      PROVE  total_sats_earned(u) <= total_sats_earned(u)'
  <2>1. PICK v \in Users, n \in Int : ledger' = Entry(ledger, v, "goal_allocation", n)
    BY <1>1, <1>5 DEF AllocateCommit, DeleteGoalCommit, Refuse, db
  <2>2. ledger'[u]["cashback"] = ledger[u]["cashback"]
    BY <1>1, <1>2, <2>1 DEF Entry
  <2> QED BY <1>1, <2>2 DEF total_sats_earned
<1>6. ASSUME NEW r \in Requests, RegisterCommit(r), ~ UNCHANGED ledger
      PROVE  total_sats_earned(u) <= total_sats_earned(u)'
  <2>1. PICK v \in Users, f \in Users :
          ledger' = Entry(Entry(ledger, f, "referral_bonus", ReferrerSats),
                          v, "referral_welcome", WelcomeSats)
    BY <1>1, <1>6 DEF RegisterCommit
  <2>2. ledger'[u]["cashback"] = ledger[u]["cashback"]
    BY <1>1, <1>2, <2>1 DEF Entry
  <2> QED BY <1>1, <2>2 DEF total_sats_earned
<1>7. ASSUME NEW r \in Requests, ClosesNow(r)
      PROVE  total_sats_earned(u) <= total_sats_earned(u)'
  <2>1. u # call[r].user
    BY <1>7, ClosingIsAlone
  <2>2. ledger' = [ledger EXCEPT ![call[r].user] = NoLedger]
    BY <1>7 DEF ClosesNow, CloseCommit
  <2>3. ledger'[u] = ledger[u]
    BY <1>1, <2>1, <2>2
  <2> QED BY <1>1, <2>3 DEF total_sats_earned
<1>8. ASSUME NEW r \in Requests, CreateGoalCommit(r) \/ RoundupCommit(r) \/ BoostCommit(r)
      PROVE  UNCHANGED ledger
  BY <1>8 DEF CreateGoalCommit, RoundupCommit, BoostCommit, Refuse, db
<1> QED BY <1>3, <1>4, <1>5, <1>6, <1>7, <1>8, StepKinds DEF Commits, db

\* What a purchase has read of the sats earned is what it read when it arrived.
LEMMA EarnedStaysRead ==
  ASSUME IInv, RowsInv, [Next]_vars, NEW r \in Requests, InFlight(r)', call'[r].op = "purchase"
  PROVE  \/ InFlight(r) /\ call'[r] = call[r] /\ seen'[r].earned = seen[r].earned
         \/ /\ pc[r] = "new" /\ account[call'[r].user] = "open" /\ UNCHANGED <<account, ledger>>
            /\ seen'[r].earned = total_sats_earned(call'[r].user)
<1>1. /\ pc \in [Requests -> Steps] /\ call \in [Requests -> Call] /\ seen \in [Requests -> Seen]
      /\ seen[r] \in Seen
  BY InvParts DEF TypeOK
<1>2. CASE Begin(r)
  <2>1. PurchaseRead(r)
    BY <1>1, <1>2 DEF Begin, CreateGoalArrive, GoalArrive, RoundupArrive, BoostRead,
       RegisterArrive, CloseRead, Arrive
  <2>2. PICK c \in Menu :
          /\ pc[r] = "new" /\ call'[r] = c
          /\ account[c.user] = "open" \/ pc'[r] = "done"
          /\ account[c.user] = "open" =>
               seen'[r] = [NothingSeen EXCEPT
                             !.earned = total_sats_earned(c.user),
                             !.boost = active_boost(c.user) /\ boost[c.user].cat = c.cat,
                             !.at = now]
          /\ UNCHANGED db
    <3> DEFINE s == [c \in Menu |->
                       [NothingSeen EXCEPT
                          !.earned = total_sats_earned(c.user),
                          !.boost = active_boost(c.user) /\ boost[c.user].cat = c.cat,
                          !.at = now]]
    <3>1. Arrive(r, {"purchase"}, "insert", s)
      BY <2>1, Zenon DEF PurchaseRead
    <3>2. PICK c \in Menu :
            /\ pc[r] = "new" /\ call' = [call EXCEPT ![r] = c]
            /\ IF account[c.user] = "open"
                 THEN seen' = [seen EXCEPT ![r] = s[c]] ELSE pc' = [pc EXCEPT ![r] = "done"]
            /\ UNCHANGED db
      <4> HIDE DEF s
      <4> QED BY <3>1, Zenon DEF Arrive
    <3>3. s[c] = [NothingSeen EXCEPT
                    !.earned = total_sats_earned(c.user),
                    !.boost = active_boost(c.user) /\ boost[c.user].cat = c.cat,
                    !.at = now]
      OBVIOUS
    <3> HIDE DEF s
    <3>4. call'[r] = c /\ (account[c.user] = "open" \/ pc'[r] = "done")
      BY <1>1, <3>2
    <3>5. account[c.user] = "open" => seen'[r] = s[c]
      BY <1>1, <3>2
    <3> QED BY <3>2, <3>3, <3>4, <3>5
  <2>3. account[c.user] = "open"
    BY <2>2 DEF InFlight
  <2>4. seen'[r].earned = total_sats_earned(c.user)
    BY <2>2, <2>3 DEF NothingSeen
  <2> QED BY <2>2, <2>3, <2>4 DEF db
<1>3. CASE Continue(r)
  <2>1. InFlight(r) /\ call'[r] = call[r]
    BY <1>3, ContinueShape, RequestsStay DEF InFlight
  <2>2. \E step, s : Proceed(r, step, s)
    BY <1>1, <1>3, ContinueShape DEF Finish, InFlight
  <2>3. LockWallet(r) \/ PurchaseInsert(r)
    <3>1. ~ (LockGoal(r) /\ pc[r] = "goal")
      BY <2>1, InvParts DEF FlowInv, StepsOf
    <3>2. pc'[r] # "done"
      BY DEF InFlight
    <3>3. ~ \E code : Finish(r, code)
      BY <1>1, <3>2 DEF Finish
    <3>4. call[r].op = "purchase"
      BY <1>1, <2>1
    <3>5. \A code : ~ Refuse(r, code)
      BY <3>3 DEF Refuse
    <3>6. ~ (PurchaseDeclined(r) \/ ScoreFails(r) \/ PurchaseCommit(r) \/ DeadlockVictim(r))
      BY ONLY <3>3, <3>5, Zenon DEF PurchaseDeclined, ScoreFails, PurchaseCommit, DeadlockVictim
    <3>7. ~ (CreateGoalCommit(r) \/ AllocateCommit(r) \/ DeleteGoalCommit(r)
               \/ RoundupCommit(r) \/ BoostCommit(r) \/ CloseCommit(r))
      BY <3>4 DEF CreateGoalCommit, AllocateCommit, DeleteGoalCommit, RoundupCommit,
             BoostCommit, CloseCommit, Is
    <3>8. ~ (RegisterInsert(r) \/ RegisterReferral(r) \/ RegisterLockCode(r)
               \/ RegisterCommit(r) \/ CloseLockCode(r) \/ CloseLockGoals(r))
      BY <3>4 DEF RegisterInsert, RegisterReferral, RegisterLockCode, RegisterCommit,
             CloseLockCode, CloseLockGoals, Is
    <3>9. ~ LockGoal(r)
      BY <3>1, <3>5 DEF LockGoal
    <3> QED BY <1>3, <3>6, <3>7, <3>8, <3>9 DEF Continue
  <2>4. CASE LockWallet(r)
    BY <1>1, <2>1, <2>4 DEF LockWallet, Proceed, Seen
  <2>5. CASE PurchaseInsert(r)
    BY <1>1, <2>1, <2>2, <2>5 DEF PurchaseInsert, Refuse, Finish, Proceed, InFlight
  <2> QED BY <2>3, <2>4, <2>5
<1>4. ASSUME NEW q \in Requests, q # r, Begin(q) \/ Continue(q)
      PROVE  InFlight(r) /\ call'[r] = call[r] /\ seen'[r].earned = seen[r].earned
  <2>1. pc'[r] = pc[r] /\ call'[r] = call[r] /\ seen'[r] = seen[r]
    BY <1>1, <1>4, ArrivalPlaces, ContinueShape DEF Finish, Proceed
  <2> QED BY <2>1 DEF InFlight
<1>5. CASE Restart
  BY <1>1, <1>5 DEF Restart, InFlight
<1>6. CASE Tick \/ UNCHANGED vars
  BY <1>6 DEF Tick, vars, InFlight
<1> QED BY <1>2, <1>3, <1>4, <1>5, <1>6 DEF Next, Idle

\* Every step keeps purchases from being paid too much.
LEMMA OverpaidInductive ==
  IInv /\ RowsInv /\ NoOrphans /\ RecordedIsAnswered /\ NeverOverpaid /\ [Next]_vars
    => NeverOverpaid'
<1> SUFFICES ASSUME IInv, RowsInv, NoOrphans, RecordedIsAnswered, NeverOverpaid, [Next]_vars
             PROVE  NeverOverpaid'
  OBVIOUS
<1>1. /\ TypeOK /\ TypeOK' /\ \A r \in Requests : call[r].user \in Users
      /\ \A t \in bought : t.id \in Requests /\ t.user \in Users /\ t.sats \in Nat
      /\ \A u \in Users : total_sats_earned(u) \in Int /\ total_sats_earned(u)' \in Int
      /\ \A r \in Requests : call[r].amount \in Nat /\ seen[r].earned \in Int
  BY InvParts, TypeInductive DEF TypeOK, Call, Purchase, Seen, total_sats_earned, LedgerTypes
<1>2. ASSUME NEW r \in Requests, NEW u, u = call'[r].user, InFlight(r)',
             call'[r].op = "purchase", account'[u] = "open"
      PROVE  seen'[r].earned <= total_sats_earned(u)'
  <2>1. CASE InFlight(r) /\ call'[r] = call[r] /\ seen'[r].earned = seen[r].earned
    <3>1. account[u] # "none"
      BY <1>2, <2>1 DEF RowsInv, Asked, InFlight
    <3>2. account[u] = "open" /\ u \in Users
      BY <1>1, <1>2, <2>1, <3>1, OpenWasOpen
    <3>3. seen[r].earned <= total_sats_earned(u)
      BY <1>2, <2>1, <3>2 DEF NeverOverpaid
    <3>4. total_sats_earned(u) <= total_sats_earned(u)'
      BY <1>2, <3>1, <3>2, EarnedGrows
    <3> QED BY <1>1, <2>1, <3>2, <3>3, <3>4
  <2>2. CASE /\ UNCHANGED <<account, ledger>>
             /\ seen'[r].earned = total_sats_earned(call'[r].user)
    <3>1. seen'[r].earned = total_sats_earned(u)' /\ u \in Users
      BY <1>1, <1>2, <2>2 DEF total_sats_earned, TypeOK, Call
    <3> QED BY <1>1, <3>1
  <2> QED BY <1>2, <2>1, <2>2, EarnedStaysRead
<1>3. ASSUME NEW t \in bought', NEW r \in Requests, NEW c, r = t.id, c = call'[r]
      PROVE  t.sats <= calculate_reward(c.amount, 1,
                         Multiplier(total_sats_earned(t.user)' - t.sats),
                         IF t.boost THEN 20 ELSE 10).total_sats
  <2>0. PICK boosted \in {10, 20} : boosted = IF t.boost THEN 20 ELSE 10
    OBVIOUS
  <2>1. CASE t \in bought
    <3>1. c = call[r] /\ c.amount \in Nat
      BY <1>1, <1>3, <2>1, RequestsStay DEF RecordedIsAnswered
    <3>2. account[t.user] = "open" /\ account'[t.user] = "open" /\ t.user \in Users
      BY <1>1, <1>3, <2>1, OrphansInductive DEF NoOrphans
    <3>3. PICK a \in Int, b \in Int, n \in Nat : /\ a = total_sats_earned(t.user) /\ n = t.sats
                                     /\ b = total_sats_earned(t.user)' /\ a <= b
      BY <1>1, <2>1, <3>2, EarnedGrows
    <3>4. n <= calculate_reward(c.amount, 1, Multiplier(a - n), boosted).total_sats
      BY <1>3, <2>0, <2>1, <3>1, <3>3 DEF NeverOverpaid
    <3>5. a - n \in Int /\ b - n \in Int /\ a - n <= b - n
      BY <3>3
    <3>6. calculate_reward(c.amount, 1, Multiplier(a - n), boosted).total_sats
            <= calculate_reward(c.amount, 1, Multiplier(b - n), boosted).total_sats
      BY <3>1, <3>5, PaymentGrows
    <3>7. /\ calculate_reward(c.amount, 1, Multiplier(a - n), boosted).total_sats \in Nat
          /\ calculate_reward(c.amount, 1, Multiplier(b - n), boosted).total_sats \in Nat
      BY <3>1, PaidType
    <3>8. n <= calculate_reward(c.amount, 1, Multiplier(b - n), boosted).total_sats
      BY <3>4, <3>6, <3>7
    <3> QED BY <2>0, <3>3, <3>8
  <2>2. CASE t \notin bought
    <3>1. PurchaseCommit(r)
      BY <1>3, <2>2, RecordChanges
    <3>2. /\ c = call[r] /\ c.amount \in Nat /\ t.sats = Reward(r) /\ t.user = c.user
          /\ t.user \in Users /\ t.boost = seen[r].boost
      <4>1. c = call[r]
        BY <1>3, <3>1, RequestsStay DEF PurchaseCommit, Is
      <4>2. t = [id |-> r, user |-> call[r].user, key |-> call[r].key, cat |-> call[r].cat,
                 sats |-> Reward(r), boost |-> seen[r].boost, at |-> seen[r].at,
                 counted |-> utctoday(now)]
        BY <1>3, <2>2, <3>1 DEF PurchaseCommit
      <4> QED BY <1>1, <4>1, <4>2
    <3>3. account[t.user] = "open"
      BY <3>1, <3>2 DEF RowsInv, SharersOpen, KeySharers, PurchaseCommit, Is
    <3>4. seen[r].earned <= total_sats_earned(t.user)
      BY <3>1, <3>2, <3>3 DEF NeverOverpaid, PurchaseCommit, Is, InFlight
    <3>5. total_sats_earned(t.user)' - t.sats = total_sats_earned(t.user)
      <4>1. PICK v \in Users, n \in Int :
              ledger' = Entry(Entry(ledger, v, "cashback", Reward(r)), v, "round_up", n)
              /\ v = t.user
        BY <3>1, <3>2, <1>1 DEF PurchaseCommit, TypeOK, Call
      <4>2. Reward(r) \in Nat /\ ledger \in [Users -> [LedgerTypes -> Int]]
            /\ {"cashback", "round_up"} \subseteq LedgerTypes
        BY <1>1, PaymentType DEF TypeOK, LedgerTypes
      <4>3. ledger'[v]["cashback"] = ledger[v]["cashback"] + Reward(r)
        BY <4>1, <4>2 DEF Entry
      <4> QED BY <1>1, <3>2, <4>1, <4>2, <4>3 DEF total_sats_earned
    <3>6. PICK a \in Int, b \in Int : a = seen[r].earned /\ b = total_sats_earned(t.user) /\ a <= b
      BY <1>1, <3>2, <3>4
    <3>7. Reward(r) <= calculate_reward(c.amount, 1, Multiplier(b), boosted).total_sats
      <4>1. Reward(r) = calculate_reward(c.amount, 1, Multiplier(a), boosted).total_sats
        BY <2>0, <3>2, <3>6 DEF Reward
      <4> QED BY <3>2, <3>6, <4>1, PaymentGrows
    <3> QED BY <2>0, <3>2, <3>5, <3>6, <3>7
  <2> QED BY <2>1, <2>2
<1>4. \A t \in bought' : t.id \in Requests
  BY <1>1 DEF TypeOK, Purchase
<1> QED BY <1>2, <1>3, <1>4 DEF NeverOverpaid, InFlight, total_sats_earned

\* A level read before a concurrent purchase can only be too low: nobody is paid more than
\* the level they had reached without the purchase and the boost recorded with it give
\* (transactions.py:86-92, 108-113).
THEOREM NobodyOverpaid == Spec => []NeverOverpaid
<1>1. Init => NoOrphans
  BY CardsAssumption DEF Init, NoOrphans
<1>2. Init => RecordedIsAnswered /\ NeverOverpaid
  BY DEF Init, RecordedIsAnswered, NeverOverpaid, InFlight
<1> QED BY <1>1, <1>2, InitInv, InitRows, Inductive, RowsInductive, OrphansInductive,
           RecordedInductive, OverpaidInductive, PTL DEF Spec

-----------------------------------------------------------------------------
(* The ledger is backed by purchases and by goals.  The sums of              *)
(* LedgerIsBacked are over finite sets: of the purchases on record, and of   *)
(* the goals that live.                                                      *)

Paid == [t \in Purchase |-> t.sats]

Living == {g \in GoalIds : goal[g].state = "live"}

Backed ==
  \A u \in Users : /\ ledger[u]["cashback"] = SumOf(Paid, PurchasesOf(u))
                   /\ ledger[u]["goal_allocation"] = - SumOf(Pots, LiveGoals(u))

BackedInv == IsFiniteSet(bought) /\ IsFiniteSet(Living) /\ Backed

\* The sum of purchases that LedgerIsBacked writes.
LEMMA PaidSum ==
  ASSUME NEW A \in SUBSET Purchase, IsFiniteSet(A)
  PROVE  MapThenSumSet(LAMBDA t : t.sats, A) = SumOf(Paid, A)
<1> DEFINE Unrolls(it) ==
      it = [s \in SUBSET A |-> IF s = {} THEN 0 ELSE First(s).sats + it[s \ {First(s)}]]
<1>1. MapThenSumSet(LAMBDA t : t.sats, A) = (CHOOSE it : Unrolls(it))[A]
  BY DEF MapThenSumSet, MapThenFoldSet, First
<1>2. ASSUME NEW s \in SUBSET A, s # {}
      PROVE  Paid[First(s)] = First(s).sats
  BY <1>2, FirstAndRest DEF Paid
<1>3. ASSUME NEW it PROVE Unrolls(it) <=> Unfolds(it, Paid, A)
  <2>1. [s \in SUBSET A |-> IF s = {} THEN 0 ELSE First(s).sats + it[s \ {First(s)}]]
          = [s \in SUBSET A |-> IF s = {} THEN 0 ELSE Paid[First(s)] + it[s \ {First(s)}]]
    BY <1>2
  <2> QED BY <2>1, Zenon DEF Unfolds
<1>4. PICK jt : Unfolds(jt, Paid, A) /\ SumOf(Paid, A) = jt[A]
  BY SumUnfolds
<1>5. Unrolls(CHOOSE it : Unrolls(it))
  <2>1. \E it : Unrolls(it)
    BY <1>3, <1>4
  <2> HIDE DEF Unrolls
  <2> QED BY <2>1, Zenon
<1> HIDE DEF Unrolls
<1>6. PICK it : it = (CHOOSE i : Unrolls(i))
  OBVIOUS
<1>7. Unfolds(it, Paid, A) /\ MapThenSumSet(LAMBDA t : t.sats, A) = it[A]
  BY <1>1, <1>3, <1>5, <1>6, Zenon
<1>8. it[A] = jt[A]
  BY <1>4, <1>7, UnfoldsAgree
<1> QED BY <1>4, <1>7, <1>8

\* The sum of goals that LedgerIsBacked writes, with a goal table h.
LEMMA PotSum ==
  ASSUME NEW h, NEW A \in SUBSET GoalIds, IsFiniteSet(A)
  PROVE  MapThenSumSet(LAMBDA g : h[g].current, A) = SumOf([g \in GoalIds |-> h[g].current], A)
<1> DEFINE Unrolls(it) ==
      it = [s \in SUBSET A |-> IF s = {} THEN 0 ELSE h[First(s)].current + it[s \ {First(s)}]]
<1>0. PICK w : w = [g \in GoalIds |-> h[g].current]
  OBVIOUS
<1>1. MapThenSumSet(LAMBDA g : h[g].current, A) = (CHOOSE it : Unrolls(it))[A]
  BY DEF MapThenSumSet, MapThenFoldSet, First
<1>2. ASSUME NEW s \in SUBSET A, s # {}
      PROVE  w[First(s)] = h[First(s)].current
  BY <1>0, <1>2, FirstAndRest
<1>3. ASSUME NEW it PROVE Unrolls(it) <=> Unfolds(it, w, A)
  <2>1. [s \in SUBSET A |-> IF s = {} THEN 0 ELSE h[First(s)].current + it[s \ {First(s)}]]
          = [s \in SUBSET A |-> IF s = {} THEN 0 ELSE w[First(s)] + it[s \ {First(s)}]]
    BY <1>2
  <2> QED BY <2>1, Zenon DEF Unfolds
<1>4. PICK jt : Unfolds(jt, w, A) /\ SumOf(w, A) = jt[A]
  BY SumUnfolds
<1>5. Unrolls(CHOOSE it : Unrolls(it))
  <2>1. \E it : Unrolls(it)
    BY <1>3, <1>4
  <2> HIDE DEF Unrolls
  <2> QED BY <2>1, Zenon
<1> HIDE DEF Unrolls
<1>6. PICK it : it = (CHOOSE i : Unrolls(i))
  OBVIOUS
<1>7. Unfolds(it, w, A) /\ MapThenSumSet(LAMBDA g : h[g].current, A) = it[A]
  BY <1>1, <1>3, <1>5, <1>6, Zenon
<1>8. it[A] = jt[A]
  BY <1>4, <1>7, UnfoldsAgree
<1> QED BY <1>0, <1>4, <1>7, <1>8

\* A sum is that of the rest, and what x weighs if it is among the elements.
LEMMA SumWithout ==
  ASSUME NEW w, NEW S, IsFiniteSet(S), NEW x, \A y \in S : w[y] \in Int
  PROVE  SumOf(w, S) = SumOf(w, S \ {x}) + (IF x \in S THEN w[x] ELSE 0)
<1>1. SumOf(w, S) \in Int
  BY SumInt
<1>2. CASE x \in S
  <2>1. SumOf(w, S \ {x}) = SumOf(w, S) - w[x] /\ w[x] \in Int
    BY <1>2, SumRemove
  <2> QED BY <1>1, <1>2, <2>1
<1>3. CASE x \notin S
  <2>1. S \ {x} = S
    BY <1>3
  <2>2. SumOf(w, S \ {x}) = SumOf(w, S)
    BY <2>1
  <2> QED BY <1>1, <1>3, <2>2
<1> QED BY <1>2, <1>3

\* BackedInv says what LedgerIsBacked says.
LEMMA BackedIsBacked == TypeOK /\ BackedInv => LedgerIsBacked
<1> SUFFICES ASSUME TypeOK, BackedInv, NEW u \in Users
             PROVE  /\ ledger[u]["cashback"] = MapThenSumSet(LAMBDA t : t.sats, PurchasesOf(u))
                    /\ ledger[u]["goal_allocation"] =
                         - MapThenSumSet(LAMBDA g : goal[g].current, LiveGoals(u))
  BY Zenon DEF LedgerIsBacked
<1>1. PurchasesOf(u) \in SUBSET Purchase /\ IsFiniteSet(PurchasesOf(u))
  BY FS_Subset DEF TypeOK, PurchasesOf, BackedInv
<1>2. LiveGoals(u) \in SUBSET GoalIds /\ IsFiniteSet(LiveGoals(u))
  BY FS_Subset DEF LiveGoals, Living, BackedInv
<1>3. MapThenSumSet(LAMBDA t : t.sats, PurchasesOf(u)) = SumOf(Paid, PurchasesOf(u))
  BY <1>1, PaidSum
<1>4. MapThenSumSet(LAMBDA g : goal[g].current, LiveGoals(u)) = SumOf(Pots, LiveGoals(u))
  BY <1>2, PotSum DEF Pots
<1> QED BY <1>3, <1>4 DEF BackedInv, Backed

\* What a goal counts for in its owner's savings.
Worth(g) == IF goal[g].state = "live" THEN goal[g].current ELSE 0

\* When one goal changes, its owner's savings change by as much, and nobody else's.
LEMMA PotsMove ==
  ASSUME TypeOK, TypeOK', IsFiniteSet(Living), NEW g \in GoalIds, NEW u \in Users,
         \A h \in GoalIds \ {g} : goal'[h] = goal[h], goal'[g].owner = u,
         goal[g].state = "live" => goal[g].owner = u
  PROVE  /\ IsFiniteSet(Living')
         /\ \A v \in Users \ {u} : SumOf(Pots, LiveGoals(v))' = SumOf(Pots, LiveGoals(v))
         /\ SumOf(Pots, LiveGoals(u))' = SumOf(Pots, LiveGoals(u)) - Worth(g) + Worth(g)'
         /\ SumOf(Pots, LiveGoals(u)) \in Int
<1>1. IsFiniteSet(Living')
  <2>1. IsFiniteSet(Living \cup {g}) /\ Living' \subseteq Living \cup {g}
    BY FS_AddElement DEF Living
  <2> QED BY <2>1, FS_Subset
<1>2. ASSUME NEW v \in Users
      PROVE  /\ IsFiniteSet(LiveGoals(v)) /\ LiveGoals(v) \subseteq GoalIds
             /\ IsFiniteSet(LiveGoals(v)') /\ LiveGoals(v)' \subseteq GoalIds
  <2>1. LiveGoals(v) \subseteq Living /\ LiveGoals(v)' \subseteq Living'
    BY DEF LiveGoals, Living
  <2>2. LiveGoals(v) \subseteq GoalIds /\ LiveGoals(v)' \subseteq GoalIds
    BY DEF LiveGoals
  <2> QED BY <1>1, <2>1, <2>2, FS_Subset
<1>3. PICK w, wn : w = Pots /\ wn = Pots'
  OBVIOUS
<1>4. /\ \A h \in GoalIds : w[h] = goal[h].current /\ w[h] \in Int
      /\ \A h \in GoalIds : wn[h] = goal'[h].current /\ wn[h] \in Int
  BY <1>3 DEF Pots, TypeOK, Goal
<1>5. ASSUME NEW v \in Users \ {u} PROVE SumOf(Pots, LiveGoals(v))' = SumOf(Pots, LiveGoals(v))
  <2>1. LiveGoals(v)' = LiveGoals(v) /\ g \notin LiveGoals(v)
    BY DEF LiveGoals
  <2>2. \A h \in LiveGoals(v) : w[h] = wn[h]
    BY <1>2, <1>4, <2>1
  <2>3. SumOf(w, LiveGoals(v)) = SumOf(wn, LiveGoals(v))
    BY <1>2, <2>2, SumCongruent
  <2> QED BY <1>3, <2>1, <2>3
<1>6. PICK S, Sn : S = LiveGoals(u) /\ Sn = LiveGoals(u)'
  OBVIOUS
<1>7. /\ IsFiniteSet(S) /\ S \subseteq GoalIds /\ IsFiniteSet(Sn) /\ Sn \subseteq GoalIds
      /\ S \ {g} = Sn \ {g}
      /\ Worth(g) = IF g \in S THEN w[g] ELSE 0
      /\ Worth(g)' = IF g \in Sn THEN wn[g] ELSE 0
  BY <1>2, <1>4, <1>6 DEF LiveGoals, Worth
<1>8. /\ SumOf(w, S) = SumOf(w, S \ {g}) + Worth(g)
      /\ SumOf(wn, Sn) = SumOf(wn, Sn \ {g}) + Worth(g)'
  BY <1>4, <1>7, SumWithout
<1>9. SumOf(w, S \ {g}) = SumOf(wn, Sn \ {g}) /\ SumOf(w, S \ {g}) \in Int
  <2>1. IsFiniteSet(S \ {g}) /\ \A h \in S \ {g} : w[h] = wn[h] /\ w[h] \in Int
    BY <1>4, <1>7, FS_Subset
  <2>2. SumOf(w, S \ {g}) = SumOf(wn, S \ {g}) /\ SumOf(w, S \ {g}) \in Int
    BY <2>1, SumCongruent, SumInt
  <2> QED BY <1>7, <2>2
<1>10. Worth(g) \in Int /\ Worth(g)' \in Int
  BY <1>4 DEF Worth
<1>11. SumOf(wn, Sn) = SumOf(w, S) - Worth(g) + Worth(g)' /\ SumOf(w, S) \in Int
  BY <1>8, <1>9, <1>10
<1> QED BY <1>1, <1>3, <1>5, <1>6, <1>11

\* When no goal changes, no savings do.
LEMMA PotsStay ==
  ASSUME UNCHANGED goal
  PROVE  /\ Living' = Living
         /\ \A v \in Users : SumOf(Pots, LiveGoals(v))' = SumOf(Pots, LiveGoals(v))
BY DEF Living, LiveGoals, Pots

\* A purchase adds its reward to the cashback, and itself to the purchases.
LEMMA PurchaseBacked ==
  ASSUME IInv, RowsInv, RecordedIsAnswered, BackedInv, NEW r \in Requests, PurchaseCommit(r),
         TypeOK'
  PROVE  BackedInv'
<1>0. PICK u \in Users : u = call[r].user
  BY InvParts DEF TypeOK, Call
<1>1. /\ bought \subseteq Purchase /\ bought' \subseteq Purchase
      /\ ledger \in [Users -> [LedgerTypes -> Int]] /\ Reward(r) \in Nat
      /\ \A v \in Users : ledger[v]["cashback"] \in Int /\ ledger[v]["goal_allocation"] \in Int
  BY InvParts, PaymentType DEF TypeOK, LedgerTypes
<1>2. PICK tx : /\ bought' = bought \cup {tx}
                /\ tx.id = r /\ tx.user = u /\ tx.sats = Reward(r)
  BY <1>0 DEF PurchaseCommit
<1>3. tx \notin bought /\ tx \in Purchase
  <2>1. pc[r] = "commit"
    BY DEF PurchaseCommit, Is
  <2> QED BY <1>1, <1>2, <2>1 DEF RecordedIsAnswered
<1>4. /\ PurchasesOf(u)' = PurchasesOf(u) \cup {tx} /\ tx \notin PurchasesOf(u)
      /\ \A v \in Users \ {u} : PurchasesOf(v)' = PurchasesOf(v)
      /\ IsFiniteSet(PurchasesOf(u)) /\ PurchasesOf(u) \subseteq Purchase
  BY <1>1, <1>2, <1>3, FS_Subset DEF PurchasesOf, BackedInv
<1>5. \A t \in Purchase : Paid[t] \in Int
  BY DEF Paid, Purchase
<1>6. SumOf(Paid, PurchasesOf(u)') = SumOf(Paid, PurchasesOf(u)) + Reward(r)
  <2>1. Paid[tx] = Reward(r)
    BY <1>2, <1>3 DEF Paid
  <2>2. \A y \in PurchasesOf(u) \cup {tx} : Paid[y] \in Int
    BY <1>3, <1>4, <1>5
  <2>3. SumOf(Paid, PurchasesOf(u) \cup {tx}) = SumOf(Paid, PurchasesOf(u)) + Paid[tx]
    BY <1>4, <2>2, SumAdd
  <2> QED BY <1>4, <2>1, <2>3
<1>7. \A v \in Users :
        /\ ledger'[v]["cashback"] =
             IF v = u THEN ledger[v]["cashback"] + Reward(r) ELSE ledger[v]["cashback"]
        /\ ledger'[v]["goal_allocation"] = ledger[v]["goal_allocation"]
  <2>1. PICK n \in Int :
          ledger' = Entry(Entry(ledger, u, "cashback", Reward(r)), u, "round_up", n)
    <3>1. call[r].spare \in Nat
      BY InvParts DEF TypeOK, Call
    <3> QED BY <1>0, <3>1 DEF PurchaseCommit
  <2>2. {"round_up", "cashback", "goal_allocation"} \subseteq LedgerTypes
    BY DEF LedgerTypes
  <2> QED BY <1>1, <2>1, <2>2 DEF Entry
<1>8. UNCHANGED goal
  BY DEF PurchaseCommit
<1>9. IsFiniteSet(bought')
  BY <1>2, FS_AddElement DEF BackedInv
<1>10. ASSUME NEW v \in Users
       PROVE  /\ ledger'[v]["cashback"] = SumOf(Paid, PurchasesOf(v)')
              /\ ledger'[v]["goal_allocation"] = - SumOf(Pots, LiveGoals(v))'
  <2>1. /\ ledger[v]["cashback"] = SumOf(Paid, PurchasesOf(v))
        /\ ledger[v]["goal_allocation"] = - SumOf(Pots, LiveGoals(v))
    BY DEF BackedInv, Backed
  <2>2. SumOf(Pots, LiveGoals(v))' = SumOf(Pots, LiveGoals(v))
    BY <1>8, PotsStay
  <2>3. CASE v = u
    BY <1>6, <1>7, <2>1, <2>2, <2>3
  <2>4. CASE v # u
    BY <1>4, <1>7, <2>1, <2>2, <2>4
  <2> QED BY <2>3, <2>4
<1>11. IsFiniteSet(Living')
  BY <1>8, PotsStay DEF BackedInv
<1> QED BY <1>9, <1>10, <1>11 DEF BackedInv, Backed

\* What the commits that touch a goal do to it and to their user's allocations.
LEMMA GoalBacked ==
  ASSUME IInv, RowsInv, BackedInv, NEW r \in Requests, TypeOK', UNCHANGED bought,
         NEW g \in GoalIds, NEW u \in Users, NEW n \in Int,
         \A h \in GoalIds \ {g} : goal'[h] = goal[h], goal'[g].owner = u,
         goal[g].state = "live" => goal[g].owner = u,
         n = Worth(g) - Worth(g)',
         \/ n = 0 /\ UNCHANGED ledger
         \/ ledger' = Entry(ledger, u, "goal_allocation", n)
  PROVE  BackedInv'
<1>1. /\ TypeOK /\ ledger \in [Users -> [LedgerTypes -> Int]]
      /\ \A v \in Users : ledger[v]["goal_allocation"] \in Int
  BY InvParts DEF TypeOK, LedgerTypes
<1>2. \A v \in Users :
        /\ ledger'[v]["cashback"] = ledger[v]["cashback"]
        /\ ledger'[v]["goal_allocation"] =
             IF v = u THEN ledger[v]["goal_allocation"] + n ELSE ledger[v]["goal_allocation"]
  <2>1. CASE n = 0 /\ UNCHANGED ledger
    BY <1>1, <2>1
  <2>2. CASE ledger' = Entry(ledger, u, "goal_allocation", n)
    <3>1. {"cashback", "goal_allocation"} \subseteq LedgerTypes
      BY DEF LedgerTypes
    <3> QED BY <1>1, <2>2, <3>1 DEF Entry
  <2> QED BY <2>1, <2>2
<1>3. /\ IsFiniteSet(Living')
      /\ \A v \in Users \ {u} : SumOf(Pots, LiveGoals(v))' = SumOf(Pots, LiveGoals(v))
      /\ SumOf(Pots, LiveGoals(u))' = SumOf(Pots, LiveGoals(u)) - Worth(g) + Worth(g)'
      /\ SumOf(Pots, LiveGoals(u)) \in Int
  <2>1. IsFiniteSet(Living)
    BY DEF BackedInv
  <2> QED BY <1>1, <2>1, PotsMove
<1>4. Worth(g) \in Int /\ Worth(g)' \in Int
  BY <1>1 DEF Worth, TypeOK, Goal
<1>5. ASSUME NEW v \in Users
      PROVE  /\ ledger'[v]["cashback"] = SumOf(Paid, PurchasesOf(v)')
             /\ ledger'[v]["goal_allocation"] = - SumOf(Pots, LiveGoals(v))'
  <2>1. /\ ledger[v]["cashback"] = SumOf(Paid, PurchasesOf(v))
        /\ ledger[v]["goal_allocation"] = - SumOf(Pots, LiveGoals(v))
    BY DEF BackedInv, Backed
  <2>2. PurchasesOf(v)' = PurchasesOf(v)
    BY DEF PurchasesOf
  <2>3. ledger'[v]["goal_allocation"] = - SumOf(Pots, LiveGoals(v))'
    <3>1. CASE v = u
      BY <1>2, <1>3, <1>4, <2>1, <3>1
    <3>2. CASE v # u
      BY <1>2, <1>3, <2>1, <3>2
    <3> QED BY <3>1, <3>2
  <2> QED BY <1>2, <2>1, <2>2, <2>3
<1> QED BY <1>3, <1>5 DEF BackedInv, Backed

\* A new goal holds nothing; an allocation moves its sats; a deletion gives back what the
\* goal's lock has kept as it was read.
LEMMA GoalCommitBacked ==
  ASSUME IInv, RowsInv, BackedInv, NEW r \in Requests, Commits(r), TypeOK',
         CreateGoalCommit(r) \/ AllocateCommit(r) \/ DeleteGoalCommit(r)
  PROVE  BackedInv'
<1>0. PICK u \in Users, g \in GoalIds, a \in Nat :
        u = call[r].user /\ g = call[r].goal /\ a = call[r].amount
  BY InvParts DEF TypeOK, Call
<1>1. /\ goal \in [GoalIds -> Goal] /\ goal[g] \in Goal /\ goal[g].current \in Nat
      /\ seen[r].pot \in Nat /\ ~ \E code : Refuse(r, code)
  BY InvParts DEF TypeOK, Goal, Seen, Commits
<1>2. ChangesGoal(r, g) =>
        /\ goal[g].state = "live" /\ goal[g].owner = u /\ seen[r].pot = goal[g].current
  BY <1>0 DEF RowsInv, GoalIsRead, LiveGoals
<1>3. CASE CreateGoalCommit(r)
  <2>1. /\ goal' = [goal EXCEPT ![g] = [state |-> "live", owner |-> u, target |-> a,
                                        current |-> 0, done |-> FALSE]]
        /\ UNCHANGED <<bought, ledger>> /\ Creates(r)
    BY <1>0, <1>1, <1>3 DEF CreateGoalCommit, Is, Creates
  <2>2. goal[g].state = "none"
    BY <1>0, <2>1 DEF RowsInv, GoalIsNew
  <2>3. /\ \A h \in GoalIds \ {g} : goal'[h] = goal[h]
        /\ goal'[g].owner = u /\ goal'[g].current = 0
    BY <1>1, <2>1
  <2>4. Worth(g) = 0 /\ Worth(g)' = 0 /\ 0 = Worth(g) - Worth(g)'
    BY <2>2, <2>3 DEF Worth
  <2> QED BY <2>1, <2>2, <2>3, <2>4, GoalBacked
<1>4. CASE AllocateCommit(r)
  <2>1. /\ goal' = [goal EXCEPT ![g].current = Filled(r),
                                ![g].done = @ \/ Filled(r) >= goal[g].target]
        /\ ledger' = Entry(ledger, u, "goal_allocation", - a)
        /\ UNCHANGED bought /\ ChangesGoal(r, g)
    BY <1>0, <1>1, <1>4 DEF AllocateCommit, Is, ChangesGoal
  <2>2. Filled(r) = goal[g].current + a
    BY <1>0, <1>2, <2>1 DEF Filled
  <2>3. /\ \A h \in GoalIds \ {g} : goal'[h] = goal[h]
        /\ goal'[g].owner = u /\ goal'[g].state = "live" /\ goal'[g].current = Filled(r)
    BY <1>1, <1>2, <2>1 DEF Goal
  <2>4. - a = Worth(g) - Worth(g)' /\ - a \in Int
    BY <1>1, <1>2, <2>1, <2>2, <2>3 DEF Worth
  <2> QED BY <1>2, <2>1, <2>3, <2>4, GoalBacked
<1>5. CASE DeleteGoalCommit(r)
  <2>1. /\ goal' = [goal EXCEPT ![g].state = "deleted", ![g].current = 0]
        /\ \/ seen[r].pot = 0 /\ UNCHANGED ledger
           \/ ledger' = Entry(ledger, u, "goal_allocation", seen[r].pot)
        /\ UNCHANGED bought /\ ChangesGoal(r, g)
    BY <1>0, <1>1, <1>5 DEF DeleteGoalCommit, Is, ChangesGoal
  <2>2. /\ \A h \in GoalIds \ {g} : goal'[h] = goal[h]
        /\ goal'[g].owner = u /\ goal'[g].state = "deleted"
    BY <1>1, <1>2, <2>1 DEF Goal
  <2>3. seen[r].pot = Worth(g) - Worth(g)' /\ seen[r].pot \in Int
    BY <1>1, <1>2, <2>1, <2>2 DEF Worth
  <2>4. PICK n \in Int : n = seen[r].pot
    BY <2>3
  <2>5. \/ n = 0 /\ UNCHANGED ledger
        \/ ledger' = Entry(ledger, u, "goal_allocation", n)
    BY <2>1, <2>4
  <2> QED BY <1>2, <2>1, <2>2, <2>3, <2>4, <2>5, GoalBacked
<1> QED BY <1>3, <1>4, <1>5

\* A registration pays bonuses, which neither purchases nor goals back.
LEMMA RegisterBacked ==
  ASSUME IInv, BackedInv, NEW r \in Requests, RegisterCommit(r)
  PROVE  BackedInv'
<1>0. PICK u \in Users, f \in Users : u = call[r].user /\ f = call[r].friend
  BY InvParts DEF TypeOK, Call
<1>1. /\ ledger \in [Users -> [LedgerTypes -> Int]] /\ WelcomeSats \in Int /\ ReferrerSats \in Int
  BY InvParts, CardsAssumption DEF TypeOK
<1>2. /\ UNCHANGED <<bought, goal>>
      /\ \/ UNCHANGED ledger
         \/ ledger' = Entry(Entry(ledger, f, "referral_bonus", ReferrerSats),
                            u, "referral_welcome", WelcomeSats)
  BY <1>0 DEF RegisterCommit
<1>3. \A v \in Users : /\ ledger'[v]["cashback"] = ledger[v]["cashback"]
                       /\ ledger'[v]["goal_allocation"] = ledger[v]["goal_allocation"]
  <2>1. {"cashback", "goal_allocation", "referral_bonus", "referral_welcome"} \subseteq LedgerTypes
    BY DEF LedgerTypes
  <2> QED BY <1>1, <1>2, <2>1 DEF Entry
<1>4. \A v \in Users : PurchasesOf(v)' = PurchasesOf(v)
  BY <1>2 DEF PurchasesOf
<1>5. Living' = Living /\ \A v \in Users : SumOf(Pots, LiveGoals(v))' = SumOf(Pots, LiveGoals(v))
  BY <1>2, PotsStay
<1> QED BY <1>2, <1>3, <1>4, <1>5 DEF BackedInv, Backed

\* A deletion takes away a ledger with all that backs it.
LEMMA CloseBacked ==
  ASSUME IInv, RowsInv, BackedInv, NEW r \in Requests, ClosesNow(r)
  PROVE  BackedInv'
<1>0. PICK u \in Users : u = call[r].user
  BY InvParts DEF TypeOK, Call
<1>1. /\ ledger \in [Users -> [LedgerTypes -> Int]] /\ goal \in [GoalIds -> Goal]
  BY InvParts DEF TypeOK
<1>2. /\ PurchasesOf(u)' = {} /\ bought' \subseteq bought
      /\ \A v \in Users \ {u} : PurchasesOf(v)' = PurchasesOf(v)
  BY <1>0, DeletedHistory
<1>3. ledger' = [ledger EXCEPT ![u] = NoLedger]
  BY <1>0 DEF ClosesNow, CloseCommit
<1>4. /\ ledger'[u]["cashback"] = 0 /\ ledger'[u]["goal_allocation"] = 0
      /\ \A v \in Users \ {u} : ledger'[v] = ledger[v]
  BY <1>1, <1>3 DEF NoLedger, LedgerTypes
<1>5. \A g \in GoalIds :
        goal'[g] = IF g \in LiveGoals(u)
                     THEN [goal[g] EXCEPT !.state = "deleted", !.current = 0] ELSE goal[g]
  BY <1>0, ClosingIsAlone
<1>6. \A g \in GoalIds : g \in LiveGoals(u) => goal'[g].state = "deleted"
  <2>1. \A h \in Goal : [h EXCEPT !.state = "deleted", !.current = 0].state = "deleted"
    BY DEF Goal
  <2> QED BY <1>1, <1>5, <2>1
<1>7. LiveGoals(u)' = {} /\ Living' \subseteq Living
  BY <1>5, <1>6 DEF LiveGoals, Living
<1>8. ASSUME NEW v \in Users \ {u}
      PROVE  SumOf(Pots, LiveGoals(v))' = SumOf(Pots, LiveGoals(v))
  <2>1. LiveGoals(v)' = LiveGoals(v) /\ \A g \in LiveGoals(v) : g \in GoalIds /\ goal'[g] = goal[g]
    BY <1>5, <1>6 DEF LiveGoals
  <2>2. PICK w, wn, S : w = Pots /\ wn = Pots' /\ S = LiveGoals(v)
    OBVIOUS
  <2>3. IsFiniteSet(S) /\ \A g \in S : w[g] = wn[g]
    <3>1. LiveGoals(v) \subseteq Living
      BY DEF LiveGoals, Living
    <3> QED BY <2>1, <2>2, <3>1, FS_Subset DEF Pots, BackedInv
  <2>4. SumOf(w, S) = SumOf(wn, S)
    BY <2>3, SumCongruent
  <2> QED BY <2>1, <2>2, <2>4
<1>9. SumOf(Paid, {}) = 0 /\ SumOf(Pots, LiveGoals(u))' = 0
  BY <1>7, SumEmpty
<1>10. IsFiniteSet(bought') /\ IsFiniteSet(Living')
  BY <1>2, <1>7, FS_Subset DEF BackedInv
<1>11. ASSUME NEW v \in Users
       PROVE  /\ ledger'[v]["cashback"] = SumOf(Paid, PurchasesOf(v)')
              /\ ledger'[v]["goal_allocation"] = - SumOf(Pots, LiveGoals(v))'
  <2>1. CASE v = u
    BY <1>2, <1>4, <1>9, <2>1
  <2>2. CASE v # u
    BY <1>2, <1>4, <1>8, <2>2 DEF BackedInv, Backed
  <2> QED BY <2>1, <2>2
<1> QED BY <1>10, <1>11 DEF BackedInv, Backed

\* Every step keeps the ledger backed.
LEMMA BackedInductive ==
  IInv /\ RowsInv /\ RecordedIsAnswered /\ BackedInv /\ [Next]_vars => BackedInv'
<1> SUFFICES ASSUME IInv, RowsInv, RecordedIsAnswered, BackedInv, [Next]_vars PROVE BackedInv'
  OBVIOUS
<1>1. TypeOK'
  BY InvParts, TypeInductive
<1>2. CASE UNCHANGED <<bought, goal, ledger>>
  <2>1. Living' = Living /\ \A v \in Users : SumOf(Pots, LiveGoals(v))' = SumOf(Pots, LiveGoals(v))
    BY <1>2, PotsStay
  <2> QED BY <1>2, <2>1 DEF BackedInv, Backed, PurchasesOf
<1>3. ASSUME NEW r \in Requests, Commits(r), RoundupCommit(r) \/ BoostCommit(r)
      PROVE  UNCHANGED <<bought, goal, ledger>>
  BY <1>3 DEF RoundupCommit, BoostCommit, Commits
<1>4. CASE UNCHANGED db
  BY <1>2, <1>4 DEF db
<1> QED BY <1>1, <1>2, <1>3, <1>4, StepKinds, PurchaseBacked, GoalCommitBacked, RegisterBacked,
           CloseBacked DEF Commits

\* The cashback in a ledger is that of the purchases on record, each counted once, and the
\* sats that left a wallet for goals are those in its owner's goals, whatever purchases,
\* allocations and deletions interleave (transactions.py:108-114, goals.py:24-41, 62-90).
THEOREM LedgersAreBacked == Spec => []LedgerIsBacked
<1>1. ASSUME Init PROVE RecordedIsAnswered /\ BackedInv
  <2>1. /\ bought = {} /\ goal = OpeningGoal
        /\ \A u \in Users : ledger[u]["cashback"] = 0 /\ ledger[u]["goal_allocation"] = 0
    BY <1>1 DEF Init, NoLedger, LedgerTypes
  <2>2. RecordedIsAnswered /\ IsFiniteSet(bought) /\ IsFiniteSet(Living)
    BY <2>1, FS_EmptySet, CardsAssumption DEF RecordedIsAnswered, Living
  <2>3. ASSUME NEW u \in Users
        PROVE  SumOf(Paid, PurchasesOf(u)) = 0 /\ SumOf(Pots, LiveGoals(u)) = 0
    <3>1. PurchasesOf(u) = {}
      BY <2>1 DEF PurchasesOf
    <3>2. LiveGoals(u) \subseteq Living /\ \A g \in LiveGoals(u) : Pots[g] = 0
      BY <2>1, CardsAssumption DEF LiveGoals, Living, Pots
    <3>3. PICK S : S = LiveGoals(u)
      OBVIOUS
    <3>4. IsFiniteSet(S) /\ \A g \in S : Pots[g] = 0
      BY <2>2, <3>2, <3>3, FS_Subset
    <3>5. SumOf(Pots, S) = 0
      BY <3>4, SumZero
    <3> QED BY <3>1, <3>3, <3>5, SumEmpty
  <2> QED BY <2>1, <2>2, <2>3 DEF BackedInv, Backed
<1>2. IInv /\ BackedInv => LedgerIsBacked
  BY InvParts, BackedIsBacked
<1> QED BY <1>1, <1>2, InitInv, InitRows, Inductive, RowsInductive, RecordedInductive,
           BackedInductive, PTL DEF Spec
=============================================================================
