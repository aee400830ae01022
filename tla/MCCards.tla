------------------------------- MODULE MCCards -------------------------------
(***************************************************************************)
(* Small instances of Cards for TLC.  Thresholds are scaled down so that a *)
(* few purchases cross them; the shape of each table is the code's.        *)
(***************************************************************************)
EXTENDS CardsImplementBank, TLC

Symmetry == Permutations(Requests)

MCLevels ==
  << [min_sats |-> 0,   multiplier |-> 10], [min_sats |-> 10,  multiplier |-> 11],
     [min_sats |-> 40,  multiplier |-> 12], [min_sats |-> 80,  multiplier |-> 13],
     [min_sats |-> 160, multiplier |-> 15] >>

\* What a purchase of the menus pays at any level, boosted or rounded up.
MCPayments == 6..30

MCBadgeAt ==
  [centurion |-> 3, streak_master |-> 2, mountain_climber |-> 10, whale_alert |-> 40,
   category_explorer |-> 2, precision_spender |-> 2, lightning_fast |-> 2]

Nothing == [op |-> "purchase", user |-> "ann", key |-> NoKey, cat |-> "dining",
            amount |-> 0, spare |-> 0, goal |-> 1, friend |-> "ann"]

Buy(u, k, c, n)      == [Nothing EXCEPT !.user = u, !.key = k, !.cat = c, !.amount = n]
BuyRoundedUp(u, n)   == [Nothing EXCEPT !.user = u, !.amount = n, !.spare = 2]
RoundUpOn(u)         == [Nothing EXCEPT !.op = "set_roundup", !.user = u, !.amount = 1]
RoundUpOff(u)        == [Nothing EXCEPT !.op = "set_roundup", !.user = u]
MakeGoal(u, g, n)    == [Nothing EXCEPT !.op = "create_goal", !.user = u, !.goal = g, !.amount = n]
Save(u, g, n)        == [Nothing EXCEPT !.op = "allocate", !.user = u, !.goal = g, !.amount = n]
DropGoal(u, g)       == [Nothing EXCEPT !.op = "delete_goal", !.user = u, !.goal = g]
Activate(u, c)       == [Nothing EXCEPT !.op = "boost", !.user = u, !.cat = c]
Join(u, f)           == [Nothing EXCEPT !.op = "register", !.user = u, !.friend = f]
Close(u)             == [Nothing EXCEPT !.op = "close", !.user = u]

NoGoal == [state |-> "none", owner |-> "ann", target |-> 0, current |-> 0, done |-> FALSE]
AnnsGoal == [NoGoal EXCEPT !.state = "live", !.target = 5]

NoGoals  == [g \in GoalIds |-> NoGoal]
OneGoal  == [g \in GoalIds |-> IF g = 1 THEN AnnsGoal ELSE NoGoal]

\* One cardholder: purchases with a key and without, round-ups and goals.
MoneyMenu == { Buy("ann", "k1", "dining", 10), BuyRoundedUp("ann", 8), RoundUpOn("ann"),
               Save("ann", 1, 6), Save("ann", 1, 3), DropGoal("ann", 1) }

\* Two goals of one cardholder, one of them created on the way.
GoalsMenu == { MakeGoal("ann", 2, 4), Save("ann", 1, 6), Save("ann", 2, 4),
               Buy("ann", "k1", "dining", 10), DropGoal("ann", 1), DropGoal("ann", 2) }

\* Registrations with one referrer's code, with an unusable one and with none.
ReferralMenu == { Join("bob", "ann"), Join("cat", "ann"), Join("cat", "bob"),
                  Join("bob", "bob"), Buy("ann", "k1", "dining", 10) }

\* An account deleted while its owner's and its friends' requests run.
ClosingMenu == { Close("ann"), Buy("ann", "k1", "dining", 10), Join("bob", "ann"),
                 Save("ann", 1, 6), DropGoal("ann", 1), MakeGoal("ann", 2, 4) }

\* An account deleted while its settings change.
SettingsMenu == { Close("ann"), RoundUpOn("ann"), RoundUpOff("ann"),
                  Activate("ann", "dining"), Buy("ann", "k1", "dining", 10) }

\* Purchases over a few days.
DaysMenu == { Buy("ann", NoKey, "dining", 6) }

\* Purchases sent again, with a key and with an empty one.
RetryMenu == { Buy("ann", "k1", "dining", 6), Buy("ann", EmptyKey, "dining", 6), Close("ann") }

\* Purchases in two categories, with boosts for either.
BoostMenu == { Buy("ann", NoKey, "dining", 6), Buy("ann", NoKey, "travel", 6),
               Activate("ann", "dining"), Activate("ann", "travel") }

\* One call of each kind that waits for another's locks.
WaitingMenu == { Close("ann"), Buy("ann", "k1", "dining", 10), Join("bob", "ann"),
                 Save("ann", 1, 6) }
-----------------------------------------------------------------------------
\* A run takes several scenarios at once: Menu has the calls of all of them, and a
\* behaviour is followed as long as it belongs to one.  `limit` bounds the requests
\* sent, `overlap` those in hand at once and `clock` the time.
Scenario(calls, limit, overlap, clock) ==
  [calls |-> calls, limit |-> limit, overlap |-> overlap, clock |-> clock]

Sent == {r \in Requests : pc[r] # "new"}

InHand == {r \in Sent : pc[r] # "done"}

Follows(s) ==
  /\ \A r \in Sent : call[r] \in s.calls
  /\ Cardinality(Sent) <= s.limit
  /\ Cardinality(InHand) <= s.overlap
  /\ now <= s.clock

CardsMenu == UNION {MoneyMenu, GoalsMenu, ReferralMenu, ClosingMenu, SettingsMenu, RetryMenu,
                    DaysMenu, BoostMenu}

Scenarios ==
  {Scenario(m, 4, 4, 0) : m \in {MoneyMenu, ReferralMenu}} \cup
  {Scenario(m, 3, 3, 0) : m \in {GoalsMenu, ClosingMenu, SettingsMenu, RetryMenu}} \cup
  {Scenario(DaysMenu, 3, 3, 2), Scenario(DaysMenu, 3, 1, 6),
   Scenario(BoostMenu, 3, 2, 1), Scenario(BoostMenu, 3, 1, 2)}

CardsScenario == \E s \in Scenarios : Follows(s)
=============================================================================
