-------------------------------- MODULE Cards --------------------------------
(***************************************************************************)
(* The API handlers that move value, over the Postgres database they share.*)
(*                                                                         *)
(* Handlers run in a thread pool, each in one READ COMMITTED transaction.  *)
(* A request r goes through the steps pc[r] of its handler; a step ends    *)
(* where the handler reads rows another request may change, or where a     *)
(* statement can wait for a lock.  What it read is kept in seen[r], what it*)
(* writes becomes visible in the step that commits, and the ORM writes the *)
(* absolute values it computed from what it read.                          *)
(*                                                                         *)
(* An operator named X_Y is a mutant of X: X as a plausible bug would have *)
(* it.  It is used only to check that a property can fail (README.md).     *)
(*                                                                         *)
(* Row locks: wallets and goals are read FOR UPDATE; referral_codes rows   *)
(* are locked by their UPDATE; an uncommitted INSERT makes a second insert *)
(* of the same unique value wait, and holds KEY SHARE on the users row its *)
(* foreign key names, which a DELETE of that row waits for.                *)
(***************************************************************************)
EXTENDS Integers, Sequences, FiniteSets, FiniteSetsExt, RewardEngine, Gamification

CONSTANTS
  Users,          \* accounts (users.id)
  Requests,       \* requests the clients make, each at most once
  Keys,           \* Idempotency-Key header values
  NoKey,          \* a purchase sent without the header
  EmptyKey,       \* the header with nothing in it
  Categories,     \* category_cashback.category
  GoalIds,        \* savings_goals.id
  Nobody,         \* the holder of a free lock
  Menu,           \* the calls clients may make
  Members,        \* accounts open at the start
  OpeningGoal,    \* the goals at the start
  WelcomeSats,    \* settings.referral_welcome_sats
  ReferrerSats,   \* settings.referrer_bonus_sats
  BoostLasts,     \* BOOST_DURATION_DAYS, in half days
  MaxClock        \* bound: the last instant of a behaviour

LedgerTypes == {"cashback", "round_up", "goal_allocation",
                "referral_bonus", "referral_welcome"}

\* A call: `amount` is the base reward of a purchase in sats, the sats of an
\* allocation, the target of a new goal or the round-up switch; `spare` is what
\* a purchase's round-up is worth; `friend` owns the referral code given to
\* register, and is the new user itself when none is given.
Call == [op     : {"purchase", "create_goal", "allocate", "delete_goal",
                   "set_roundup", "boost", "register", "close"},
         user   : Users,
         key    : Keys \cup {NoKey},
         cat    : Categories,
         amount : Nat,
         spare  : Nat,
         goal   : GoalIds,
         friend : Users]

Goal == [state : {"none", "live", "deleted"}, owner : Users,
         target : Nat, current : Nat, done : BOOLEAN]

Boost == [cat : Categories, until : Int]

ASSUME CardsAssumption ==
  /\ Nobody \notin Requests
  /\ NoKey \notin Keys /\ EmptyKey \in Keys
  /\ Menu \subseteq Call /\ Menu # {}
  /\ Members \subseteq Users
  /\ OpeningGoal \in [GoalIds -> Goal]
  /\ \A g \in GoalIds :
       /\ OpeningGoal[g].current = 0
       /\ OpeningGoal[g].state \in {"none", "live"}
       /\ OpeningGoal[g].state = "live" => OpeningGoal[g].owner \in Members
  /\ IsFiniteSet({g \in GoalIds : OpeningGoal[g].state = "live"})
  /\ {WelcomeSats, ReferrerSats, BoostLasts, MaxClock} \subseteq Nat

-----------------------------------------------------------------------------
VARIABLES
  account,     \* users: "none", "open" or "gone" (deleted)
  rows,        \* per user, the commits that inserted rows referring to it
  wallet,      \* wallet_balances.balance_sats
  ledger,      \* wallet_transactions, as a total for each type
  bought,      \* transactions, each with its reward event and risk score
  goal,        \* savings_goals
  roundup,     \* users whose roundup_configs.is_enabled
  boost,       \* user_active_boosts; `until` is -1 when there is no row
  streak,      \* user_streaks
  badges,      \* user_badges
  refs,        \* referral_codes.total_referrals (total_sats_earned moves with it)
  referrals,   \* referrals
  walletLock, goalLock, codeLock,  \* who holds FOR UPDATE on the row
  pc, call, seen, reply,           \* per request
  now                              \* utcnow(), in half days

db == <<account, rows, wallet, ledger, bought, goal, roundup, boost, streak,
        badges, refs, referrals>>
locks == <<walletLock, goalLock, codeLock>>
vars == <<db, locks, pc, call, seen, reply, now>>

Purchase == [id : Requests, user : Users, key : Keys \cup {NoKey},
             cat : Categories, sats : Nat, boost : BOOLEAN, at : Nat, counted : Nat]

\* What a handler has read and not yet used.
Seen == [earned  : Int,              \* total_sats_earned before the purchase
         boost   : BOOLEAN,          \* boosted purchase, or a boost row found
         at      : Nat,              \* created_at
         balance : Int,              \* the wallet, read under its lock
         pot     : Nat,              \* the goal's sats, read under its lock
         refs    : Nat,              \* the code's counter
         rows    : Nat,              \* the rows and
         goals   : SUBSET GoalIds]   \* the goals that delete cascades to

NothingSeen == [earned |-> 0, boost |-> FALSE, at |-> 0, balance |-> 0, pot |-> 0,
                refs |-> 0, rows |-> 0, goals |-> {}]

Steps == {"new", "insert", "referral", "code", "goal", "goals", "wallet",
          "commit", "done"}

\* A 500 whose exception is that of a dictionary in memory (the rate limiter's, the
\* fraud model cache's); 500 is here an exception of the database.
CacheError == 2

\* HTTP status; 0 before the answer, 1 when the connection was lost instead.
Replies == {0, 1, CacheError, 200, 400, 401, 404, 409, 500, 503}

NoCall == CHOOSE c \in Menu : TRUE

NoLedger == [t \in LedgerTypes |-> 0]

Init ==
  /\ account = [u \in Users |-> IF u \in Members THEN "open" ELSE "none"]
  /\ rows = [u \in Users |-> 0]
  /\ wallet = [u \in Users |-> IF u \in Members THEN WelcomeSats ELSE 0]
  /\ ledger = [u \in Users |-> IF u \in Members
                 THEN [NoLedger EXCEPT !["referral_welcome"] = WelcomeSats]
                 ELSE NoLedger]
  /\ bought = {}
  /\ goal = OpeningGoal
  /\ roundup = {}
  /\ boost = [u \in Users |-> [cat |-> CHOOSE c \in Categories : TRUE, until |-> -1]]
  /\ streak = [u \in Users |-> NewStreak]
  /\ badges = [u \in Users |-> {}]
  /\ refs = [u \in Users |-> 0]
  /\ referrals = {}
  /\ walletLock = [u \in Users |-> Nobody]
  /\ goalLock = [g \in GoalIds |-> Nobody]
  /\ codeLock = [u \in Users |-> Nobody]
  /\ pc = [r \in Requests |-> "new"]
  /\ call = [r \in Requests |-> NoCall]
  /\ seen = [r \in Requests |-> NothingSeen]
  /\ reply = [r \in Requests |-> 0]
  /\ now = 0

-----------------------------------------------------------------------------
(* Who waits for whom. *)

InFlight(r) == pc[r] \notin {"new", "done"}

Is(r, op, step) == pc[r] = step /\ call[r].op = op

LiveGoals(u) == {g \in GoalIds : goal[g].state = "live" /\ goal[g].owner = u}

\* The wallet a handler credits or debits under its lock.
Payee(r) == IF call[r].op = "register" THEN call[r].friend ELSE call[r].user

SameInsert_NotUnique(r) == {}

\* Requests whose uncommitted INSERT makes r's INSERT wait: the same key of the
\* same user in transactions, or the same email in users.
SameInsert(r) ==
  {q \in Requests \ {r} :
     /\ call[q].user = call[r].user
     /\ call[q].op = call[r].op
     /\ \/ /\ call[r].op = "purchase"
           /\ call[q].key = call[r].key /\ call[r].key # NoKey
           /\ pc[q] \in {"wallet", "commit"}
        \/ /\ call[r].op = "register"
           /\ pc[q] \in {"referral", "code", "wallet", "commit"}}

\* Requests that hold KEY SHARE on u's row: they have inserted a row naming u.
KeySharers(u) ==
  {q \in Requests :
     \/ /\ call[q].op = "purchase" /\ call[q].user = u
        /\ pc[q] \in {"wallet", "commit"}
     \/ /\ call[q].op = "register" /\ call[q].friend = u /\ call[q].user # u
        /\ \/ pc[q] \in {"code", "wallet"}
           \/ pc[q] = "commit" /\ codeLock[u] = q}

WaitsFor(r) ==
  LET c == call[r]
  IN  (CASE pc[r] = "insert" -> SameInsert(r)
         [] pc[r] = "code"   -> {codeLock[Payee(r)]}
         [] pc[r] = "goal"   -> {goalLock[g] : g \in {c.goal} \cap LiveGoals(c.user)}
         [] pc[r] = "goals"  -> {goalLock[g] : g \in seen[r].goals}
         [] pc[r] = "wallet" -> {walletLock[Payee(r)]}
         [] pc[r] = "commit" -> IF c.op = "close" THEN KeySharers(c.user) ELSE {}
         [] OTHER            -> {})
      \ {Nobody, r}

\* r is on a cycle of requests that each wait for the next.
OnCycle(r) ==
  LET waiting == {q \in Requests : WaitsFor(q) # {}}
  IN  \E n \in 1..Cardinality(waiting) : \E p \in [1..n -> waiting] :
        /\ p[1] = r
        /\ \A i \in 1..(n - 1) : p[i + 1] \in WaitsFor(p[i])
        /\ r \in WaitsFor(p[n])

-----------------------------------------------------------------------------
(* Steps that handlers share. *)

\* The end of a request, by COMMIT or ROLLBACK: it answers and drops its locks.
Finish(r, code) ==
  /\ pc' = [pc EXCEPT ![r] = "done"]
  /\ reply' = [reply EXCEPT ![r] = code]
  /\ seen' = [seen EXCEPT ![r] = NothingSeen]
  /\ walletLock' = [u \in Users |-> IF walletLock[u] = r THEN Nobody ELSE walletLock[u]]
  /\ codeLock' = [u \in Users |-> IF codeLock[u] = r THEN Nobody ELSE codeLock[u]]
  /\ goalLock' = [g \in GoalIds |-> IF goalLock[g] = r THEN Nobody ELSE goalLock[g]]
  /\ UNCHANGED <<call, now>>

Refuse_KeepsLocks(r, code) ==
  /\ pc' = [pc EXCEPT ![r] = "done"]
  /\ reply' = [reply EXCEPT ![r] = code]
  /\ seen' = [seen EXCEPT ![r] = NothingSeen]
  /\ UNCHANGED <<db, locks, call, now>>

\* An answer that leaves the database as it was.
Refuse(r, code) == Finish(r, code) /\ UNCHANGED db

\* On to another step of the handler, having read `s`.
Proceed(r, step, s) ==
  /\ pc' = [pc EXCEPT ![r] = step]
  /\ seen' = [seen EXCEPT ![r] = s]
  /\ UNCHANGED <<db, call, reply, now>>

\* The write finds the account's row deleted: its INSERT has no row to refer to, or
\* its UPDATE none to change.
AccountGone(r) == account[call[r].user] # "open"

\* A request arrives; get_current_user answers 401 for an account that is gone.
Arrive(r, ops, step, snapshot) ==
  \E c \in Menu :
    /\ pc[r] = "new"
    /\ c.op \in ops
    /\ account[c.user] # "none"
    /\ call' = [call EXCEPT ![r] = c]
    /\ IF account[c.user] = "open"
         THEN /\ pc' = [pc EXCEPT ![r] = step]
              /\ seen' = [seen EXCEPT ![r] = snapshot[c]]
              /\ UNCHANGED reply
         ELSE /\ pc' = [pc EXCEPT ![r] = "done"]
              /\ reply' = [reply EXCEPT ![r] = 401]
              /\ UNCHANGED seen
    /\ UNCHANGED <<db, locks, now>>

total_sats_earned(u) == ledger[u]["cashback"]

active_boost(u) == boost[u].until > now

LockWallet_NoForUpdate(r) ==
  /\ pc[r] = "wallet"
  /\ Proceed(r, "commit", [seen[r] EXCEPT !.balance = wallet[Payee(r)]])
  /\ UNCHANGED locks

\* get_wallet(for_update=True): the balance is read once the lock is held.
LockWallet(r) ==
  /\ pc[r] = "wallet"
  /\ WaitsFor(r) = {}
  /\ walletLock' = [walletLock EXCEPT ![Payee(r)] = r]
  /\ Proceed(r, "commit", [seen[r] EXCEPT !.balance = wallet[Payee(r)]])
  /\ UNCHANGED <<goalLock, codeLock>>

Entry_Overwrites(l, u, type, sats) == [l EXCEPT ![u][type] = sats]

\* The ledger row that goes with every change of a balance.
Entry(l, u, type, sats) == [l EXCEPT ![u][type] = @ + sats]

-----------------------------------------------------------------------------
(* POST /api/transactions *)

\* The reads and the created_at that come before the INSERT.
PurchaseRead(r) ==
  Arrive(r, {"purchase"}, "insert",
         [c \in Menu |-> [NothingSeen EXCEPT
                       !.earned = total_sats_earned(c.user),
                       !.boost = active_boost(c.user) /\ boost[c.user].cat = c.cat,
                       !.at = now]])

\* Over the rate limit, or no trustworthy price (503 stands for both); or the limiter
\* has raised, as RateLimit says it may when calls overlap.
PurchaseDeclined(r) ==
  /\ Is(r, "purchase", "insert")
  /\ Refuse(r, 503) \/ Refuse(r, CacheError)

Recorded_NullsCollide(r) ==
  \E t \in bought : t.user = call[r].user /\ t.key = call[r].key

\* uq_transaction_idempotency: (user_id, idempotency_key), where NULLs never collide.
Recorded(r) ==
  \E t \in bought :
    t.user = call[r].user /\ t.key = call[r].key /\ call[r].key # NoKey

DuplicateStatus_Unhandled(r) == 500

\* _already_recorded, after the unique index has refused the INSERT: to it an empty
\* key is no key, and the IntegrityError goes on.
DuplicateStatus(r) == IF call[r].key = EmptyKey THEN 500 ELSE 409

\* The INSERT of the transaction, refused if the key is on record or if the account
\* has been deleted under the request.
PurchaseInsert(r) ==
  /\ Is(r, "purchase", "insert")
  /\ WaitsFor(r) = {}
  /\ IF Recorded(r) THEN Refuse(r, DuplicateStatus(r))
     ELSE IF AccountGone(r) THEN Refuse(r, 500)
     ELSE Proceed(r, "wallet", seen[r]) /\ UNCHANGED locks

Reward_LevelAfter(r) ==
  calculate_reward(call[r].amount, 1, Multiplier(seen[r].earned + call[r].amount),
                   IF seen[r].boost THEN 20 ELSE 10).total_sats

Reward(r) ==
  calculate_reward(call[r].amount, 1, Multiplier(seen[r].earned),
                   IF seen[r].boost THEN 20 ELSE 10).total_sats

Mine_NotFlushed(u, tx) == {t \in bought : t.user = u}

\* The user's purchases as the queries of check_badges count them: tx is flushed.
Mine(u, tx) == {t \in bought : t.user = u} \cup {tx}

\* Everything after the wallet lock, and the COMMIT.
PurchaseCommit(r) ==
  LET c      == call[r]
      u      == c.user
      reward == Reward(r)
      spare  == IF u \in roundup THEN c.spare ELSE 0
      today  == utctoday(now)
      day    == update_streak(streak[u], today)
      tx     == [id |-> r, user |-> u, key |-> c.key, cat |-> c.cat,
                 sats |-> reward, boost |-> seen[r].boost, at |-> seen[r].at,
                 counted |-> today]
      after  == seen[r].earned + reward
  IN  /\ Is(r, "purchase", "commit")
      /\ bought' = bought \cup {tx}
      /\ wallet' = [wallet EXCEPT ![u] = seen[r].balance + reward + spare]
      /\ ledger' = Entry(Entry(ledger, u, "cashback", reward), u, "round_up", spare)
      /\ streak' = [streak EXCEPT ![u] = day]
      /\ badges' = [badges EXCEPT ![u] =
                      @ \cup MetBadges(Mine(u, tx), after, LevelIndex(after), day, today)]
      /\ rows' = [rows EXCEPT ![u] = @ + 1]
      /\ Finish(r, 200)
      /\ UNCHANGED <<account, goal, roundup, boost, refs, referrals>>

\* score_transaction raises instead: another thread has evicted the model that it was
\* moving in the cache (FraudDetector says when).  The purchase is rolled back.
ScoreFails(r) ==
  /\ Is(r, "purchase", "commit")
  /\ Refuse(r, CacheError)

-----------------------------------------------------------------------------
(* /api/goals *)

\* Requests that write the goal `id`; c.goal is the id the sequence hands out, so
\* no two creations share one.
CreateGoalArrive(r) ==
  /\ Arrive(r, {"create_goal"}, "commit", [c \in Menu |-> NothingSeen])
  /\ LET g == call'[r].goal
     IN  /\ goal[g].state = "none"
         /\ \A q \in Requests \ {r} :
              ~ (InFlight(q) /\ call[q].op = "create_goal" /\ call[q].goal = g)

CreateGoalCommit(r) ==
  LET c == call[r]
  IN  /\ Is(r, "create_goal", "commit")
      /\ IF AccountGone(r)
           THEN Refuse(r, 500)
           ELSE /\ goal' = [goal EXCEPT ![c.goal] =
                     [state |-> "live", owner |-> c.user, target |-> c.amount,
                      current |-> 0, done |-> FALSE]]
                /\ Finish(r, 200)
                /\ UNCHANGED <<account, rows, wallet, ledger, bought, roundup, boost,
                               streak, badges, refs, referrals>>

\* _owned_goal(for_update=True) of allocate and delete: 404, or the goal's lock.
GoalArrive(r) ==
  Arrive(r, {"allocate", "delete_goal"}, "goal", [c \in Menu |-> NothingSeen])

LockGoal_NoForUpdate(r) ==
  /\ pc[r] = "goal"
  /\ IF call[r].goal \notin LiveGoals(call[r].user)
       THEN Refuse(r, 404)
       ELSE /\ Proceed(r, "wallet", [seen[r] EXCEPT !.pot = goal[call[r].goal].current])
            /\ UNCHANGED locks

LockGoal_WalletFirst(r) ==
  LET c == call[r]
  IN  /\ pc[r] = "goal"
      /\ IF c.op = "delete_goal" /\ walletLock[c.user] = Nobody
           THEN /\ walletLock' = [walletLock EXCEPT ![c.user] = r]
                /\ Proceed(r, "goal", seen[r])
                /\ UNCHANGED <<goalLock, codeLock>>
           ELSE /\ WaitsFor(r) = {} /\ c.goal \in LiveGoals(c.user)
                /\ goalLock' = [goalLock EXCEPT ![c.goal] = r]
                /\ Proceed(r, "wallet", [seen[r] EXCEPT !.pot = goal[c.goal].current])
                /\ UNCHANGED <<walletLock, codeLock>>

LockGoal(r) ==
  LET c   == call[r]
      pot == goal[c.goal].current
  IN  /\ pc[r] = "goal"
      /\ WaitsFor(r) = {}
      /\ IF c.goal \notin LiveGoals(c.user)
           THEN Refuse(r, 404)
           ELSE /\ goalLock' = [goalLock EXCEPT ![c.goal] = r]
                /\ Proceed(r, IF c.op = "delete_goal" /\ pot = 0 THEN "commit" ELSE "wallet",
                           [seen[r] EXCEPT !.pot = pot])
                /\ UNCHANGED <<walletLock, codeLock>>

Affordable_WithSavings(r) == seen[r].balance + seen[r].pot >= call[r].amount

Affordable(r) == seen[r].balance >= call[r].amount

Filled_WrongSign(r) == seen[r].pot - call[r].amount

Filled(r) == seen[r].pot + call[r].amount

AllocateCommit(r) ==
  LET c == call[r]
  IN  /\ Is(r, "allocate", "commit")
      /\ IF ~ Affordable(r)
           THEN Refuse(r, 400)
           ELSE /\ wallet' = [wallet EXCEPT ![c.user] = seen[r].balance - c.amount]
                /\ ledger' = Entry(ledger, c.user, "goal_allocation", - c.amount)
                /\ goal' = [goal EXCEPT
                              ![c.goal].current = Filled(r),
                              ![c.goal].done = @ \/ Filled(r) >= goal[c.goal].target]
                /\ rows' = [rows EXCEPT ![c.user] = @ + 1]
                /\ Finish(r, 200)
                /\ UNCHANGED <<account, bought, roundup, boost, streak, badges,
                               refs, referrals>>

DeleteGoalCommit(r) ==
  LET c   == call[r]
      pot == seen[r].pot
  IN  /\ Is(r, "delete_goal", "commit")
      /\ IF pot = 0
           THEN UNCHANGED <<wallet, ledger, rows>>
           ELSE /\ wallet' = [wallet EXCEPT ![c.user] = seen[r].balance + pot]
                /\ ledger' = Entry(ledger, c.user, "goal_allocation", pot)
                /\ rows' = [rows EXCEPT ![c.user] = @ + 1]
      /\ goal' = [goal EXCEPT ![c.goal].state = "deleted", ![c.goal].current = 0]
      /\ Finish(r, 200)
      /\ UNCHANGED <<account, bought, roundup, boost, streak, badges, refs, referrals>>

-----------------------------------------------------------------------------
(* Settings: PUT /api/roundup/config and POST /api/rewards/boosts/activate *)

RoundupArrive(r) == Arrive(r, {"set_roundup"}, "commit", [c \in Menu |-> NothingSeen])

\* The UPDATE of a row that a deletion has taken away fails the request.
RoundupCommit(r) ==
  LET u == call[r].user
  IN  /\ Is(r, "set_roundup", "commit")
      /\ IF AccountGone(r)
           THEN Refuse(r, 500)
           ELSE /\ roundup' = IF call[r].amount = 0 THEN roundup \ {u} ELSE roundup \cup {u}
                /\ Finish(r, 200)
                /\ UNCHANGED <<account, rows, wallet, ledger, bought, goal, boost,
                               streak, badges, refs, referrals>>

HasBoostRow(u) == boost[u].until >= 0

BoostRead(r) ==
  Arrive(r, {"boost"}, "commit",
         [c \in Menu |-> [NothingSeen EXCEPT !.boost = HasBoostRow(c.user)]])

\* An UPDATE if a row was found, else an INSERT, which fails if one has been
\* inserted meanwhile.
BoostCommit(r) ==
  LET c == call[r]
  IN  /\ Is(r, "boost", "commit")
      /\ IF AccountGone(r) \/ (HasBoostRow(c.user) /\ ~ seen[r].boost)
           THEN Refuse(r, 500)
           ELSE /\ boost' = [boost EXCEPT ![c.user] =
                               [cat |-> c.cat, until |-> now + BoostLasts]]
                /\ rows' = [rows EXCEPT ![c.user] = @ + 1]
                /\ Finish(r, 200)
                /\ UNCHANGED <<account, wallet, ledger, bought, goal, roundup,
                               streak, badges, refs, referrals>>

-----------------------------------------------------------------------------
(* POST /api/auth/register *)

\* 400 if the email is taken.  A deleted account's email registers as another
\* member of Users.
RegisterArrive(r) ==
  \E c \in Menu :
    /\ pc[r] = "new"
    /\ c.op = "register"
    /\ account[c.user] # "gone"
    /\ call' = [call EXCEPT ![r] = c]
    /\ IF account[c.user] = "none"
         THEN pc' = [pc EXCEPT ![r] = "insert"] /\ UNCHANGED reply
         ELSE pc' = [pc EXCEPT ![r] = "done"] /\ reply' = [reply EXCEPT ![r] = 400]
    /\ UNCHANGED <<db, locks, seen, now>>

\* The user and what every user has are inserted; then award_referral reads the
\* code, which is unusable when it is unknown or the new user's own.
RegisterInsert(r) ==
  LET f == call[r].friend
  IN  /\ Is(r, "register", "insert")
      /\ WaitsFor(r) = {}
      /\ IF account[call[r].user] # "none"
           THEN Refuse(r, 500)
         ELSE IF account[f] = "open"
           THEN Proceed(r, "referral", [NothingSeen EXCEPT !.refs = refs[f]]) /\ UNCHANGED locks
         ELSE Proceed(r, "commit", NothingSeen) /\ UNCHANGED locks

\* credit_wallet's query flushes the Referral, whose foreign key needs the referrer,
RegisterReferral(r) ==
  /\ Is(r, "register", "referral")
  /\ IF account[call[r].friend] # "open"
       THEN Refuse(r, 500)
       ELSE Proceed(r, "code", seen[r]) /\ UNCHANGED locks

\* and the UPDATE of the referrer's counters.  Then the referrer's wallet is locked.
RegisterLockCode(r) ==
  /\ Is(r, "register", "code")
  /\ WaitsFor(r) = {}
  /\ codeLock' = [codeLock EXCEPT ![call[r].friend] = r]
  /\ Proceed(r, "wallet", seen[r])
  /\ UNCHANGED <<walletLock, goalLock>>

IsReferred(r) == codeLock[call[r].friend] = r

RegisterCommit(r) ==
  LET u == call[r].user
      f == call[r].friend
  IN  /\ Is(r, "register", "commit")
      /\ account' = [account EXCEPT ![u] = "open"]
      /\ IF IsReferred(r)
           THEN /\ refs' = [refs EXCEPT ![f] = seen[r].refs + 1]
                /\ referrals' = referrals \cup {[referrer |-> f, referee |-> u]}
                /\ wallet' = [wallet EXCEPT ![f] = seen[r].balance + ReferrerSats,
                                            ![u] = WelcomeSats]
                /\ ledger' = Entry(Entry(ledger, f, "referral_bonus", ReferrerSats),
                                   u, "referral_welcome", WelcomeSats)
                /\ rows' = [rows EXCEPT ![f] = @ + 1]
           ELSE UNCHANGED <<refs, referrals, wallet, ledger, rows>>
      /\ Finish(r, 200)
      /\ UNCHANGED <<bought, goal, roundup, boost, streak, badges>>

-----------------------------------------------------------------------------
(* DELETE /api/auth/me *)

\* db.delete(user) loads every row it cascades to.
CloseRead(r) ==
  Arrive(r, {"close"}, "code",
         [c \in Menu |-> [NothingSeen EXCEPT !.rows = rows[c.user], !.goals = LiveGoals(c.user)]])

\* The flush deletes class by class: the referral code, then the goals, then the
\* wallet, and the user last.
CloseLockCode(r) ==
  /\ Is(r, "close", "code")
  /\ WaitsFor(r) = {}
  /\ codeLock' = [codeLock EXCEPT ![call[r].user] = r]
  /\ Proceed(r, "goals", seen[r])
  /\ UNCHANGED <<walletLock, goalLock>>

CloseLockGoals(r) ==
  /\ Is(r, "close", "goals")
  /\ WaitsFor(r) = {}
  /\ goalLock' = [g \in GoalIds |-> IF g \in seen[r].goals THEN r ELSE goalLock[g]]
  /\ Proceed(r, "wallet", seen[r])
  /\ UNCHANGED <<walletLock, codeLock>>

ReferralsWithout_AsReferee(u) == {x \in referrals : u # x.referee}

\* The rows left by the DELETE of the user's, on both sides.
ReferralsWithout(u) == {x \in referrals : u \notin {x.referrer, x.referee}}

\* The DELETE of the user: nothing to do if it is gone already; refused by the
\* foreign keys if rows have been added since they were loaded.
CloseCommit(r) ==
  LET u == call[r].user
      s == seen[r]
  IN  /\ Is(r, "close", "commit")
      /\ WaitsFor(r) = {}
      /\ IF account[u] = "gone"
           THEN Refuse(r, 200)
         ELSE IF rows[u] # s.rows \/ ~ LiveGoals(u) \subseteq s.goals
           THEN Refuse(r, 500)
         ELSE /\ account' = [account EXCEPT ![u] = "gone"]
              /\ rows' = [rows EXCEPT ![u] = 0]
              /\ wallet' = [wallet EXCEPT ![u] = 0]
              /\ ledger' = [ledger EXCEPT ![u] = NoLedger]
              /\ bought' = {t \in bought : t.user # u}
              /\ goal' = [g \in GoalIds |->
                            IF g \in LiveGoals(u)
                              THEN [goal[g] EXCEPT !.state = "deleted", !.current = 0]
                              ELSE goal[g]]
              /\ roundup' = roundup \ {u}
              /\ boost' = [boost EXCEPT ![u].until = -1]
              /\ streak' = [streak EXCEPT ![u] = NewStreak]
              /\ badges' = [badges EXCEPT ![u] = {}]
              /\ refs' = [refs EXCEPT ![u] = 0]
              /\ referrals' = ReferralsWithout(u)
              /\ Finish(r, 200)

-----------------------------------------------------------------------------
(* The database, the process and the clock. *)

\* Postgres breaks a deadlock by failing one request of the cycle.
DeadlockVictim(r) == OnCycle(r) /\ Refuse(r, 500)

\* A restart of the process rolls back every open transaction.
Restart ==
  /\ \E r \in Requests : InFlight(r)
  /\ pc' = [r \in Requests |-> IF InFlight(r) THEN "done" ELSE pc[r]]
  /\ reply' = [r \in Requests |-> IF InFlight(r) THEN 1 ELSE reply[r]]
  /\ seen' = [r \in Requests |-> NothingSeen]
  /\ walletLock' = [u \in Users |-> Nobody]
  /\ goalLock' = [g \in GoalIds |-> Nobody]
  /\ codeLock' = [u \in Users |-> Nobody]
  /\ UNCHANGED <<db, call, now>>

Tick ==
  /\ now < MaxClock
  /\ now' = now + 1
  /\ UNCHANGED <<db, locks, pc, call, seen, reply>>

\* No request is open: the server idles.
Idle == (\A r \in Requests : ~ InFlight(r)) /\ UNCHANGED vars

-----------------------------------------------------------------------------
Begin(r) ==
  \/ PurchaseRead(r) \/ CreateGoalArrive(r) \/ GoalArrive(r) \/ RoundupArrive(r)
  \/ BoostRead(r) \/ RegisterArrive(r) \/ CloseRead(r)

Continue(r) ==
  \/ LockWallet(r) \/ LockGoal(r)
  \/ PurchaseDeclined(r) \/ PurchaseInsert(r) \/ PurchaseCommit(r)
  \/ ScoreFails(r) \/ CreateGoalCommit(r) \/ AllocateCommit(r) \/ DeleteGoalCommit(r)
  \/ RoundupCommit(r) \/ BoostCommit(r)
  \/ RegisterInsert(r) \/ RegisterReferral(r) \/ RegisterLockCode(r) \/ RegisterCommit(r)
  \/ CloseLockCode(r) \/ CloseLockGoals(r) \/ CloseCommit(r)
  \/ DeadlockVictim(r)

Next ==
  \/ \E r \in Requests : Begin(r) \/ Continue(r)
  \/ Restart \/ Tick \/ Idle

Spec == Init /\ [][Next]_vars

\* As long as a request can take a step, the thread pool runs one, and Postgres looks
\* for deadlocks.  Clients need not send anything, and nothing has to crash.
Fairness == WF_vars(\E r \in Requests : Continue(r))

FairSpec == Spec /\ Fairness

-----------------------------------------------------------------------------
(* Properties. *)

\* Every variable has its type.
TypeOK ==
  /\ account \in [Users -> {"none", "open", "gone"}]
  /\ rows \in [Users -> Nat]
  /\ wallet \in [Users -> Int]
  /\ ledger \in [Users -> [LedgerTypes -> Int]]
  /\ bought \subseteq Purchase
  /\ goal \in [GoalIds -> Goal]
  /\ roundup \subseteq Users
  /\ boost \in [Users -> Boost]
  /\ streak \in [Users -> Streak]
  /\ badges \in [Users -> SUBSET Badges]
  /\ refs \in [Users -> Nat]
  /\ referrals \subseteq [referrer : Users, referee : Users]
  /\ walletLock \in [Users -> Requests \cup {Nobody}]
  /\ goalLock \in [GoalIds -> Requests \cup {Nobody}]
  /\ codeLock \in [Users -> Requests \cup {Nobody}]
  /\ pc \in [Requests -> Steps]
  /\ call \in [Requests -> Call]
  /\ seen \in [Requests -> Seen]
  /\ reply \in [Requests -> Replies]
  /\ now \in Nat

\* The balance of a wallet is the sum of its ledger rows, whatever requests
\* interleave: no update of a balance is lost (services.py:43-79).
LedgerSum(l) == l["cashback"] + l["round_up"] + l["goal_allocation"]
                  + l["referral_bonus"] + l["referral_welcome"]

WalletIsLedger == \A u \in Users : wallet[u] = LedgerSum(ledger[u])

\* Concurrent allocations cannot together take more than the wallet holds
\* (goals.py:66-69).
NeverOverdrawn == \A u \in Users : wallet[u] >= 0

\* An idempotency key pays at most once, whatever requests race, fail or are retried
\* (transactions.py:63-80).
PaidOnce ==
  \A s, t \in bought : s.user = t.user /\ s.key = t.key /\ s.key # NoKey => s = t

\* The cashback in a ledger is that of the purchases on record, each counted once, and
\* the sats that left a wallet for goals are those in its owner's goals: a goal is
\* refunded once, and no allocation is overwritten (transactions.py:108-114,
\* goals.py:24-41, 62-90).
PurchasesOf(u) == {t \in bought : t.user = u}

LedgerIsBacked ==
  \A u \in Users :
    /\ ledger[u]["cashback"] = MapThenSumSet(LAMBDA t : t.sats, PurchasesOf(u))
    /\ ledger[u]["goal_allocation"] = - MapThenSumSet(LAMBDA g : goal[g].current, LiveGoals(u))

\* 200 means that the purchase is on record and every other answer that it is not;
\* 409 is only given for a key that is on record (transactions.py:44-54, 92-106,
\* ARCHITECTURE.md: "a failure leaves no partial purchase").
AnswersAreTrue ==
  \A r \in Requests :
    LET c == call[r]
    IN  (pc[r] = "done" /\ c.op = "purchase" /\ account[c.user] = "open") =>
          /\ reply[r] = 200 <=> \E t \in bought : t.id = r
          /\ reply[r] = 409 =>
               c.key # NoKey /\ \E t \in bought : t.user = c.user /\ t.key = c.key

\* Purchases that race, with one key or several, get no error of the database, be it
\* a duplicate key or a deadlock, as long as the key is not the empty one and nobody
\* deletes the account (transactions.py:76-79, 101-106).
ClosesAccount(r, u) == call[r].op = "close" /\ call[r].user = u /\ pc[r] # "new"

RacesNeverErr ==
  \A r \in Requests :
    call[r].op = "purchase" /\ call[r].key # EmptyKey /\ reply[r] = 500 =>
      \E q \in Requests : ClosesAccount(q, call[r].user)

\* A deletion leaves nothing behind, whatever commits while it runs
\* (routers/auth.py:117-144): every row belongs to an open account.
NoOrphans ==
  /\ \A t \in bought : account[t.user] = "open"
  /\ \A g \in GoalIds : goal[g].state = "live" => account[goal[g].owner] = "open"
  /\ \A x \in referrals : account[x.referrer] = "open" /\ account[x.referee] = "open"
  /\ \A u \in Users : account[u] # "open" => /\ wallet[u] = 0 /\ ledger[u] = NoLedger
                                             /\ badges[u] = {} /\ u \notin roundup
                                             /\ boost[u].until = -1

\* Every referral on record has paid both sides (services.py:137-156); the bonus
\* stays when the other account is deleted.
ReferralsPaid ==
  \A u \in Users :
    LET n == Cardinality({x \in referrals : x.referrer = u})
    IN  /\ ledger[u]["referral_bonus"] >= n * ReferrerSats
        /\ (\A v \in Users : account[v] # "gone")
             => ledger[u]["referral_bonus"] = n * ReferrerSats
        /\ (\E x \in referrals : x.referee = u)
             => ledger[u]["referral_welcome"] = WelcomeSats

\* Goal before wallet, in every handler: requests can wait for each other in a
\* circle only when one of them deletes an account (goals.py:28-33).
OnlyDeletionDeadlocks ==
  (\E r \in Requests : OnCycle(r)) =>
     \E q \in Requests : OnCycle(q) /\ call[q].op = "close"

\* The streak is the run of consecutive days, up to the last one counted, on which
\* a purchase was committed, and longest is the longest one (gamification.py:36-54).
DaysCounted(u) == {t.counted : t \in PurchasesOf(u)}

IsRun(d, n, days) == ((d - n + 1)..d) \subseteq days /\ (d - n) \notin days

StreakIsRun ==
  \A u \in Users :
    LET days == DaysCounted(u)
        s    == streak[u]
    IN  IF days = {} THEN s = NewStreak
        ELSE /\ s.last = Max(days)
             /\ IsRun(s.last, s.current, days)
             /\ \E d \in days : IsRun(d, s.longest, days)
             /\ \A d \in days, n \in 1..Cardinality(days) :
                  ((d - n + 1)..d) \subseteq days => n <= s.longest

\* A badge, once its condition holds of the purchases on record, has been awarded
\* by the purchase that completed it (gamification.py:74-112), for the conditions
\* that are counted under the wallet lock.
CountedBadges ==
  \A u \in Users :
    LET mine == PurchasesOf(u)
        met  == Conditions(mine, 0, 1, streak[u], 0)
    IN  \A b \in {"first_swipe", "centurion", "streak_master", "category_explorer",
                  "precision_spender", "night_owl"} : met[b] => b \in badges[u]

\* A level read before a concurrent purchase can only be too low: nobody is paid more
\* than the level they had reached without the purchase and the boost recorded with
\* it give (transactions.py:86-92, 108-113).
NeverOverpaid ==
  /\ \A r \in Requests : InFlight(r) /\ call[r].op = "purchase" /\ account[call[r].user] = "open"
       => seen[r].earned <= total_sats_earned(call[r].user)
  /\ \A t \in bought : \E r \in Requests :
       /\ r = t.id
       /\ t.sats <= calculate_reward(call[r].amount, 1,
                      Multiplier(total_sats_earned(t.user) - t.sats),
                      IF t.boost THEN 20 ELSE 10).total_sats

\* Every request is answered: lock waits end, and deadlocks are broken.
EveryRequestAnswered == \A r \in Requests : InFlight(r) ~> ~ InFlight(r)

-----------------------------------------------------------------------------
(* Why the balances are right: the parts of the inductive invariant. *)

\* A wallet's lock is held by a request about to commit, whose reading of the balance
\* is still the balance.
WalletHeld ==
  \A r \in Requests, u \in Users : walletLock[u] = r =>
    /\ pc[r] = "commit" /\ Payee(r) = u
    /\ seen[r].balance = wallet[u]
    /\ account[u] # "none"

\* A request about to commit a new balance holds the wallet's lock.
NewBalance(r) ==
  \/ call[r].op \in {"purchase", "allocate", "close"}
  \/ call[r].op = "delete_goal" /\ seen[r].pot # 0
  \/ call[r].op = "register" /\ IsReferred(r)

WrittenUnderLock ==
  \A r \in Requests : pc[r] = "commit" /\ NewBalance(r) => walletLock[Payee(r)] = r

\* A code's lock is held by a registration with it, of somebody else, or by its owner's
\* deletion.
CodeHeld ==
  \A r \in Requests, u \in Users : codeLock[u] = r =>
    \/ /\ call[r].op = "register" /\ call[r].friend = u /\ call[r].user # u
       /\ pc[r] \in {"wallet", "commit"}
    \/ /\ call[r].op = "close" /\ call[r].user = u
       /\ pc[r] \in {"goals", "wallet", "commit"}

\* Which handlers have which steps.
StepsOf ==
  \A r \in Requests :
    /\ pc[r] = "insert" => call[r].op \in {"purchase", "register"}
    /\ pc[r] = "code" => call[r].op \in {"register", "close"}
    /\ pc[r] = "goal" => call[r].op \in {"allocate", "delete_goal"}
    /\ pc[r] = "wallet" =>
         call[r].op \in {"purchase", "allocate", "delete_goal", "register", "close"}
    /\ pc[r] \in {"referral", "code", "wallet"} /\ call[r].op = "register" =>
         call[r].friend # call[r].user /\ account[call[r].friend] # "none"

\* A registration is of an account that does not exist, and no other is; every other
\* request is of one that does, or did.
Registers(r) == call[r].op = "register" /\ pc[r] \in {"referral", "code", "wallet", "commit"}

Registrants ==
  \A r \in Requests :
    /\ Registers(r) =>
         /\ account[call[r].user] = "none"
         /\ \A q \in Requests \ {r} : Registers(q) => call[q].user # call[r].user
    /\ InFlight(r) /\ call[r].op # "register" => account[call[r].user] # "none"

Newcomers == \A u \in Users : account[u] = "none" => wallet[u] = 0 /\ ledger[u] = NoLedger

\* An inserted purchase is the only one with its key.
Inserted(r) == call[r].op = "purchase" /\ pc[r] \in {"wallet", "commit"} /\ call[r].key # NoKey

SameKey(c, d) == c.user = d.user /\ c.key = d.key

KeysPending ==
  \A r \in Requests : Inserted(r) =>
    /\ \A t \in bought : ~ SameKey(t, call[r])
    /\ \A q \in Requests \ {r} : Inserted(q) => ~ SameKey(call[q], call[r])

IInv ==
  /\ TypeOK
  /\ WalletHeld /\ WrittenUnderLock /\ CodeHeld /\ StepsOf /\ Registrants
  /\ Newcomers /\ WalletIsLedger /\ NeverOverdrawn

-----------------------------------------------------------------------------
(* What a comment says, and concurrent requests can refute. *)

Quiet == \A r \in Requests : ~ InFlight(r)

\* "Top referrers by count" (referrals.py:27): the count is that of the referrals.
ReferralsCounted ==
  Quiet => \A u \in Users :
    account[u] = "open" => refs[u] = ledger[u]["referral_bonus"] \div ReferrerSats
=============================================================================
