# BitBack, specified

TLA+ specifications of the BitBack cashback service: a FastAPI process over
Postgres that pays cardholders bitcoin cashback, and the mobile app that calls it.
Paths below are relative to the repository. TLC checks small instances, TLAPS proves
all safety properties but one for instances of every size.

## 1. The system

| Component | Code | State | Operations | Hard part |
|---|---|---|---|---|
| Money | `app/routers/{transactions,goals,auth,preferences,rewards}.py`, `app/services.py` | users, wallets and their ledger, transactions, goals, boosts, referrals, streaks, badges | purchase; create, allocate, delete a goal; round-up switch; boost; register with a code; delete the account | requests overlap in a thread pool; row locks, unique indexes, foreign keys; retries; restarts; midnight |
| Reward engine | `app/reward_engine.py` | none | level, reward, round-up | rounding and thresholds |
| Gamification | `app/gamification.py`, `app/clock.py` | rows of the money component | streak, badges | days and times of day |
| Price service | `app/btc_service.py` | one cache in memory, no lock | get a price, refresh, judge its age | threads share the cache through slow, failing fetches |
| Rate limiter | `app/rate_limit.py` | hits per key in memory, no lock | count a hit, sweep | threads share the lists |
| Alerts | `main.py`, `app/routers/notifications.py`, `services.evaluate_price_alerts` | alerts, notifications | create, delete, sweep | the sweep against requests |
| Sessions | `app/auth.py`, `app/routers/auth.py` | password, TOTP secret, backup codes | log in, enrol, reset | read, compare, write without a lock |
| Fraud detector | `app/anomaly_detector.py` | fitted models in memory | score, refit, evict | a bounded history and cache |
| Survey | `app/routers/survey.py` | responses | submit, summarise | which answers are about what was seen, over two releases |
| Migrations | `migrations`, `main.py` | the schema, its revision | upgrade, downgrade, `create_all` | interruptions, two owners of one schema |
| Forecast, recommender, persona, views | `app/ml_forecast.py`, `app/smart_recommender.py`, `app/spending_persona.py`, `app/routers/{analytics,ml,market,wallet}.py` | none | reads | periods' boundaries, ties, floating point |
| Mobile app | `mobile/lib`, `mobile/app` | token, user, one idempotency key per purchase, screens' data | sign in, retry, refresh, wake the server | answers lost, late or out of order |
| Seed, evaluation | `seed_demo.py`, `evaluation` | | | run alone |

A purchase ties the parts together: it asks the **price service** for a price it may
pay at, the **reward engine** for the reward of the member's level and boost, inserts
the transaction, locks the wallet, credits it, and lets **gamification** count the day
and award badges, has the **fraud detector** score it, all in one database transaction.
Everything else a member does to
sats meets it at the wallet's row lock.

What makes each part correct:

* *Money.* A wallet is always explained by its ledger and never negative; sats in goals
  are sats that left the wallet, refunded once; a key pays once and a retry is told
  the truth; both sides of a referral are paid; a deleted account leaves nothing;
  requests that wait for each other are answered. In one sentence: the overlapping
  handlers look like the atomic requests of `Bank`.
* *Reward engine.* The parts of a receipt explain what is paid; a dearer purchase
  never pays less; round-ups end on the dollar.
* *Gamification.* The streak is the run of days with purchases; a badge is awarded by
  the purchase that earns it.
* *Price.* No reward is paid at a price nobody quoted, or an old one; an outage costs
  one request per back-off its time-out.
* *Rate limiter.* Nobody gets more than the limit in a window by calls that do not
  overlap, nobody is refused before it, and idle keys do not pile up.
* *Alerts.* An alert fires once, at a price across its target that somebody has quoted,
  and does fire.
* *Sessions.* A changed password ends every session and link issued before it; the
  backup codes kept are those that have not been used; a second factor in force has
  been shown a code.
* *Fraud.* A model in use is not too old; no purchase fails for the cache but when it
  overflows; one oddity, or two, raises no alert.
* *Survey, migrations.* No statistic mixes groups; a schema is what the models declare,
  whatever migrations, restarts and interruptions have made it.
* *Views.* Every row of a period counts once, and views differ by no more than the rows
  and stamps they go by; a forecast follows its history.
* *Client.* One purchase meant is one purchase paid; a session ends when it has ended;
  a screen does not load for ever.

What is not modelled is in section 7.

`PROJECT.json` lists every component and, under `hazards`, the lines where it can go
wrong in a way a test would hardly reach.

## 2. The modules

| Module | Stands for |
|---|---|
| `RewardEngine` | `app/reward_engine.py`: constant-level functions, in exact integers |
| `Gamification` | `app/gamification.py`, `app/clock.py`: constant-level functions |
| `Cards` | every request that moves sats, over the database they share (extends the two above) |
| `Bank` | the abstraction of `Cards`: atomic requests, no locks, no failures |
| `CardsImplementBank` | the refinement mapping, `INSTANCE Bank WITH ...` |
| `PriceService` | `app/btc_service.py`: threads over the shared cache |
| `RateLimit` | `app/rate_limit.py`: threads over the lists of hits and the sweep |
| `Alerts` | the sweep of `main.py` against `app/routers/notifications.py` |
| `Sessions` | `app/auth.py`, `app/routers/auth.py` but for registration |
| `FraudDetector` | the cache of `app/anomaly_detector.py` under purchases and deletions |
| `FraudRules` | the features, rules, calibration and summary of the same file |
| `Insights` | `wallet_growth`, `spending`, `tax_report`, the forecast's series and the recommender's pick |
| `Rounding`, `Sums` | Python's `round` of a quotient; its `sum` |
| `Schema` | the tables of `app/models.py` and the scripts of `migrations/versions` |
| `Migrations` | `migrations/env.py` and the start of `main.py`, over `Schema` |
| `Survey` | `app/routers/survey.py`, over `Migrations` |
| `Phone` | `mobile/lib/*`, the sign-in screen and the purchase form |
| `MCFunctions` | the pure modules, on small inputs |
| `MCCards`, `MCPriceService`, `MCRateLimit`, `MCAlerts`, `MCSessions`, `MCFraudDetector`, `MCSurvey` | instances for TLC: tables scaled down, menus of calls |
| `ArithmeticProofs` | lemmas on quotients, rounding, levels, rewards and sums, for all that add up |
| `CardsProofs` | theorems about `Cards`: balances, keys, that it implements `Bank`, and its records |
| `MarketProofs` | theorems about `PriceService` and `Alerts` |
| `FunctionsProofs` | theorems about `RewardEngine`, `FraudRules`, `Insights` and `Survey` |
| `SessionsProofs`, `FraudProofs`, `RateLimitProofs`, `PhoneProofs` | theorems about the module of that name (`FraudProofs`: `FraudDetector`) |

An operator called `X_Y` is a **mutant** of `X`: the code with a plausible bug
(`LockWallet_NoForUpdate` is `LockWallet` without `with_for_update`). No specification
uses it. It is there to show that the property it is paired with in `PROJECT.json` can
fail: with `X` replaced by `X_Y`, the same run finds a violation.

### Cards

A request `r` is a call from `Menu`, sent at most once, that goes through the steps
`pc[r]` of its handler.

| `pc` | The handler is |
|---|---|
| `new`, `done` | not sent; answered with `reply[r]` |
| `insert` | before the INSERT of the transaction, or of the new user |
| `referral`, `code` | before the INSERT of the referral; before the UPDATE or DELETE of the referral code |
| `goal`, `goals` | in `_owned_goal`, before the goal's lock; before the DELETE of the goals |
| `wallet` | in `get_wallet(for_update=True)` |
| `commit` | holding what it needs, before its last writes and COMMIT |

A step ends where the handler reads a row that another may change, or reaches a
statement that can wait. Between two such points a handler touches only its own data,
so finer interleavings show nothing new. `seen[r]` keeps what has been read; the ORM
writes absolute values computed from it, and so does the model: `PurchaseCommit` sets
the wallet to `seen[r].balance + reward + spare`, which loses another's update if the
lock does not do its work. Writes become visible in the commit (READ COMMITTED).

Postgres is modelled by what this code relies on (marked external in the map): `FOR
UPDATE` and `UPDATE` row locks until the end of the transaction; a second INSERT of an
uncommitted unique value waits (`SameInsert`); an INSERT holds KEY SHARE on the user
its foreign key names, which a DELETE of the user waits for (`KeySharers`); a cycle of
waiting requests loses one of them to a 500 (`DeadlockVictim`). `Restart` ends every
open transaction without a commit.

A purchase's `reply` tells two kinds of 500 apart. 500 is an exception of the database: a
duplicate key, a row that has gone, a deadlock. `CacheError` is one of a dictionary in
memory: the rate limiter's, before the purchase has read anything (`PurchaseDeclined`), or
the fraud cache's, before its commit (`ScoreFails`). When they come is `RateLimit`'s and
`FraudDetector`'s matter; here they come at any time. An empty `Idempotency-Key`
(`EmptyKey`) is stored and unique like any other, but no key to `_already_recorded`, so a
purchase sent again with it ends in a 500 (`DuplicateStatus`). A purchase on record keeps
the boost it was paid with.

Data: amounts are base sats, small integers; a user stands for its account; the ledger
keeps one total per type of entry, which is what the code ever asks of it; time moves
in half days, `utctoday` is the day, and odd instants are night.

### PriceService

A caller goes through `get_btc_price`: `Ask` (freshness), `CheckBackoff`, `Attempt`,
`Fetched` or `FetchFailed`, `UseFallback`, `Judge` and `Read` (the two halves of
`_snapshot`). Each is a point where another thread can get in between; a single
`dict.update` is atomic under the interpreter's lock, a test followed by one is not.
A quote is identified with the instant it was made at, so a price carries its own age,
independent of what the cache claims (`fetched_at`). The clock moves only while
threads are idle or in the network, for at most `MaxFetch`.

### RateLimit

A caller goes through `rate_limit`: `Enter`, then if a sweep is due `BeginSweep`,
`Scan` (one step of the iterator over `_hits`) and `Delete`, then `NoteWindow`,
`Trim` and `Store` (the two halves of line 46), `Count` and `RecordHit`. Each is one
operation on a shared dictionary. `present` tells a key with an empty list from no key,
which matters to the iterator and to `del`: both raise when another thread has been
there (`Crash`). The clock stands still while a call is under way, which takes
microseconds. `accepted` records the calls let through and `alone` those that no other
call overlapped.

### Alerts

The worker is `asleep`, has `judged` the cached price live, has `priced` its sweep with what
the cache holds by then, or has `read` the alerts it will fire (`JudgePrice` and `TakePrice`
are `Judge` and `Read` of `PriceService`). A price has a source: `live`, `old` when it has
passed its age, `fallback` when nothing was ever fetched, `overwritten` when a thread that
had found nothing (`doomed`) writes the fallback over what another has fetched since. The
commit of a sweep is one step, and fails as a whole when one of their rows is gone
(SQLAlchemy's StaleDataError). A creation takes two steps, the count and the insert, and a
deletion two. The process is the only one that sweeps: `DEPLOY.md:67`
rules out several workers. A restart forgets what is under way; the first sweep
of the new process needs no delay, and in the model no sweep does.

### Sessions

One account, a request per thread: the handler's reads and checks are one step, its
writes and answer another (`ResetCommit`, `SetupCommit`, ...), and anything may happen
in between. A hash is the password with a salt that counts the changes, so equal
passwords of different times differ, as bcrypt's do; its fingerprint is itself. A token
names the fingerprint it was issued with; `born` is history. Writes are the ORM's: a
record found is updated in the columns that change, one that has gone is not updated,
and one not found is inserted if nobody else has. `used`, `proven` and `overlapped` are
history. No token expires, which lets each be presented for longer than the code does.

### FraudDetector and FraudRules

A purchase is stamped, waits for its wallet (so that one member's purchases are scored
one after another, and not always in the order of their timestamps), and then goes
through `_cache_get`, `_fit` and `_cache_put`, one operation on the `OrderedDict` per
step. `sees` counts the member's committed purchases stamped before its own, of which
`HistorySize` is all the query returns. A `KeyError` of `move_to_end` rolls the
purchase back. `FraudRules` has the numbers: z-scores as exact fractions of sums and
squares, the forest's decision value as given.

### Migrations and Survey

A schema is a function from tables to keys, unique columns and indexes; a script a
sequence of statements of which each may be refused (`Possible`). On Postgres a command
is one transaction, on SQLite every statement stays. The survey's rows live in that
database: two releases of the application write them, and a downgrade and upgrade
drop and restore the column that tells them apart. A group of responses is the set of
their places, and `Nth` the k-th of their sorted answers to an item.

### Phone

Each call is in one of `MaxCalls` slots, and waits for the wake-up (`waking`), is with
the backend (`sent`), `answered`, or has `cleared` the token. Where the code awaits,
the model has a step: between the store's and the screen's half of signing in and out,
and of a refused session. The backend is external: it accepts or refuses a session,
pays a key once (`PaidOnce` of `Cards` is about the server's half), and a request that
the phone has given up on may still arrive. The screens remount when the user leaves
them, as expo-router replaces them; the calls they had in flight end unheard.

### RewardEngine, Gamification and Insights

Functions, extended by `Cards`. Doubles are exact rationals: a multiplier is in tenths
and a base reward a fraction `num/den`, rounded half to even as Python's `round`.
`Insights` takes histories in hours. A purchase is a row of three tables, each stamped on its
own: the transaction and, once it is inserted, the reward event before the purchase waits
for the wallet, the ledger's row after. The spending view reads the first, the tax report and the forecast the second, the
wallet's curve the third, which holds the wallet's other moves as well: round-ups, bonuses,
what goes to goals and comes back (`RewardEvents`, `WalletTransactions`). Each view has
periods of its own: "all" is 3650 days in `analytics.py:19` and 365 in `wallet.py:19`. The
price of a reward, which views multiply by, is left out.

## 3. What is checked

Every property is stated and explained where it is defined.

| Run | Shows |
|---|---|
| `cards` | Money: `WalletIsLedger`, `NeverOverdrawn`, `LedgerIsBacked`, `PaidOnce`, `AnswersAreTrue`, `ReferralsPaid`. Deletion: `NoOrphans`, `OnlyDeletionDeadlocks`. Errors: `RacesNeverErr`. Days and levels: `StreakIsRun`, `CountedBadges`, `NeverOverpaid`. The refinement: `ImplementsBank` |
| `cards_answered` | `EveryRequestAnswered`, under fairness |
| `functions` | `RewardIsExplained`, `NeverPaysLess`, `RiskFollowsDepartures`, `ViewsAddUp`, `PredictionsFollowHistory`, against definitions that do not mention the algorithm |
| `price` | `PaidIsRecent`, `OutageIsWaitedForOnce` |
| `rate_limit` | `LimitIsLimit`, `IdleKeysReclaimed`, `FailsOnlyOverlapped` |
| `alerts` | `ToldOnce`, `FiredAtCrossing`, `CapKept`; `EventuallyFires` under fairness |
| `sessions` | `TokensEndWithPassword`, `CodesAreExact`, `EnabledIsProven` |
| `fraud` | `FreshBelowLimit`, `MissingOnlyIfPushed`, `CacheHoldsMembers` |
| `survey` | `SchemaStraysOnlyLocally`, `SummaryKeepsGroupsApart` |
| `client` | `KeysFollowPurchases`, `ForgottenOnlyWhenEnded`; `SpinnersEnd` under fairness |

**Scenarios.** The run `cards` takes eight menus of calls, each with bounds on how many
are sent, on how many overlap and on the clock (`MCCards`, `Scenarios`): the CONSTRAINT
of its cfg follows a behaviour as long as all its calls belong to one menu and keep its
bounds. They are one member's
purchases (with a key, with a round-up), allocations and a goal's deletion; two goals;
purchases sent again, with a key and with an empty one, while the account may be closed;
registrations with one code, a newcomer's, one's own and a taken email; an account
deleted under purchases, registrations and goals; one deleted under changes of its
settings; purchases over three and a half days; and purchases under boosts that are
switched on and run out. `sessions` likewise follows password changes apart from
repeated set-ups (`Scenarios`), and `survey` no further than a refused migration, nor
the responses of a SQLite database that has been interrupted (`Explored`).

**Bounds.** Two requests are enough to race and three to form a cycle through a third,
so a scenario has three, and money and registrations four (a race while a third party
holds the lock, and one request before or after it). Where the clock runs longest,
requests come one after another: purchases that overlap meet one
midnight, and those that overlap with activations no boost that runs out. One user is enough for one wallet;
referrals and deletions take two or three. `MaxClock` spans the times that matter: a
streak that grows, breaks and starts again; a boost's end; a cached price that goes
stale and a back-off that ends. The level table keeps the code's five rows with
thresholds that a few purchases cross, one of them exactly. `WelcomeSats` is small
enough that two allocations overdraw together and not alone. `MCFunctions` takes
every base of up to 60/den sats, every level, every price to two dollars, every
combination of risk features, and every history of three rows - purchases at two amounts in
two categories, entered at once or an hour after they are stamped, and moves of the wallet
in and out - while a year of seven days and a forecast of three weeks go by in
steps that meet every boundary; two periods are offered by both views, and one by each
alone. `RateLimit`
has two threads and two keys, of a short window with two hits and a long one with one;
its clock lets the long window and two sweeps go by. `Alerts` has two users, two alerts and
three requests, enough for a deletion under a sweep that another alert depends on, and
two prices, one on either side of a target; two threads that write the fallback are one that
may write it again. `Sessions` has two threads, two passwords,
one change, two set-ups and two backup codes: a stale token, and a stale list, need no
more. `FraudDetector` has a cache of one model for two members, so that it overflows,
and a history limit that the fourth purchase reaches. `Survey` has one item of each
kind, the scale's two ends and three responses, of two releases. `Phone` has two calls
in flight, two sessions and two purchases meant, so an answer to the first can meet the
form of the second.

**Deadlock.** TLC's deadlock check is on but for `functions`, whose inputs end. `Idle` is the server with no open
request; a state in which requests are open and none can move would be reported.

**Fairness.** `FairSpec` of `Cards` assumes one thing: while some request can take a step of its
handler, one is taken. The thread pool runs what can run, Postgres grants a free lock
and looks for deadlocks. No request is favoured, no client has to send anything, nothing
has to restart, and the clock may stand still. Requests are finitely many; with endless
traffic a lock wait could be overtaken for ever, which Postgres' queues prevent and the
model does not have. `FairSpec` of `Alerts` assumes that the worker comes back from every
sleep and that the process is not restarted for ever in the middle of every sweep.
`Fairness` of `Phone` has the time-outs behind it: axios ends every request after 12
seconds and the health check after 75, and what has been answered is handled. Neither
the network nor the backend need ever answer.

## 4. What the code does not keep

Two runs show that the code loses what it keeps, or breaks a promise of the
documentation, when requests overlap (`findings` of `PROJECT.json` traces each).

| Run | Disagreement |
|---|---|
| `cards_referral_count` | two overlapping registrations with one code are counted once |
| `price_invented` | the fallback written over a live price already judged is paid at |

The models follow the code in these, too; none is part of a property:

* Two overlapping purchases that pass a badge's threshold together leave it to the next
  purchase: each has read a total below it (`transactions.py:86`). `CountedBadges` is about
  the badges that are counted by purchases. The total that is too low also pays too little
  at a threshold; `NeverOverpaid` only excludes that it pays too much.
* The snapshot that `price_invented` shows is the alert sweep's as well: a fallback written
  over a price already judged live fires alerts, "against a live price. Never a stale one"
  though the sweep is (`main.py:81`). `FiredAtCrossing` allows that price
  (`overwritten`), and excludes the fallback of an outage alone.
* A purchase ends in a 500 and is rolled back when another thread evicts the model it is
  about to move in the fraud cache (`anomaly_detector.py:215`, `:221`; `MissingOnlyIfPushed`
  says when), or when the rate limiter meets another call (`transactions.py:82`;
  `FailsOnlyOverlapped`). `RacesNeverErr` is about errors of the database.
* A purchase sent again with an empty `Idempotency-Key` is a 500, not a 409
  (`transactions.py:46`, `if not key`). It pays once all the same.
* A purchase stamped before a period and entered in it is in the wallet's growth and not
  in the spending view; so are round-ups, bonuses and moves to and from goals. `ViewsAddUp`
  has the difference in full.
* The second caller of a new process is answered without a price while the first is
  still fetching (`btc_service.py:100`), and the wallet page fails.
* A model fitted at 500 purchases is never refitted: the history's length, by which
  `_cache_get` goes, does not grow any more (`anomaly_detector.py:213`), although
  `docs/ARCHITECTURE.md:109` has it refitted every so many purchases. `FreshBelowLimit` ends there.
* `calibrate`'s docstring anchors the boundary at 50; the code at 60.
* Two logins that overlap can both use one backup code, and two resets one link; the
  second reset's hash stays. `CodesAreExact` is about requests that do not overlap, and
  `TokensEndWithPassword` about links presented after the first reset has committed.
* A set-up repeated while another's code is being verified puts a secret in force nobody
  has shown a code of (`auth.py:196-203`). `EnabledIsProven` is about requests that do not
  overlap.
* The token of the second factor's challenge carries no fingerprint, and lives on for its
  five minutes when the password changes (`auth.py:107`). `TokensEndWithPassword` is about
  sessions and reset links.
* A downgrade of the survey's column followed by an upgrade makes legacy rows of all
  rows. `SummaryKeepsGroupsApart` holds of them as such.
* `alembic upgrade head` fails on a SQLite database the application has started on, as
  `create_all` has made its tables.
* The answer to a call made with a session that has since been replaced clears the
  new one (`api.ts:68`): `ForgottenOnlyWhenEnded` allows it.
* A cold launch without a network shows the sign-in screen to a member whose stored session
  is good (`auth.tsx:42-48`; `docs/ARCHITECTURE_REVIEW.md`, finding 2). `ForgottenOnlyWhenEnded`
  is about the stored session, which stays.
* An answer that comes late overwrites a newer one (`useApi.ts:45`).

Some are part of the properties that hold. A purchase stamped before
midnight that gets the wallet after it counts for the day it commits, not for its
timestamp's: `StreakIsRun` and `CountedBadges` are about `counted`, the day of the
commit, and `at` is kept beside it. The age of a price is measured from before a fetch
that may take seconds to fail: `PaidIsRecent` allows the limit *and* `MaxFetch`. Overlapping calls with one key can pass the rate
limit, each having counted before the other's hit, and can lose a hit that is appended
to a list about to be replaced; overlapping creations can likewise pass the cap on
alerts. `LimitIsLimit` and `CapKept` are therefore about calls that do not overlap, in the
midst of calls that do.

## 5. What is proved

`tlapm` checks that every safety property but `SchemaStraysOnlyLocally` holds for every
set of users, requests, threads, keys, goals and calls, every level table, scale and
history, every limit and every bound: 30 invariants, four action properties, the types
of `Cards` and the refinement of `Bank`.

*Assumptions.* Each is named in the module that declares the constants, and TLC
evaluates it on every run.

| Assumption | Says, beyond the types |
|---|---|
| `CardsAssumption` | `Nobody` and `NoKey` are no real values, the empty key is one; at the start goals are empty, finitely many and owned by members |
| `LevelsAssumption` | the table begins at 0 sats and the base rate, its thresholds rise and its multipliers never fall, as those of `reward_engine.py` |
| `InsightsAssumption` | periods are numbers of days; every category has a rate and a place in the order that breaks ties; a year and a forecast's window are not empty |
| `FunctionsAssumption` | denominators are positive |
| `BadgeAtAssumption` | a badge asks for at least one of what it counts |
| `BankAssumption` | `NoOwner` is no user; `Payments` has what the menu's purchases pay |
| `AlertsAssumption` | there are users and alerts; the fallback is a price; targets are prices |
| `LimitAssumption` | there are keys; limits and windows are positive |
| `FraudAssumption` | there are users and threads, finitely many threads; the limits are positive |
| `SessionsAssumption` | there are passwords and threads; no password's fingerprint is `NoFingerprint` |
| `SurveyAssumption` | answers are of 1 to 5; no item is of both kinds; sources and options are finitely many, and no option is the missing one |
| `PriceAssumption`, `PhoneAssumption` | nothing |

*Where.*

| Theorem | Module | Property |
|---|---|---|
| `TypeCorrect`, `BalancesExplained`, `NothingOverdrawn`, `KeyPaysOnce` | `CardsProofs` | `TypeOK`, `WalletIsLedger`, `NeverOverdrawn`, `PaidOnce` |
| `CardsImplementsBank` | `CardsProofs` | `ImplementsBank` |
| `DeadlocksNeedDeletions`, `RacingPurchasesNeverErr` | `CardsProofs` | `OnlyDeletionDeadlocks`, `RacesNeverErr` |
| `NothingOrphaned`, `AnswersHold`, `ReferralsArePaid` | `CardsProofs` | `NoOrphans`, `AnswersAreTrue`, `ReferralsPaid` |
| `BadgesAreAwarded`, `StreaksAreRuns`, `NobodyOverpaid` | `CardsProofs` | `CountedBadges`, `StreakIsRun`, `NeverOverpaid` |
| `LedgersAreBacked` | `CardsProofs` | `LedgerIsBacked` |
| `SessionsEndWithPassword`, `CodesStayExact`, `EnabledStaysProven` | `SessionsProofs` | `TokensEndWithPassword`, `CodesAreExact`, `EnabledIsProven` |
| `AlertsTellOnce`, `AlertsFireAtCrossing`, `AlertsKeepCap` | `MarketProofs` | `ToldOnce`, `FiredAtCrossing`, `CapKept` |
| `PaidAtRecent`, `OutageWaitedForOnce` | `MarketProofs` | `PaidIsRecent`, `OutageIsWaitedForOnce` |
| `FraudModelsAreFresh`, `FraudModelsArePushedOut`, `FraudCacheIsBounded` | `FraudProofs` | `FreshBelowLimit`, `MissingOnlyIfPushed`, `CacheHoldsMembers` |
| `LimitHolds`, `IdleKeysAreReclaimed`, `LoneCallsSucceed` | `RateLimitProofs` | `LimitIsLimit`, `IdleKeysReclaimed`, `FailsOnlyOverlapped` |
| `KeysAreFollowed`, `SessionsKeptUntilEnded` | `PhoneProofs` | `KeysFollowPurchases`, `ForgottenOnlyWhenEnded` |
| `RewardsExplained`, `LargerPaysNoLess` | `FunctionsProofs` | `RewardIsExplained`, `NeverPaysLess` |
| `RisksFollow` | `FunctionsProofs` | `RiskFollowsDepartures` |
| `ViewsAgree`, `PredictionsFollow` | `FunctionsProofs` | `ViewsAddUp`, `PredictionsFollowHistory` |
| `GroupsKeptApart` | `FunctionsProofs` | `SummaryKeepsGroupsApart` |

Those about a component with state are an invariant with one lemma per action, or per
group of actions that change the same things. Few of the properties are inductive; these
are the inductive invariants and why they are needed. Those about the functions need of
the state only its type, and their argument is arithmetic.

*The balances* (`IInv` of `Cards`). A commit writes a balance
that was read two steps before, so one must know that it is still the balance.
`WalletHeld`: whoever holds a wallet's lock is about to commit, and its
reading is current. `WrittenUnderLock`: whoever is about to commit a balance holds the
lock. `CodeHeld`, `StepsOf`: which requests can hold a code's lock, needed because
whether a registration pays anybody is told from it. `Registrants`, `Newcomers`: a new
member's wallet is written without a lock, which is right only because no other
request can refer to an account that does not exist. Every step of a handler either
moves on (`MoveInv`, `LockWalletInv`), ends without a write, or commits; each commit is
one lemma. `PaidOnce` adds `KeysPending`: a purchase between its INSERT and its
commit is the only one with its key, on record or under way.

*The rows* (`RowsInv`). What the wallet's lock is to balances, the others are to rows:
an account with an uncommitted row that names it stays (`SharersOpen`), a goal that a
request changes or that a deletion takes away is locked by it and still what it has
read (`GoalHeld`, `GoalIsRead`, `GoalsAreLocked`), a goal that is about to be made is
free (`GoalIsNew`). With it each commit is a step of `Bank` and all else is a stutter,
and a deletion that commits finds itself alone (`ClosingIsAlone`), so that nothing is
orphaned and an answer stays true.

*Deadlocks.* A request waits for one that is a `Rank` further in the order insert, code or
goal, wallet, commit, unless one of them deletes an account; a circle of waiting
requests would have no highest rank. For `RacesNeverErr`, a database's error about a real key is a deadlock's victim
or a row that has gone, and both are a deletion's doing (`FailuresInv`).

*Referrals, days, levels.* `ReferralsInv` counts referrals in the ledger, one commit at
a time. `StreaksInv` says what a streak is of the days counted without naming their
maximum, and that no day is in the future: the commit's day is at least the last. A
badge's condition, once met, is met by the purchase that is being committed. What an
account has earned only grows (`EarnedGrows`) and no level pays less than one below
it (`RewardGrows`), so a total that was read early pays too little, if anything, at the
boost that is recorded.

*Sums* (`ArithmeticProofs`). The library's induction theorems take an operator as
a parameter, which these provers cannot instantiate. Its `WFMin` does not: a nonempty set
of natural numbers, or of finite sets ordered by their cardinality, has a least element.
So that `MapThenSumSet` does not depend on the order it adds in, and that one more
entry adds its weight (`SumAdd`), is shown on a smallest set on which it would not. The
same argument, stated once for a family of sets (`OneAtATime`) and once for the numbers up
to one (`Upwards`), gives the rest: parts add up to the whole (`SumOfParts`), what an order
compares has a first (`Foremost`).

*The ledger's sums* (`BackedInv`). A
purchase's commit adds one entry to both sides, and a change of a goal moves as
much to the pot as it takes from the wallet, the goal being read under its lock.

*Sessions.* The guard compares fingerprints, the property is about the change a token was
issued after. They agree because of `AgesBounded`: a token that names a hash was
issued when the salt was no later than that hash's, and no hash is of a later change
than the account's. `FactorInv`, for the second factor: unless two requests have
overlapped, what a request about it has read is what is stored (`AloneAndCurrent`), and
what it has checked still holds (`Checked`).

*Alerts.* Once a price has been fetched the cache is never without until the process
restarts, and the sweep with it: so what follows a judgement is a fetched price, or one
written over a fetched one (`Fetchings`, in `FiringCrossed`). What a sweep is about to fire was pending and had crossed its target when it was
read (`FiringWerePending`, `FiringCrossed`), and its commit fails unless all of it is
still there. A creation that overlaps none has counted all there are (`RoomForAlone`).

*Prices.* A live price was quoted after the caller that stored it had come
(`LiveIsQuoted`), so whatever a thread finds in the cache after it has judged it is recent
if it is live (`ReadIsRecent`). The last attempt is as late as any that failed
(`AttemptIsLast`), so a caller within the back-off will find that it is (`SparedWillFind`).

*Fraud models.* The cache is a sequence; that `RemoveAt`, an assignment and
`move_to_end` keep it a dictionary is shown once (`Sound`). One purchase of a member is
between its lock and its commit at a time (`OneLocked`), so the model it holds is as
fresh as when it was fitted (`HeldIsFresh`); whoever has put a model has yet to make room
(`CacheHasRoom`).

*The rate limiter.* Three invariants, one on top of the other. `LoneInv`: while a call
overlaps no other, the dictionary that its sweep iterates over is as it was. `LimitInv`:
every list that is stored for a key, or about to be (`Listed`), has hits on record only,
each once, and has all those in the window that lone calls were let through with
(`Holds`): an injection either way (`Embeds`), so that the list's length, which the code
compares, is between the two numbers that the property speaks of. A sweep takes
nothing away that the limit needs, for it knows the windows (`Spared`, `Noted`). `SweepInv`: a key whose hits were
all out of their window when the last sweep began is still to be looked at or deleted by
some sweep (`Reclaims`). What the list comprehension keeps, a recursive function, is
shown by the smallest prefix for which it would keep something else (`RecentPicks`).

*The phone.* A call that pays has its own purchase's key, and an answer about a
purchase is true (`Sound`); a key names one purchase (`OneKeyEach`).

*Rewards.* Rounding half to even keeps the order of fractions and leaves integers alone
(`RoundedGrows`, `RoundedWhole`), so a part of a reward is not negative and a larger
product pays no less. A level is the only row whose threshold is met and the next one's
is not (`LevelIs`), which is why the thresholds have to rise.

*Views.* Each purchase is in one category and each event in one year, and each row of a
period is on one of its days (`CategoriesAddUp`, `YearsShareOut`, `CurveEnds`): that is
`SumOfParts` once the parts are shown to be apart, and to have them all. No table has a row
of the future (`TablesStamped`), and no purchase is entered before it is stamped, so the
ledger's rows of a period are the spending view's, the other moves' and those stamped
earlier (`GrowthShared`). The dates of the curve are
the quotients of hours by 24, hence the lemmas on quotients.

*Risks.* Of the five rules' points no two come to the boundary (`AlertsTakeThree`). The
calibration is monotone on either side of the anchor and keeps the sides apart
(`CalibrateSides`, `CalibrateFalls`).

*Predictions.* The slope of a fitted line has the sign of a sum of values weighed
by their distance from the middle; numbers that never fall weigh no less when the
later ones weigh more (`SumRising`). The recommender's order, by worth and then by name,
is total and transitive, so what it picks is ahead of all others and worth as much
(`RecommendsTheBest`).

*The survey* (`SurveyIInv`). A response on record, or among those that a rollback would
restore, has answers to all that its cohort was asked, and to nothing about screens it
has not seen (`Told`). A column that is dropped or added makes a legacy row of every one
that is not screened out, of which less is claimed. The k-th of the sorted answers
rises with k (`NthRises`), and the quartiles and the median are between the k-th and
the next of rising places (`QuartilesAround`).

## 6. What is only model-checked

* Liveness: `EveryRequestAnswered`, `EventuallyFires`, `SpinnersEnd`. They rest on
  fairness, hence on `ENABLED`.
* `SchemaStraysOnlyLocally`: it is about four given scripts up and down, a hundred
  statements over nineteen tables and no constant, which TLC runs in every order that
  commands, starts and interruptions allow, up to the first refusal and, on SQLite, past
  one interruption. A proof would run them too.
* That the doubles of the code agree with the exact fractions of the model: they are
  identified when the code is translated.
* The two disagreements of section 4.

## 7. What is left out

*Abstractions of `Cards`.*

* `delete_account` deletes the Referral rows and takes the goals' locks in one step
  each, and the lock of the streak row is ignored.
* After a 409's lookup nothing can change its answer, so lookup and answer are one step.
* 503 stands for both refusals that come before the INSERT, the rate limiter's 429 and
  the price's 503, and `CacheError` for the exceptions of the limiter and of the fraud
  cache: `Cards` allows each at any time, whatever those modules do. Of these, no property
  of `Cards` says when they happen.
* Registration and deletion call the limiter too (`auth.py:60`, `:134`), before they have
  read or written anything else: refused or failed, they are as if never sent.
* `reply` is the server's answer. An answer lost on the way is the mobile client's
  concern.
* An open account has a wallet, as registration creates it.
* `referral_codes.total_sats_earned` moves with `total_referrals` and is left out.
* The email of a deleted account registers again as another member of `Users`.
* Validation of request bodies is left out: `Menu` has valid calls.

*Abstractions of `Alerts`.* An account is closed in one step, which succeeds; the
code's may fail on an alert that arrives meanwhile, and then changes nothing. A price
is a number of a small set; the cache changes in the ways `PriceService` has, without its
clock: a live price may age at any time.
Listing, and marking notifications read, are left out.

*Abstractions of `Sessions`.* The rate limits, a refused request, a token's expiry and
`is_active`, which nothing clears, are left out. One code of a secret stands for those
of all instants, so a code can be shown again for as long as its secret is in use.

*Abstractions of `FraudDetector`.* The isolation forest, scikit-learn's, is its training
set. A score is stored with the purchase and read back by `get_fraud_summary` alone.

*Abstractions of `Survey` and `Migrations`.* Free text and the mean are left out, and
column types: a table has the columns that revisions add later, its keys and indexes.
`seed_categories` fills an empty table at the start.

*Abstractions of `Phone`.* One screen stands for all that load data, pulled down or
focused; the second factor's form goes the way of the first. Sign-up and closing the
account are a sign-in and an ended session.

*Abstractions of `Insights`.* A view is read in one step, so that midnight does not pass
between the start of its period and its query, nor a commit between two queries of it.

*Parts.* The forecast's value and interval, the persona's clusters, the boost's score:
floating-point statistics over what `Insights` has. Insights, recap, market, ML and
legal pages: averages and text over the same rows, without state. Middleware and
validation. Seed and evaluation: run alone. Screens: layout.

## 8. Plan

1. Done: `RewardEngine`, `Gamification`, `Cards`, `Bank` and its refinement,
   `PriceService`, `RateLimit`, `Alerts`; type correctness and three safety theorems.
2. Done: `Sessions` with its theorem, `FraudDetector` and `FraudRules`, `Insights`,
   `Schema`, `Migrations`, `Survey`, `Phone`.
3. Done: theorems for every safety property of `Cards`, its refinement of `Bank`, and
   those of `Sessions`, `Alerts`, `PriceService`, `FraudDetector`, `RateLimit` and `Phone`.
4. Done: theorems for the functions, `RewardIsExplained`, `NeverPaysLess`,
   `RiskFollowsDepartures`, `ViewsAddUp`, `PredictionsFollowHistory`, and for the
   survey's `SummaryKeepsGroupsApart`.
