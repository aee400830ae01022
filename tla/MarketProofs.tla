---------------------------- MODULE MarketProofs ----------------------------
(***************************************************************************)
(* The price: what is paid at is recent, and an outage is waited for once, *)
(* for any callers and any cache time, age limit, back-off and fetching    *)
(* time.  The alerts on it: for any users, alerts, requests and prices,    *)
(* who is told what, at which price, and how many alerts a user has.       *)
(***************************************************************************)
EXTENDS Alerts, PriceService, FiniteSetTheorems, TLAPS

-----------------------------------------------------------------------------
(* The price.  The clock stands still while a caller is anywhere but in a  *)
(* fetch, so the `now` it took on entry is behind by its own fetch at      *)
(* most; and the stamp of the last attempt never moves back.               *)

\* A caller has been under way no longer than a fetch takes, and until it fetches no time
\* has gone by.
NowIsRecent ==
  \A r \in Callers :
    /\ stage[r] # "idle" => at[r] <= clock /\ clock <= at[r] + MaxFetch
    /\ stage[r] \in {"check", "attempt"} => at[r] = clock
    /\ stage[r] = "fetching" => began[r] = at[r]

\* A live price was quoted after the caller that stored it had come, and no other price is
\* a quote.
LiveIsQuoted ==
  IF cache.source = "live"
    THEN cache.fetched_at \in Quotes /\ cache.fetched_at <= cache.price /\ cache.price <= clock
    ELSE cache.price \in {NoPrice, Fallback}

\* What a caller is about to read, having found that it is not stale, can be paid at,
\* although it need not be what was judged.
ReadIsRecent ==
  \A r \in Callers :
    stage[r] = "read" /\ ~ stale[r] /\ cache.price >= 0 =>
      clock - cache.price <= MaxAge + MaxFetch

\* The last attempt is as late as any that has failed or is under way.
AttemptIsLast ==
  /\ failed <= cache.attempted_at /\ cache.attempted_at <= clock
  /\ \A r \in Callers : stage[r] = "fetching" => at[r] <= cache.attempted_at

\* A caller within the back-off will find that it is.
SparedWillFind ==
  \A r \in spared : stage[r] = "check" => ~ MayAttempt(r)

PriceIInv ==
  /\ PriceTypeOK
  /\ NowIsRecent /\ LiveIsQuoted /\ ReadIsRecent /\ PaidIsRecent
  /\ AttemptIsLast /\ SparedWillFind /\ OutageIsWaitedForOnce

-----------------------------------------------------------------------------
\* The invariant holds of a process that has just started.
LEMMA InitPriceIInv == PriceInit => PriceIInv
<1> SUFFICES ASSUME PriceInit PROVE PriceIInv
  OBVIOUS
<1> USE PriceAssumption DEF PriceInit
<1>1. PriceTypeOK
  BY DEF PriceTypeOK, NoAnswer, Quotes, Stamps, Sources, NoPrice
<1>2. NowIsRecent /\ LiveIsQuoted /\ ReadIsRecent
  BY DEF NowIsRecent, LiveIsQuoted, ReadIsRecent, NoPrice
<1>3. PaidIsRecent
  BY DEF PaidIsRecent, Pays, NoAnswer
<1>4. AttemptIsLast /\ SparedWillFind /\ OutageIsWaitedForOnce
  BY DEF AttemptIsLast, SparedWillFind, OutageIsWaitedForOnce, Never
<1> QED BY <1>1, <1>2, <1>3, <1>4 DEF PriceIInv

\* No step leaves the types.
LEMMA NextPriceTyped ==
  ASSUME PriceTypeOK, [PriceNext]_price_vars
  PROVE  PriceTypeOK'
<1> USE PriceAssumption DEF PriceTypeOK, Goto, Quotes, Stamps, Sources
<1>1. ASSUME NEW r \in Callers, Ask(r) PROVE PriceTypeOK'
  BY <1>1 DEF Ask
<1>2. ASSUME NEW r \in Callers, CheckBackoff(r) PROVE PriceTypeOK'
  BY <1>2 DEF CheckBackoff
<1>3. ASSUME NEW r \in Callers, Attempt(r) PROVE PriceTypeOK'
  BY <1>3 DEF Attempt
<1>4. ASSUME NEW r \in Callers, Fetched(r) PROVE PriceTypeOK'
  <2>1. PICK made \in began[r]..clock :
          cache' = [cache EXCEPT !.price = made, !.source = "live", !.fetched_at = at[r]]
    BY <1>4 DEF Fetched
  <2>2. made \in 0..MaxClock
    OBVIOUS
  <2> QED BY <1>4, <2>1, <2>2 DEF Fetched
<1>5. ASSUME NEW r \in Callers, FetchFailed(r) PROVE PriceTypeOK'
  BY <1>5 DEF FetchFailed
<1>6. ASSUME NEW r \in Callers, UseFallback(r) PROVE PriceTypeOK'
  BY <1>6 DEF UseFallback
<1>7. ASSUME NEW r \in Callers, Judge(r) PROVE PriceTypeOK'
  BY <1>7 DEF Judge, Stale
<1>8. ASSUME NEW r \in Callers, Read(r) PROVE PriceTypeOK'
  BY <1>8 DEF Read
<1>9. CASE Tick
  BY <1>9 DEF Tick
<1>10. CASE UNCHANGED price_vars
  BY <1>10 DEF price_vars
<1> QED BY <1>1, <1>2, <1>3, <1>4, <1>5, <1>6, <1>7, <1>8, <1>9, <1>10 DEF PriceNext

-----------------------------------------------------------------------------
(* A price that is paid at is recent. *)

\* A fetch begins when its caller has come, and takes MaxFetch at most.
LEMMA NextNow ==
  ASSUME PriceTypeOK, NowIsRecent, [PriceNext]_price_vars
  PROVE  NowIsRecent'
<1> USE PriceAssumption DEF PriceTypeOK, NowIsRecent, Goto, Quotes
<1>1. ASSUME NEW r \in Callers, Ask(r) PROVE NowIsRecent'
  BY <1>1 DEF Ask
<1>2. ASSUME NEW r \in Callers, CheckBackoff(r) PROVE NowIsRecent'
  BY <1>2 DEF CheckBackoff
<1>3. ASSUME NEW r \in Callers, Attempt(r) PROVE NowIsRecent'
  BY <1>3 DEF Attempt
<1>4. ASSUME NEW r \in Callers, Fetched(r) PROVE NowIsRecent'
  BY <1>4 DEF Fetched
<1>5. ASSUME NEW r \in Callers, FetchFailed(r) PROVE NowIsRecent'
  BY <1>5 DEF FetchFailed
<1>6. ASSUME NEW r \in Callers, UseFallback(r) PROVE NowIsRecent'
  BY <1>6 DEF UseFallback
<1>7. ASSUME NEW r \in Callers, Judge(r) PROVE NowIsRecent'
  BY <1>7 DEF Judge
<1>8. ASSUME NEW r \in Callers, Read(r) PROVE NowIsRecent'
  BY <1>8 DEF Read
<1>9. CASE Tick
  BY <1>9 DEF Tick
<1>10. CASE UNCHANGED price_vars
  BY <1>10 DEF price_vars
<1> QED BY <1>1, <1>2, <1>3, <1>4, <1>5, <1>6, <1>7, <1>8, <1>9, <1>10 DEF PriceNext

\* No step makes a fallback live, or a quote younger than it is.
LEMMA NextLive ==
  ASSUME PriceTypeOK, NowIsRecent, LiveIsQuoted, [PriceNext]_price_vars
  PROVE  LiveIsQuoted'
<1> USE PriceAssumption DEF PriceTypeOK, LiveIsQuoted, Quotes, NoPrice, Fallback
<1>1. ASSUME NEW r \in Callers, Fetched(r) PROVE LiveIsQuoted'
  BY <1>1 DEF Fetched, NowIsRecent
<1>2. ASSUME NEW r \in Callers, UseFallback(r) PROVE LiveIsQuoted'
  BY <1>2 DEF UseFallback
<1>3. ASSUME NEW r \in Callers, Attempt(r) PROVE LiveIsQuoted'
  BY <1>3 DEF Attempt
<1>4. ASSUME NEW r \in Callers,
             Ask(r) \/ CheckBackoff(r) \/ FetchFailed(r) \/ Judge(r) \/ Read(r)
      PROVE  LiveIsQuoted'
  BY <1>4 DEF Ask, CheckBackoff, FetchFailed, Judge, Read
<1>5. CASE Tick
  BY <1>5 DEF Tick
<1>6. CASE UNCHANGED price_vars
  BY <1>6 DEF price_vars
<1> QED BY <1>1, <1>2, <1>3, <1>4, <1>5, <1>6 DEF PriceNext

\* A price that has just been judged is as old as the limit and the caller's own fetch allow.
LEMMA JudgedIsRecent ==
  ASSUME PriceTypeOK, NowIsRecent, LiveIsQuoted, NEW r \in Callers, stage[r] = "judge",
         ~ Stale(r), cache.price >= 0
  PROVE  clock - cache.price <= MaxAge + MaxFetch
<1>1. cache.source = "live"
  BY DEF LiveIsQuoted, NoPrice, Fallback
<1>2. at[r] - cache.fetched_at <= MaxAge
  BY <1>1, PriceAssumption DEF Stale, PriceTypeOK, Quotes, LiveIsQuoted
<1>3. clock <= at[r] + MaxFetch /\ cache.fetched_at <= cache.price
  BY <1>1 DEF NowIsRecent, LiveIsQuoted
<1> QED BY <1>1, <1>2, <1>3, PriceAssumption DEF PriceTypeOK, Quotes, LiveIsQuoted, NoPrice, Fallback

\* What a thread has judged live stays as recent as it was, whoever overwrites the cache.
LEMMA NextRead ==
  ASSUME PriceTypeOK, NowIsRecent, LiveIsQuoted, ReadIsRecent, [PriceNext]_price_vars
  PROVE  ReadIsRecent'
<1> USE PriceAssumption DEF PriceTypeOK, ReadIsRecent, Goto, Quotes, NoPrice, Fallback
<1>1. ASSUME NEW r \in Callers, Fetched(r) PROVE ReadIsRecent'
  BY <1>1 DEF Fetched, NowIsRecent
<1>2. ASSUME NEW r \in Callers, UseFallback(r) PROVE ReadIsRecent'
  BY <1>2 DEF UseFallback
<1>3. ASSUME NEW r \in Callers, Judge(r) PROVE ReadIsRecent'
  BY <1>3, JudgedIsRecent DEF Judge
<1>4. ASSUME NEW r \in Callers,
             Ask(r) \/ CheckBackoff(r) \/ Attempt(r) \/ FetchFailed(r) \/ Read(r)
      PROVE  ReadIsRecent'
  BY <1>4 DEF Ask, CheckBackoff, Attempt, FetchFailed, Read
<1>5. CASE Tick
  BY <1>5 DEF Tick
<1>6. CASE UNCHANGED price_vars
  BY <1>6 DEF price_vars
<1> QED BY <1>1, <1>2, <1>3, <1>4, <1>5, <1>6 DEF PriceNext

\* The answer of a thread has what it has judged.
LEMMA NextPaid ==
  ASSUME PriceTypeOK, ReadIsRecent, PaidIsRecent, [PriceNext]_price_vars
  PROVE  PaidIsRecent'
<1> USE DEF PriceTypeOK, PaidIsRecent, Pays
<1>1. ASSUME NEW r \in Callers, Read(r) PROVE PaidIsRecent'
  BY <1>1 DEF Read, ReadIsRecent
<1>2. CASE UNCHANGED answer
  BY <1>2
<1> QED BY <1>1, <1>2 DEF PriceNext, price_vars, Ask, CheckBackoff, Attempt, Fetched, FetchFailed,
           UseFallback, Judge, Tick

-----------------------------------------------------------------------------
(* An outage is waited for once. *)

\* The last attempt is no later than now, and the latest.
LEMMA NextAttempt ==
  ASSUME PriceTypeOK, NowIsRecent, AttemptIsLast, [PriceNext]_price_vars
  PROVE  AttemptIsLast'
<1> USE PriceAssumption DEF PriceTypeOK, AttemptIsLast, Goto, Quotes, Stamps, Never
<1>1. ASSUME NEW r \in Callers, Attempt(r) PROVE AttemptIsLast'
  BY <1>1 DEF Attempt, NowIsRecent
<1>2. ASSUME NEW r \in Callers, Fetched(r) PROVE AttemptIsLast'
  BY <1>2 DEF Fetched
<1>3. ASSUME NEW r \in Callers, FetchFailed(r) PROVE AttemptIsLast'
  BY <1>3 DEF FetchFailed
<1>4. ASSUME NEW r \in Callers,
             Ask(r) \/ CheckBackoff(r) \/ UseFallback(r) \/ Judge(r) \/ Read(r)
      PROVE  AttemptIsLast'
  BY <1>4 DEF Ask, CheckBackoff, UseFallback, Judge, Read
<1>5. CASE Tick
  BY <1>5 DEF Tick
<1>6. CASE UNCHANGED price_vars
  BY <1>6 DEF price_vars
<1> QED BY <1>1, <1>2, <1>3, <1>4, <1>5, <1>6 DEF PriceNext

\* Whoever may attempt has not come within the back-off, and nobody is spared meanwhile.
LEMMA NextSpared ==
  ASSUME PriceTypeOK, NowIsRecent, AttemptIsLast, SparedWillFind, OutageIsWaitedForOnce, [PriceNext]_price_vars
  PROVE  SparedWillFind' /\ OutageIsWaitedForOnce'
<1> USE PriceAssumption
    DEF PriceTypeOK, SparedWillFind, OutageIsWaitedForOnce, MayAttempt, Goto, Quotes, Stamps, Never
<1>1. ASSUME NEW r \in Callers, Ask(r) PROVE SparedWillFind' /\ OutageIsWaitedForOnce'
  BY <1>1 DEF Ask, AttemptIsLast
<1>2. ASSUME NEW r \in Callers, Attempt(r) PROVE SparedWillFind' /\ OutageIsWaitedForOnce'
  BY <1>2 DEF Attempt, AttemptIsLast, NowIsRecent
<1>3. ASSUME NEW r \in Callers,
             CheckBackoff(r) \/ Fetched(r) \/ FetchFailed(r) \/ UseFallback(r) \/ Judge(r) \/ Read(r)
      PROVE  SparedWillFind' /\ OutageIsWaitedForOnce'
  BY <1>3 DEF CheckBackoff, Fetched, FetchFailed, UseFallback, Judge, Read
<1>4. CASE Tick
  BY <1>4 DEF Tick
<1>5. CASE UNCHANGED price_vars
  BY <1>5 DEF price_vars
<1> QED BY <1>1, <1>2, <1>3, <1>4, <1>5 DEF PriceNext

\* The invariant is inductive.
LEMMA NextPriceIInv == PriceIInv /\ [PriceNext]_price_vars => PriceIInv'
BY NextPriceTyped, NextNow, NextLive, NextRead, NextPaid, NextAttempt, NextSpared DEF PriceIInv

-----------------------------------------------------------------------------
\* A live price that is paid at is no older than the limit and the time one fetch takes,
\* whoever overwrites the cache between a caller's look at its age and its look at the
\* price (btc_service.py:68-91).
THEOREM PaidAtRecent == PriceSpec => []PaidIsRecent
<1>1. PriceIInv => PaidIsRecent
  BY DEF PriceIInv
<1> QED BY <1>1, InitPriceIInv, NextPriceIInv, PTL DEF PriceSpec

\* A caller that comes within the back-off of a failed attempt never waits for the network,
\* however many attempts overlap (btc_service.py:94-102).
THEOREM OutageWaitedForOnce == PriceSpec => []OutageIsWaitedForOnce
<1>1. PriceIInv => OutageIsWaitedForOnce
  BY DEF PriceIInv
<1> QED BY <1>1, InitPriceIInv, NextPriceIInv, PTL DEF PriceSpec

\* What a sweep is about to fire has been pending, and has been deleted since at most.
FiringWerePending ==
  /\ worker = "read" => \A a \in firing : alert[a].state \in {"pending", "deleted"}
  /\ worker # "read" => firing = {}

Fetchings == {"live", "old", "overwritten"}

\* Once a price has been fetched the cache is never without: what is judged live, the price
\* a sweep goes by then, and its alerts, whose targets that price has crossed.
FiringCrossed ==
  /\ worker = "judged" => market.source \in Fetchings
  /\ worker \in {"priced", "read"} => quote.source \in Fetchings
  /\ \A a \in firing : alert[a].state = "pending" => Crossed(alert[a], quote.price)

\* A creation that nothing has overlapped is its user's only one, and what it has counted
\* has not grown.
RoomForAlone ==
  \A r \in Requests :
    pc[r] = "insert" /\ alone[r] =>
      /\ Creating(user[r]) = {r}
      /\ Cardinality(AlertsOf(user[r])) < MaxAlerts

PendingFinite == IsFiniteSet(Unfired)

IInv ==
  /\ TypeOK
  /\ FiringWerePending /\ ToldOnce
  /\ FiringCrossed /\ FiredAtCrossing
  /\ PendingFinite /\ RoomForAlone /\ CapKept

-----------------------------------------------------------------------------
(* Types. *)

\* What stands for no user, no alert and no price is well typed.
LEMMA NothingTyped ==
  /\ AnyUser \in Users /\ AnyAlert \in AlertIds
  /\ Unpriced \in Price /\ NoAlert \in Alert /\ Deleted \in Alert
BY AlertsAssumption DEF AnyUser, AnyAlert, Unpriced, Price, NoAlert, Deleted, Alert

\* The rows keep their type when their state changes, and a new one has it.
LEMMA RowsTyped ==
  ASSUME NEW row \in Alert,
         NEW state \in {"none", "pending", "fired", "deleted"}
  PROVE  [row EXCEPT !.state = state] \in Alert
BY DEF Alert

\* The worker starts with no alert, no request and a well-typed price.
LEMMA InitTyped == Init => TypeOK
<1> SUFFICES ASSUME Init PROVE TypeOK
  OBVIOUS
<1>1. alert \in [AlertIds -> Alert]
  BY NothingTyped DEF Init
<1> QED BY <1>1, NothingTyped DEF Init, TypeOK

\* A request that is answered, or that the restart drops, leaves its own state well typed.
LEMMA AnswerTyped ==
  ASSUME TypeOK, NEW r \in Requests, Answer(r)
  PROVE  /\ pc' \in [Requests -> {"new", "insert", "delete", "done"}]
         /\ user' \in [Requests -> Users] /\ id' \in [Requests -> AlertIds]
         /\ alone' \in [Requests -> BOOLEAN]
BY NothingTyped DEF TypeOK, Answer

\* No step leaves the types.
LEMMA NextTyped ==
  ASSUME TypeOK, [Next]_vars
  PROVE  TypeOK'
<1> USE DEF TypeOK
<1>0. CASE JudgePrice
  BY <1>0 DEF JudgePrice, requests, pricing
<1>1. CASE TakePrice
  BY <1>1 DEF TakePrice, requests, pricing
<1>2. CASE ReadPending
  BY <1>2 DEF ReadPending, Unfired, requests, pricing
<1>3. CASE CommitFired
  <2>1. CASE \E a \in firing : alert[a].state = "deleted"
    BY <1>3, <2>1, NothingTyped
       DEF CommitFired, SweepFailed, Asleep, requests, pricing
  <2>2. CASE ~ \E a \in firing : alert[a].state = "deleted"
    <3>1. ASSUME NEW a \in AlertIds
          PROVE  [alert[a] EXCEPT !.state = "fired"] \in Alert
      BY RowsTyped
    <3>2. alert' = [a \in AlertIds |-> IF a \in firing
                     THEN [alert[a] EXCEPT !.state = "fired"] ELSE alert[a]]
      BY <1>3, <2>2 DEF CommitFired
    <3>3. alert' \in [AlertIds -> Alert]
      BY <3>1, <3>2
    <3>4. sent' \in [AlertIds -> Nat]
      <4>1. sent' = [a \in AlertIds |-> IF a \in firing THEN sent[a] + 1 ELSE sent[a]]
        BY <1>3, <2>2 DEF CommitFired
      <4> QED BY <4>1
    <3>5. firedAt' \in [AlertIds -> Price]
      <4>1. firedAt' = [a \in AlertIds |-> IF a \in firing THEN quote ELSE firedAt[a]]
        BY <1>3, <2>2 DEF CommitFired
      <4> QED BY <4>1
    <3>6. Asleep /\ UNCHANGED <<pricing, requests, open>>
      BY <1>3, <2>2 DEF CommitFired
    <3> QED BY <3>3, <3>4, <3>5, <3>6, NothingTyped DEF Asleep, requests, pricing
  <2> QED BY <2>1, <2>2
<1>4. ASSUME NEW r \in Requests, CreateCount(r)
      PROVE  TypeOK'
  <2>1. /\ pc' \in [Requests -> {"new", "insert", "delete", "done"}]
        /\ user' \in [Requests -> Users] /\ id' \in [Requests -> AlertIds]
        /\ alone' \in [Requests -> BOOLEAN]
    <3>1. PICK u \in open :
            \/ Answer(r)
            \/ /\ pc' = [pc EXCEPT ![r] = "insert"]
               /\ user' = [user EXCEPT ![r] = u]
               /\ alone' = [q \in Requests |-> IF q = r THEN Creating(u) = {}
                                               ELSE alone[q] /\ q \notin Creating(u)]
               /\ UNCHANGED id
      BY <1>4 DEF CreateCount
    <3>2. CASE Answer(r)
      BY <3>2, AnswerTyped
    <3>3. CASE ~ Answer(r)
      BY <3>1, <3>3
    <3> QED BY <3>2, <3>3
  <2> QED BY <1>4, <2>1 DEF CreateCount, sweep, pricing
<1>5. ASSUME NEW r \in Requests, CreateInsert(r)
      PROVE  TypeOK'
  <2>1. alert' \in [AlertIds -> Alert]
    <3>1. CASE user[r] \notin open
      BY <1>5, <3>1 DEF CreateInsert
    <3>2. CASE user[r] \in open
      <4>1. PICK a \in AlertIds, l \in Levels :
              alert' = [alert EXCEPT ![a] =
                [state |-> "pending", owner |-> user[r], target |-> l.target,
                 direction |-> l.direction, alone |-> alone[r]]]
        BY <1>5, <3>2 DEF CreateInsert
      <4>2. [state |-> "pending", owner |-> user[r], target |-> l.target,
             direction |-> l.direction, alone |-> alone[r]] \in Alert
        BY AlertsAssumption DEF Alert
      <4> QED BY <4>1, <4>2
    <3> QED BY <3>1, <3>2
  <2> QED BY <1>5, <2>1, AnswerTyped DEF CreateInsert, sweep, pricing
<1>6. ASSUME NEW r \in Requests, DeleteFind(r)
      PROVE  TypeOK'
  BY <1>6 DEF DeleteFind, Arrives, sweep, pricing
<1>7. ASSUME NEW r \in Requests, DeleteCommit(r)
      PROVE  TypeOK'
  <2>1. alert' \in [AlertIds -> Alert]
    BY <1>7, NothingTyped DEF DeleteCommit
  <2> QED BY <1>7, <2>1, AnswerTyped DEF DeleteCommit, sweep, pricing
<1>8. ASSUME NEW r \in Requests, CloseAccount(r)
      PROVE  TypeOK'
  <2>1. alert' \in [AlertIds -> Alert]
    <3>1. PICK u \in open : alert' = [a \in AlertIds |->
                   IF alert[a].owner = u /\ alert[a].state # "none"
                     THEN Deleted ELSE alert[a]]
      BY <1>8 DEF CloseAccount
    <3> QED BY <3>1, NothingTyped
  <2>2. open' \subseteq Users
    BY <1>8 DEF CloseAccount
  <2> QED BY <1>8, <2>1, <2>2, AnswerTyped DEF CloseAccount, sweep, pricing
<1>9. CASE PriceFetched \/ PriceAges \/ NeverFetched \/ FallbackWritten
  <2>1. market' \in Price /\ doomed' \in BOOLEAN
    <3>1. CASE PriceFetched
      BY <3>1 DEF PriceFetched, Price
    <3>2. CASE PriceAges
      BY <3>2 DEF PriceAges, Price
    <3>3. CASE NeverFetched
      BY <3>3 DEF NeverFetched
    <3>4. CASE FallbackWritten
      BY <3>4, AlertsAssumption DEF FallbackWritten, Price
    <3> QED BY <1>9, <3>1, <3>2, <3>3, <3>4
  <2>2. UNCHANGED <<alert, sent, sweep, requests, open, firedAt>>
    BY <1>9 DEF PriceFetched, PriceAges, NeverFetched, FallbackWritten
  <2> QED BY <2>1, <2>2 DEF sweep, requests
<1>10. CASE Restart
  BY <1>10, NothingTyped DEF Restart, Asleep
<1>11. CASE UNCHANGED vars
  BY <1>11 DEF vars, sweep, requests, pricing
<1> QED BY <1>0, <1>1, <1>2, <1>3, <1>4, <1>5, <1>6, <1>7, <1>8, <1>9, <1>10, <1>11
        DEF Next, Sweep

-----------------------------------------------------------------------------
(* How many alerts a user may have. *)

AloneOf(u) == {a \in AlertsOf(u) : alert[a].alone}

\* A member's alerts, and those made without an overlap, are finitely many: they can be counted.
LEMMA UnfiredFinite ==
  ASSUME PendingFinite, NEW u
  PROVE  /\ IsFiniteSet(AlertsOf(u)) /\ IsFiniteSet(AloneOf(u))
         /\ Cardinality(AlertsOf(u)) \in Nat /\ Cardinality(AloneOf(u)) \in Nat
         /\ Cardinality(AloneOf(u)) <= Cardinality(AlertsOf(u))
<1>1. AlertsOf(u) \subseteq Unfired /\ AloneOf(u) \subseteq AlertsOf(u)
  BY DEF AlertsOf, AloneOf
<1>2. IsFiniteSet(AlertsOf(u)) /\ IsFiniteSet(AloneOf(u))
  BY <1>1, FS_Subset DEF PendingFinite
<1> QED BY <1>1, <1>2, FS_Subset, FS_CardinalityType

\* A step after which fewer alerts are pending, of the same owners, and no creation has
\* come further keeps to the cap.
LEMMA FewerKeepCap ==
  ASSUME IInv, Unfired' \subseteq Unfired,
         \A a \in Unfired' : alert'[a].owner = alert[a].owner /\ alert'[a].alone = alert[a].alone,
         \A r \in Requests : pc'[r] = "insert" =>
           pc[r] = "insert" /\ user'[r] = user[r] /\ (alone'[r] => alone[r])
  PROVE  PendingFinite' /\ RoomForAlone' /\ CapKept'
<1>1. PendingFinite'
  BY FS_Subset DEF IInv, PendingFinite
<1>2. ASSUME NEW u \in Users
      PROVE  /\ Cardinality(AlertsOf(u)') <= Cardinality(AlertsOf(u))
             /\ Cardinality(AloneOf(u)') <= Cardinality(AloneOf(u))
  <2>1. AlertsOf(u)' \subseteq AlertsOf(u) /\ AloneOf(u)' \subseteq AloneOf(u)
    BY DEF AlertsOf, AloneOf
  <2> QED BY <2>1, UnfiredFinite, FS_Subset DEF IInv
<1>3. CapKept'
  <2>1. ASSUME NEW u \in Users PROVE Cardinality(AloneOf(u)') <= MaxAlerts
    <3>1. Cardinality(AloneOf(u)) <= MaxAlerts
      BY DEF IInv, CapKept, AloneOf
    <3>2. Cardinality(AloneOf(u)') \in Nat
      BY <1>1, UnfiredFinite, FS_Subset, FS_CardinalityType DEF AlertsOf, AloneOf, PendingFinite
    <3> QED BY <1>2, <3>1, <3>2, UnfiredFinite, AlertsAssumption DEF IInv
  <2> QED BY <2>1 DEF CapKept, AloneOf
<1>4. RoomForAlone'
  <2> SUFFICES ASSUME NEW r \in Requests, pc'[r] = "insert", alone'[r]
               PROVE  Creating(user[r])' = {r} /\ Cardinality(AlertsOf(user[r])') < MaxAlerts
    BY DEF RoomForAlone
  <2>1. pc[r] = "insert" /\ user'[r] = user[r] /\ alone[r] /\ user[r] \in Users
    BY DEF IInv, TypeOK
  <2>2. Creating(user[r]) = {r} /\ Cardinality(AlertsOf(user[r])) < MaxAlerts
    BY <2>1 DEF IInv, RoomForAlone
  <2>3. Creating(user[r])' = {r}
    BY <2>1, <2>2 DEF Creating
  <2>4. Cardinality(AlertsOf(user[r])') <= Cardinality(AlertsOf(user[r]))
    BY <1>2, <2>1
  <2>5. Cardinality(AlertsOf(user[r])') \in Nat /\ Cardinality(AlertsOf(user[r])) \in Nat
    <3>1. AlertsOf(user[r])' \subseteq Unfired'
      BY DEF AlertsOf
    <3> QED BY <1>1, <3>1, UnfiredFinite, FS_Subset, FS_CardinalityType DEF IInv, PendingFinite
  <2> QED BY <2>2, <2>3, <2>4, <2>5, AlertsAssumption
<1> QED BY <1>1, <1>3, <1>4

-----------------------------------------------------------------------------
(* The steps. *)

\* The invariant holds of a process that has just started.
LEMMA InitIInv == Init => IInv
<1> SUFFICES ASSUME Init PROVE IInv
  OBVIOUS
<1>1. Unfired = {}
  BY DEF Init, Unfired, NoAlert
<1>2. PendingFinite /\ RoomForAlone /\ CapKept
  <2>1. ASSUME NEW u \in Users PROVE Cardinality(AloneOf(u)) <= MaxAlerts
    <3>1. AloneOf(u) = {}
      BY <1>1 DEF AlertsOf, AloneOf
    <3> QED BY <3>1, FS_EmptySet, AlertsAssumption
  <2>2. CapKept
    BY <2>1 DEF CapKept, AloneOf
  <2>3. PendingFinite /\ RoomForAlone
    BY <1>1, FS_EmptySet DEF Init, PendingFinite, RoomForAlone
  <2> QED BY <2>2, <2>3
<1>3. FiringWerePending /\ ToldOnce /\ FiringCrossed /\ FiredAtCrossing
  BY DEF Init, NoAlert, FiringWerePending, ToldOnce, FiringCrossed, FiredAtCrossing
<1> QED BY <1>2, <1>3, InitTyped DEF IInv

\* What the worker does leaves what concerns the cap alone, or has alerts fire.
LEMMA SweepIInv ==
  ASSUME IInv, Sweep, TypeOK'
  PROVE  IInv'
<1> USE DEF IInv, TypeOK
<1>0. CASE JudgePrice
  <2>1. PendingFinite' /\ RoomForAlone' /\ CapKept'
    BY <1>0, FewerKeepCap DEF JudgePrice, Unfired, requests
  <2>2. FiringWerePending' /\ ToldOnce' /\ FiringCrossed' /\ FiredAtCrossing'
    BY <1>0 DEF JudgePrice, MaySweep, pricing, FiringWerePending, ToldOnce, FiringCrossed,
                Fetchings, FiredAtCrossing, Crossed
  <2> QED BY <2>1, <2>2
<1>1. CASE TakePrice
  <2>1. PendingFinite' /\ RoomForAlone' /\ CapKept'
    BY <1>1, FewerKeepCap DEF TakePrice, Unfired, requests
  <2>2. FiringWerePending' /\ ToldOnce' /\ FiringCrossed' /\ FiredAtCrossing'
    BY <1>1 DEF TakePrice, pricing, FiringWerePending, ToldOnce, FiringCrossed,
                FiredAtCrossing, Crossed
  <2> QED BY <2>1, <2>2
<1>2. CASE ReadPending
  <2>1. PendingFinite' /\ RoomForAlone' /\ CapKept'
    BY <1>2, FewerKeepCap DEF ReadPending, Unfired, requests
  <2>2. FiringWerePending' /\ ToldOnce' /\ FiringCrossed' /\ FiredAtCrossing'
    BY <1>2 DEF ReadPending, Unfired, pricing, FiringWerePending, ToldOnce, FiringCrossed,
                FiredAtCrossing, Crossed
  <2> QED BY <2>1, <2>2
<1>3. CASE CommitFired
  <2>1. Asleep /\ UNCHANGED requests
    BY <1>3 DEF CommitFired, SweepFailed
  <2>2. CASE \E a \in firing : alert[a].state = "deleted"
    <3>1. UNCHANGED <<alert, sent, firedAt>>
      BY <1>3, <2>2 DEF CommitFired
    <3>2. PendingFinite' /\ RoomForAlone' /\ CapKept'
      BY <2>1, <3>1, FewerKeepCap DEF Unfired, requests
    <3>3. FiringWerePending' /\ ToldOnce' /\ FiringCrossed' /\ FiredAtCrossing'
      BY <2>1, <3>1 DEF Asleep, FiringWerePending, ToldOnce, FiringCrossed, FiredAtCrossing,
                        Crossed
    <3> QED BY <3>2, <3>3
  <2>3. CASE ~ \E a \in firing : alert[a].state = "deleted"
    <3>1. /\ alert' = [a \in AlertIds |-> IF a \in firing
                        THEN [alert[a] EXCEPT !.state = "fired"] ELSE alert[a]]
          /\ sent' = [a \in AlertIds |-> IF a \in firing THEN sent[a] + 1 ELSE sent[a]]
          /\ firedAt' = [a \in AlertIds |-> IF a \in firing THEN quote ELSE firedAt[a]]
      BY <1>3, <2>3 DEF CommitFired
    <3>2. worker = "read" /\ \A a \in firing : alert[a].state = "pending"
      BY <1>3, <2>3 DEF CommitFired, FiringWerePending
    <3>3. ASSUME NEW a \in AlertIds
          PROVE  /\ alert'[a].target = alert[a].target /\ alert'[a].owner = alert[a].owner
                 /\ alert'[a].direction = alert[a].direction
                 /\ alert'[a].alone = alert[a].alone
                 /\ alert'[a].state = IF a \in firing THEN "fired" ELSE alert[a].state
      BY <3>1 DEF Alert
    <3>4. PendingFinite' /\ RoomForAlone' /\ CapKept'
      BY <2>1, <3>3, FewerKeepCap DEF Unfired, requests
    <3>5. ToldOnce'
      BY <3>1, <3>2, <3>3 DEF ToldOnce
    <3>6. FiredAtCrossing'
      BY <3>1, <3>2, <3>3 DEF FiringCrossed, Fetchings, FiredAtCrossing, Crossed
    <3>7. FiringWerePending' /\ FiringCrossed'
      BY <2>1 DEF Asleep, FiringWerePending, FiringCrossed
    <3> QED BY <3>4, <3>5, <3>6, <3>7
  <2> QED BY <2>2, <2>3
<1> QED BY <1>0, <1>1, <1>2, <1>3 DEF Sweep

\* The alerts that a sweep is about to fire keep what it has read, whatever requests delete.
LEMMA DeletedKeep ==
  ASSUME IInv, UNCHANGED <<market, sweep, sent, firedAt>>,
         \A a \in AlertIds : alert'[a] = alert[a] \/ alert'[a].state = "deleted"
  PROVE  FiringWerePending' /\ ToldOnce' /\ FiringCrossed' /\ FiredAtCrossing'
<1>1. /\ market' = market /\ worker' = worker /\ quote' = quote /\ firing' = firing
      /\ firing \subseteq AlertIds
      /\ FiringWerePending /\ ToldOnce /\ FiringCrossed /\ FiredAtCrossing
  BY DEF IInv, TypeOK, sweep
<1>2. FiringWerePending'
  BY ONLY <1>1, \A a \in AlertIds : alert'[a] = alert[a] \/ alert'[a].state = "deleted"
     DEF FiringWerePending
<1>3. ToldOnce'
  <2>1. ASSUME NEW a \in AlertIds
        PROVE  /\ alert'[a].state = "fired" => sent'[a] = 1
               /\ alert'[a].state \in {"none", "pending"} => sent'[a] = 0
               /\ sent'[a] <= 1
    BY <1>1 DEF ToldOnce
  <2> QED BY <2>1 DEF ToldOnce
<1>4. ASSUME NEW a \in AlertIds, alert'[a].state # "deleted", NEW price
      PROVE  Crossed(alert[a], price) <=> Crossed(alert'[a], price)
  BY <1>4 DEF Crossed
<1>5. FiringCrossed'
  BY <1>1, <1>4 DEF FiringCrossed
<1>6. FiredAtCrossing'
  <2>1. ASSUME NEW a \in AlertIds, alert'[a].state = "fired"
        PROVE  /\ Crossed(alert'[a], firedAt'[a].price)
               /\ firedAt'[a].source \in {"live", "old", "overwritten"}
    BY <1>1, <1>4, <2>1 DEF FiredAtCrossing
  <2> QED BY <2>1 DEF FiredAtCrossing
<1> QED BY <1>2, <1>3, <1>5, <1>6

\* The count of a creation (notifications.py:26-31) overlaps every other creation of its user.
LEMMA CreateCountIInv ==
  ASSUME IInv, NEW r \in Requests, CreateCount(r), TypeOK'
  PROVE  IInv'
<1> USE DEF IInv, TypeOK
<1>1. PICK u \in open :
        /\ pc[r] = "new"
        /\ \/ AtCap(u) /\ Answer(r)
           \/ /\ ~ AtCap(u)
              /\ pc' = [pc EXCEPT ![r] = "insert"]
              /\ user' = [user EXCEPT ![r] = u]
              /\ alone' = [q \in Requests |-> IF q = r THEN Creating(u) = {}
                                              ELSE alone[q] /\ q \notin Creating(u)]
        /\ UNCHANGED <<market, alert, sent, sweep, firedAt>>
  BY DEF CreateCount, Arrives, pricing
<1>2. FiringWerePending' /\ ToldOnce' /\ FiringCrossed' /\ FiredAtCrossing'
  BY <1>1, DeletedKeep
<1>3. CASE Answer(r)
  BY <1>1, <1>2, <1>3, FewerKeepCap DEF Answer, Unfired
<1>4. CASE ~ Answer(r)
  <2>1. UNCHANGED alert
    BY <1>1
  <2>2. PendingFinite' /\ CapKept'
    <3>1. Unfired' = Unfired /\ \A v : AlertsOf(v)' = AlertsOf(v)
      BY <2>1, Zenon DEF Unfired, AlertsOf
    <3>2. \A v : {a \in AlertsOf(v) : alert[a].alone}' = {a \in AlertsOf(v) : alert[a].alone}
      BY ONLY <2>1, <3>1, Zenon
    <3> QED BY ONLY <3>1, <3>2, PendingFinite, CapKept, Zenon DEF PendingFinite, CapKept
  <2>3. ASSUME NEW q \in Requests, pc'[q] = "insert", alone'[q]
        PROVE  Creating(user[q])' = {q} /\ Cardinality(AlertsOf(user[q])') < MaxAlerts
    <3>1. CASE q = r
      <4>1. user'[q] = u /\ Creating(u) = {}
        BY <1>1, <1>4, <2>3, <3>1
      <4>2. Creating(user[q])' = {q}
        BY <1>1, <1>4, <3>1, <4>1 DEF Creating
      <4>3. Cardinality(AlertsOf(u)) < MaxAlerts
        BY <1>1, <1>4, UnfiredFinite, AlertsAssumption DEF AtCap
      <4>4. AlertsOf(user[q])' = AlertsOf(u)
        BY <2>1, <4>1 DEF AlertsOf, Unfired
      <4> QED BY <4>2, <4>3, <4>4
    <3>2. CASE q # r
      <4>1. pc[q] = "insert" /\ user'[q] = user[q] /\ alone[q] /\ q \notin Creating(u)
        BY <1>1, <1>4, <2>3, <3>2
      <4>2. Creating(user[q]) = {q} /\ user[q] # u
        BY <4>1 DEF RoomForAlone, Creating
      <4>3. Creating(user[q])' = {q}
        BY <1>1, <1>4, <3>2, <4>1, <4>2 DEF Creating
      <4>4. AlertsOf(user[q])' = AlertsOf(user[q])
        BY <2>1, <4>1 DEF AlertsOf, Unfired
      <4> QED BY <4>1, <4>3, <4>4 DEF RoomForAlone
    <3> QED BY <3>1, <3>2
  <2>4. RoomForAlone'
    BY <2>3 DEF RoomForAlone
  <2> QED BY <1>2, <2>2, <2>4
<1> QED BY <1>3, <1>4

\* The one creation that inserts adds an alert of its user, for which there is room if it
\* is alone.
LEMMA CreateInsertIInv ==
  ASSUME IInv, NEW r \in Requests, CreateInsert(r), TypeOK'
  PROVE  IInv'
<1> USE DEF IInv, TypeOK
<1>1. pc[r] = "insert" /\ Answer(r) /\ UNCHANGED <<market, sent, sweep, firedAt>>
  BY DEF CreateInsert, pricing
<1>2. CASE user[r] \notin open
  <2>1. UNCHANGED alert
    BY <1>2 DEF CreateInsert
  <2>2. FiringWerePending' /\ ToldOnce' /\ FiringCrossed' /\ FiredAtCrossing'
    BY <1>1, <2>1, DeletedKeep
  <2> QED BY <1>1, <2>1, <2>2, FewerKeepCap DEF Answer, Unfired
<1>3. CASE user[r] \in open
  <2>1. PICK a \in AlertIds, l \in Levels :
          /\ alert[a].state = "none"
          /\ alert' = [alert EXCEPT ![a] =
               [state |-> "pending", owner |-> user[r], target |-> l.target,
                direction |-> l.direction, alone |-> alone[r]]]
    BY <1>3 DEF CreateInsert
  <2>2. a \notin firing
    BY <2>1 DEF FiringWerePending
  <2>3. FiringWerePending' /\ ToldOnce' /\ FiringCrossed' /\ FiredAtCrossing'
    BY <1>1, <2>1, <2>2
       DEF sweep, FiringWerePending, ToldOnce, FiringCrossed, FiredAtCrossing, Crossed
  <2>4. Unfired' = Unfired \cup {a} /\ a \notin Unfired
    BY <2>1 DEF Unfired
  <2>5. PendingFinite'
    BY <2>4, FS_AddElement DEF PendingFinite
  <2>6. PICK u \in Users : u = user[r]
    OBVIOUS
  <2>7. ASSUME NEW v \in Users, v # u
        PROVE  AlertsOf(v)' = AlertsOf(v) /\ AloneOf(v)' = AloneOf(v)
    BY <2>1, <2>4, <2>6, <2>7 DEF AlertsOf, AloneOf
  <2>8. AlertsOf(u)' = AlertsOf(u) \cup {a} /\ a \notin AlertsOf(u)
    BY <2>1, <2>4, <2>6 DEF AlertsOf
  <2>9. Cardinality(AloneOf(u)') <= MaxAlerts
    <3>1. CASE alone[r]
      <4>1. Cardinality(AlertsOf(u)) < MaxAlerts
        BY <1>1, <2>6, <3>1 DEF RoomForAlone
      <4>2. Cardinality(AlertsOf(u)') = Cardinality(AlertsOf(u)) + 1
        <5>1. IsFiniteSet(AlertsOf(u))
          BY UnfiredFinite
        <5>2. Cardinality(AlertsOf(u) \cup {a}) = Cardinality(AlertsOf(u)) + 1
          BY <2>8, <5>1, FS_AddElement
        <5> QED BY <2>8, <5>2
      <4>3. AloneOf(u)' \subseteq AlertsOf(u)'
        BY DEF AloneOf
      <4>4. IsFiniteSet(AlertsOf(u)')
        BY <2>8, UnfiredFinite, FS_AddElement
      <4>5. Cardinality(AloneOf(u)') <= Cardinality(AlertsOf(u)')
        BY <4>3, <4>4, FS_Subset
      <4>6. Cardinality(AloneOf(u)') \in Nat
        BY <4>3, <4>4, FS_Subset, FS_CardinalityType
      <4> QED BY <4>1, <4>2, <4>5, <4>6, UnfiredFinite, AlertsAssumption
    <3>2. CASE ~ alone[r]
      <4>1. AloneOf(u)' = AloneOf(u)
        BY <2>1, <2>8, <3>2 DEF AloneOf, AlertsOf
      <4> QED BY <4>1 DEF CapKept, AloneOf
    <3> QED BY <3>1, <3>2
  <2>10. CapKept'
    <3>1. ASSUME NEW v \in Users PROVE Cardinality(AloneOf(v)') <= MaxAlerts
      BY <2>7, <2>9 DEF CapKept, AloneOf
    <3> QED BY <3>1 DEF CapKept, AloneOf
  <2>11. ASSUME NEW q \in Requests, pc'[q] = "insert", alone'[q]
         PROVE  Creating(user[q])' = {q} /\ Cardinality(AlertsOf(user[q])') < MaxAlerts
    <3>1. /\ pc[q] = "insert" /\ user'[q] = user[q] /\ alone[q] /\ q # r
          /\ user[q] \in Users
      BY <1>1, <2>11 DEF Answer
    <3>2. Creating(user[q]) = {q}
      BY <3>1 DEF RoomForAlone
    <3>3. user[q] # u
      BY <1>1, <2>6, <3>1, <3>2 DEF Creating
    <3>4. Creating(user[q])' = {q}
      BY <1>1, <3>1, <3>2 DEF Creating, Answer
    <3>5. AlertsOf(user[q])' = AlertsOf(user[q])
      BY <2>1, <2>4, <2>6, <3>1, <3>3 DEF AlertsOf
    <3> QED BY <3>1, <3>4, <3>5 DEF RoomForAlone
  <2> QED BY <2>3, <2>5, <2>10, <2>11 DEF RoomForAlone
<1> QED BY <1>2, <1>3

\* Every step keeps the invariant.
LEMMA NextIInv ==
  ASSUME IInv, [Next]_vars
  PROVE  IInv'
<1> USE DEF IInv, TypeOK
<1>0. TypeOK'
  BY NextTyped
<1>1. CASE Sweep
  BY <1>0, <1>1, SweepIInv
<1>2. ASSUME NEW r \in Requests, CreateCount(r) PROVE IInv'
  BY <1>0, <1>2, CreateCountIInv
<1>3. ASSUME NEW r \in Requests, CreateInsert(r) PROVE IInv'
  BY <1>0, <1>3, CreateInsertIInv
<1>4. ASSUME NEW r \in Requests, DeleteFind(r) PROVE IInv'
  <2>1. UNCHANGED <<market, alert, sent, sweep, alone, firedAt>>
    BY <1>4 DEF DeleteFind, pricing
  <2>2. \A q \in Requests : pc'[q] = "insert" => pc[q] = "insert" /\ user'[q] = user[q]
    BY <1>4 DEF DeleteFind, Arrives
  <2>3. PendingFinite' /\ RoomForAlone' /\ CapKept'
    BY <2>1, <2>2, FewerKeepCap DEF Unfired
  <2> QED BY <1>0, <2>1, <2>3, DeletedKeep
<1>5. ASSUME NEW r \in Requests, DeleteCommit(r) PROVE IInv'
  <2>1. ASSUME NEW a \in AlertIds
        PROVE  alert'[a] = alert[a] \/ alert'[a].state = "deleted"
    BY <1>5 DEF DeleteCommit, Deleted
  <2>2. Answer(r) /\ UNCHANGED <<market, sent, sweep, firedAt>>
    BY <1>5 DEF DeleteCommit, pricing
  <2>3. PendingFinite' /\ RoomForAlone' /\ CapKept'
    BY <2>1, <2>2, FewerKeepCap DEF Answer, Unfired
  <2> QED BY <1>0, <2>1, <2>2, <2>3, DeletedKeep
<1>6. ASSUME NEW r \in Requests, CloseAccount(r) PROVE IInv'
  <2>1. ASSUME NEW a \in AlertIds
        PROVE  alert'[a] = alert[a] \/ alert'[a].state = "deleted"
    BY <1>6 DEF CloseAccount, Deleted
  <2>2. Answer(r) /\ UNCHANGED <<market, sent, sweep, firedAt>>
    BY <1>6 DEF CloseAccount, pricing
  <2>3. PendingFinite' /\ RoomForAlone' /\ CapKept'
    BY <2>1, <2>2, FewerKeepCap DEF Answer, Unfired
  <2> QED BY <1>0, <2>1, <2>2, <2>3, DeletedKeep
<1>7. CASE PriceFetched \/ PriceAges \/ NeverFetched \/ FallbackWritten
  <2>1. UNCHANGED <<alert, sent, sweep, requests, firedAt>>
    BY <1>7 DEF PriceFetched, PriceAges, NeverFetched, FallbackWritten
  <2>2. PendingFinite' /\ RoomForAlone' /\ CapKept'
    BY <2>1, FewerKeepCap DEF requests, Unfired
  <2>3. market.source \in Fetchings => market'.source \in Fetchings
    BY <1>7 DEF PriceFetched, PriceAges, NeverFetched, FallbackWritten, Fetchings, Price
  <2>4. FiringWerePending' /\ ToldOnce' /\ FiringCrossed' /\ FiredAtCrossing'
    BY <2>1, <2>3 DEF sweep, FiringWerePending, ToldOnce, FiringCrossed, FiredAtCrossing,
                      Crossed
  <2> QED BY <1>0, <2>2, <2>4
<1>8. CASE Restart
  <2>1. PendingFinite' /\ RoomForAlone' /\ CapKept'
    BY <1>8, FewerKeepCap DEF Restart, Unfired
  <2>2. FiringWerePending' /\ ToldOnce' /\ FiringCrossed' /\ FiredAtCrossing'
    BY <1>8 DEF Restart, Asleep, FiringWerePending, ToldOnce, FiringCrossed,
                FiredAtCrossing, Crossed
  <2> QED BY <1>0, <2>1, <2>2
<1>9. CASE UNCHANGED vars
  <2>1. PendingFinite' /\ RoomForAlone' /\ CapKept'
    BY <1>9, FewerKeepCap DEF vars, requests, Unfired
  <2> QED BY <1>0, <1>9, <2>1, DeletedKeep DEF vars, pricing
<1> QED BY <1>1, <1>2, <1>3, <1>4, <1>5, <1>6, <1>7, <1>8, <1>9 DEF Next

-----------------------------------------------------------------------------
\* An alert tells its owner once, when it is triggered and never again, whatever is
\* deleted, fails or restarts in the middle of a sweep (services.py:108-134).
THEOREM AlertsTellOnce == Spec => []ToldOnce
<1>1. IInv => ToldOnce
  BY DEF IInv
<1> QED BY <1>1, InitIInv, NextIInv, PTL DEF Spec

\* An alert fires only at a price that has crossed its own target, and one that had been
\* fetched or was written over such a one: an outage alone fires nothing (main.py:80-91,
\* btc_service.py:79-91, services.py:119-123).
THEOREM AlertsFireAtCrossing == Spec => []FiredAtCrossing
<1>1. IInv => FiredAtCrossing
  BY DEF IInv
<1> QED BY <1>1, InitIInv, NextIInv, PTL DEF Spec

\* The alerts created by requests that have not overlapped are no more than the cap, in the
\* midst of sweeps, deletions and creations that do overlap (notifications.py:26-31).
THEOREM AlertsKeepCap == Spec => []CapKept
<1>1. IInv => CapKept
  BY DEF IInv
<1> QED BY <1>1, InitIInv, NextIInv, PTL DEF Spec
=============================================================================
