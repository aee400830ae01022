-------------------------------- MODULE Alerts --------------------------------
(***************************************************************************)
(* Price alerts: the worker of main.py that sweeps them, and the requests  *)
(* of app/routers/notifications.py that make and delete them meanwhile.    *)
(*                                                                         *)
(* The sweep and every request are READ COMMITTED transactions; a step     *)
(* ends where a query's answer can be out of date when it is used.  The    *)
(* cache of the price is what other threads make of it: PriceService has   *)
(* how, and here are the ways it can change under the worker.              *)
(***************************************************************************)
EXTENDS Integers, FiniteSets

CONSTANTS
  Users,
  AlertIds,      \* price_alerts.id
  Requests,      \* requests the clients make, numbered as they arrive
  Prices,
  Levels,        \* the targets and directions the alerts are made with
  FallbackPrice, \* settings.btc_price_fallback_usd
  MaxAlerts      \* MAX_ALERTS_PER_USER

ASSUME AlertsAssumption ==
  /\ Prices \subseteq Int /\ FallbackPrice \in Prices /\ MaxAlerts \in Nat
  /\ Levels \subseteq [target : Prices, direction : {"above", "below"}]
  /\ Users # {} /\ AlertIds # {} /\ AlertIds \subseteq Int
  /\ Requests \subseteq Int

\* Where the price in the cache comes from.  "old" was live and has passed its age;
\* "overwritten" is the fallback again, written over a price that had been fetched.
Price == [price : Prices, source : {"none", "live", "old", "fallback", "overwritten"}]

Alert == [state : {"none", "pending", "fired", "deleted"}, owner : Users,
          target : Prices, direction : {"above", "below"}, alone : BOOLEAN]

VARIABLES
  market,    \* _cache of btc_service: its price, and where it comes from
  doomed,    \* some thread has found no price at all, and is to write the fallback
  alert,     \* price_alerts
  sent,      \* notifications: how many each alert has caused
  worker,    \* where _alert_worker is
  quote,     \* the price its sweep goes by
  firing,    \* the alerts its sweep is about to commit as triggered
  pc,        \* per request: "new", "insert", "delete" or "done"
  user,      \* per request: who makes it
  id,        \* per request: the alert it makes or deletes
  alone,     \* history, per request: no other creation by its user has overlapped it
  open,      \* users whose account exists
  firedAt    \* history: the price each alert fired at

requests == <<pc, user, id, alone>>
sweep == <<worker, quote, firing>>
pricing == <<market, doomed>>
vars == <<pricing, alert, sent, sweep, requests, open, firedAt>>

TypeOK ==
  /\ market \in Price
  /\ doomed \in BOOLEAN
  /\ alert \in [AlertIds -> Alert]
  /\ sent \in [AlertIds -> Nat]
  /\ worker \in {"asleep", "judged", "priced", "read"}
  /\ quote \in Price
  /\ firing \subseteq AlertIds
  /\ pc \in [Requests -> {"new", "insert", "delete", "done"}]
  /\ user \in [Requests -> Users]
  /\ id \in [Requests -> AlertIds]
  /\ alone \in [Requests -> BOOLEAN]
  /\ open \subseteq Users
  /\ firedAt \in [AlertIds -> Price]

AnyUser == CHOOSE u \in Users : TRUE
AnyAlert == CHOOSE a \in AlertIds : TRUE
Unpriced == [price |-> FallbackPrice, source |-> "none"]

NoAlert == [state |-> "none", owner |-> AnyUser, target |-> FallbackPrice,
            direction |-> "above", alone |-> FALSE]
Deleted == [NoAlert EXCEPT !.state = "deleted"]

Init ==
  /\ market = Unpriced
  /\ doomed = FALSE
  /\ alert = [a \in AlertIds |-> NoAlert]
  /\ sent = [a \in AlertIds |-> 0]
  /\ worker = "asleep"
  /\ quote = Unpriced
  /\ firing = {}
  /\ pc = [r \in Requests |-> "new"]
  /\ user = [r \in Requests |-> AnyUser]
  /\ id = [r \in Requests |-> AnyAlert]
  /\ alone = [r \in Requests |-> FALSE]
  /\ open = Users
  /\ firedAt = [a \in AlertIds |-> Unpriced]

-----------------------------------------------------------------------------
(* The worker. *)

Asleep ==
  /\ worker' = "asleep"
  /\ quote' = Unpriced
  /\ firing' = {}

MaySweep_EvenStale(m) == TRUE

\* "Never a stale one."
MaySweep(m) == m.source = "live"

\* _sweep_alerts asks for a snapshot of the cache, which judges whether it is stale
JudgePrice ==
  /\ worker = "asleep"
  /\ MaySweep(market)
  /\ worker' = "judged"
  /\ UNCHANGED <<pricing, alert, sent, quote, firing, requests, open, firedAt>>

\* and then takes the price, whatever it is by now; a transaction is opened.
TakePrice ==
  /\ worker = "judged"
  /\ worker' = "priced"
  /\ quote' = market
  /\ UNCHANGED <<pricing, alert, sent, firing, requests, open, firedAt>>

Crossed(a, price) ==
  \/ a.direction = "above" /\ price >= a.target
  \/ a.direction = "below" /\ price <= a.target

Unfired_All == {a \in AlertIds : alert[a].state \in {"pending", "fired"}}

Unfired == {a \in AlertIds : alert[a].state = "pending"}

\* The pending alerts are read, and those the price has crossed are to fire.
ReadPending ==
  /\ worker = "priced"
  /\ worker' = "read"
  /\ firing' = {a \in Unfired : Crossed(alert[a], quote.price)}
  /\ UNCHANGED <<pricing, alert, sent, quote, requests, open, firedAt>>

SweepFailed_Dies == worker' = "dead" /\ UNCHANGED <<quote, firing>>

\* The worker survives a sweep that fails, and sleeps until the next.
SweepFailed == Asleep

\* One commit for all of them: it fails if one has been deleted meanwhile.
CommitFired ==
  /\ worker = "read"
  /\ IF \E a \in firing : alert[a].state = "deleted"
       THEN SweepFailed /\ UNCHANGED <<alert, sent, firedAt>>
       ELSE /\ alert' = [a \in AlertIds |-> IF a \in firing
                           THEN [alert[a] EXCEPT !.state = "fired"] ELSE alert[a]]
            /\ sent' = [a \in AlertIds |-> IF a \in firing THEN sent[a] + 1 ELSE sent[a]]
            /\ firedAt' = [a \in AlertIds |-> IF a \in firing THEN quote ELSE firedAt[a]]
            /\ Asleep
  /\ UNCHANGED <<pricing, requests, open>>

-----------------------------------------------------------------------------
(* The requests. *)

AlertsOf(u) == {a \in Unfired : alert[a].owner = u}

AtCap_OffByOne(u) == Cardinality(AlertsOf(u)) > MaxAlerts

AtCap(u) == Cardinality(AlertsOf(u)) >= MaxAlerts

Creating(u) == {q \in Requests : pc[q] = "insert" /\ user[q] = u}

\* r is answered; what it held is of no use any more.
Answer(r) ==
  /\ pc' = [pc EXCEPT ![r] = "done"]
  /\ user' = [user EXCEPT ![r] = AnyUser]
  /\ id' = [id EXCEPT ![r] = AnyAlert]
  /\ alone' = [alone EXCEPT ![r] = FALSE]

Arrives(r) == pc[r] = "new" /\ \A q \in Requests : q < r => pc[q] # "new"

\* POST /api/alerts counts the user's pending alerts,
CreateCount(r) ==
  \E u \in open :
    /\ Arrives(r)
    /\ \/ AtCap(u) /\ Answer(r)
       \/ /\ ~ AtCap(u)
          /\ pc' = [pc EXCEPT ![r] = "insert"]
          /\ user' = [user EXCEPT ![r] = u]
          /\ alone' = [q \in Requests |-> IF q = r THEN Creating(u) = {}
                                          ELSE alone[q] /\ q \notin Creating(u)]
          /\ UNCHANGED id
    /\ UNCHANGED <<pricing, alert, sent, sweep, open, firedAt>>

\* and inserts another, unless the account is gone by then.
CreateInsert(r) ==
  /\ pc[r] = "insert"
  /\ Answer(r)
  /\ IF user[r] \in open
       THEN \E a \in AlertIds, l \in Levels :
              /\ alert[a].state = "none"
              /\ \A b \in AlertIds : alert[b].state = "none" => a <= b
              /\ alert' = [alert EXCEPT ![a] =
                   [state |-> "pending", owner |-> user[r], target |-> l.target,
                    direction |-> l.direction, alone |-> alone[r]]]
       ELSE UNCHANGED alert
  /\ UNCHANGED <<pricing, sent, sweep, open, firedAt>>

\* DELETE /api/alerts/{id} finds the user's alert,
DeleteFind(r) ==
  \E u \in open, a \in AlertIds :
    /\ Arrives(r)
    /\ alert[a].owner = u /\ alert[a].state \in {"pending", "fired"}
    /\ pc' = [pc EXCEPT ![r] = "delete"]
    /\ user' = [user EXCEPT ![r] = u]
    /\ id' = [id EXCEPT ![r] = a]
    /\ UNCHANGED <<pricing, alert, sent, sweep, alone, open, firedAt>>

\* and deletes it, if it is there still.
DeleteCommit(r) ==
  /\ pc[r] = "delete"
  /\ Answer(r)
  /\ alert' = [alert EXCEPT ![id[r]] = Deleted]
  /\ UNCHANGED <<pricing, sent, sweep, open, firedAt>>

\* DELETE /api/auth/me takes the user's alerts with it; a deletion that fails, as when
\* another alert arrives meanwhile, changes nothing.
CloseAccount(r) ==
  \E u \in open :
    /\ Arrives(r)
    /\ Answer(r)
    /\ open' = open \ {u}
    /\ alert' = [a \in AlertIds |->
                   IF alert[a].owner = u /\ alert[a].state # "none"
                     THEN Deleted ELSE alert[a]]
    /\ UNCHANGED <<pricing, sent, sweep, firedAt>>

-----------------------------------------------------------------------------
(* The cache of the price, and the process. *)

\* A provider answers with a price,
PriceFetched ==
  /\ \E p \in Prices : market' = [price |-> p, source |-> "live"]
  /\ UNCHANGED <<doomed, alert, sent, sweep, requests, open, firedAt>>

\* an outage lasts until it is too old,
PriceAges ==
  /\ market.source = "live"
  /\ market' = [market EXCEPT !.source = "old"]
  /\ UNCHANGED <<doomed, alert, sent, sweep, requests, open, firedAt>>

\* no provider has ever answered, and a thread finds the cache without a price,
NeverFetched ==
  /\ market.source = "none"
  /\ doomed' = TRUE
  /\ UNCHANGED <<market, alert, sent, sweep, requests, open, firedAt>>

\* and writes the fallback, though another may have fetched one since; it need not be
\* the only thread to do so.
FallbackWritten ==
  /\ doomed
  /\ doomed' \in BOOLEAN
  /\ market' = [price |-> FallbackPrice,
                source |-> IF market.source \in {"none", "fallback"} THEN "fallback"
                           ELSE "overwritten"]
  /\ UNCHANGED <<alert, sent, sweep, requests, open, firedAt>>

\* A restart rolls back what is under way and forgets the price; the new process sweeps
\* at once.
Restart ==
  /\ Asleep
  /\ market' = Unpriced
  /\ doomed' = FALSE
  /\ pc' = [r \in Requests |-> IF pc[r] = "new" THEN "new" ELSE "done"]
  /\ user' = [r \in Requests |-> AnyUser]
  /\ id' = [r \in Requests |-> AnyAlert]
  /\ alone' = [r \in Requests |-> FALSE]
  /\ UNCHANGED <<alert, sent, open, firedAt>>

Sweep == JudgePrice \/ TakePrice \/ ReadPending \/ CommitFired

Next ==
  \/ Sweep
  \/ \E r \in Requests :
       CreateCount(r) \/ CreateInsert(r) \/ DeleteFind(r) \/ DeleteCommit(r) \/ CloseAccount(r)
  \/ PriceFetched \/ PriceAges \/ NeverFetched \/ FallbackWritten
  \/ Restart

Spec == Init /\ [][Next]_vars

\* The worker comes back from every sleep, as asyncio.sleep does, and a sweep ends.
Fairness == WF_vars(Sweep)

\* A process that always restarts in the middle of a sweep never finishes one: after
\* some point it stays up.
FairSpec == Spec /\ Fairness /\ <>[][~ Restart]_vars

-----------------------------------------------------------------------------
(* Properties. *)

\* An alert tells its owner once, when it is triggered and never again, whatever fails
\* or restarts (services.py:108-134).
ToldOnce ==
  \A a \in AlertIds :
    /\ alert[a].state = "fired" => sent[a] = 1
    /\ alert[a].state \in {"none", "pending"} => sent[a] = 0
    /\ sent[a] <= 1

\* It fires at a price that has crossed its own target, and one that was fetched: an
\* outage alone fires nothing at the fallback, nor at the price the cache begins with.
\* It takes a thread that overwrites a fetched price between the judgement of the
\* snapshot and its price, which the code does not exclude (main.py:80-91,
\* btc_service.py:79-91, services.py:119-123).
FiredAtCrossing ==
  \A a \in AlertIds :
    alert[a].state = "fired" =>
      /\ Crossed(alert[a], firedAt[a].price)
      /\ firedAt[a].source \in {"live", "old", "overwritten"}

\* Creations that do not overlap another of the same user keep to the limit
\* (notifications.py:26-31); those that do can pass it.
CapKept ==
  \A u \in Users : Cardinality({a \in AlertsOf(u) : alert[a].alone}) <= MaxAlerts

\* No alert stays pending for ever while a live price keeps its target crossed, though
\* a deletion can make a sweep fail for everybody (main.py:108-115, services.py:132-133).
EventuallyFires ==
  \A a \in AlertIds :
    []<>~ (alert[a].state = "pending" /\ Crossed(alert[a], market.price)
             /\ market.source = "live")
=============================================================================
