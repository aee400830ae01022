---------------------------- MODULE PriceService ----------------------------
(***************************************************************************)
(* The bitcoin price: app/btc_service.py, as concurrent requests call it.  *)
(*                                                                         *)
(* Requests run in threads that share one cache and take no lock.  A quote *)
(* of a provider is the instant it was made at, so that its age can be     *)
(* told.  Only the network takes time: the clock stands still while a      *)
(* thread is anywhere but in a fetch.                                      *)
(***************************************************************************)
EXTENDS Integers

CONSTANTS
  Callers,        \* threads that ask for a price
  CacheTime,      \* settings.btc_price_cache_seconds
  MaxAge,         \* settings.btc_price_max_age_seconds
  Backoff,        \* RETRY_BACKOFF_SECONDS
  MaxFetch,       \* how long asking every provider can take
  MaxClock        \* bound: the last instant of a behaviour

ASSUME PriceAssumption == {CacheTime, MaxAge, Backoff, MaxFetch, MaxClock} \subseteq Nat

NoPrice == -2
Fallback == -1                                \* settings.btc_price_fallback_usd
Never == - (CacheTime + MaxAge + Backoff + 1) \* 0.0, far in the past

Quotes == 0..MaxClock

Stamps == Quotes \cup {Never}

Sources == {"none", "fallback", "live"}   \* coingecko and coinbase are both live

VARIABLES
  cache,      \* _cache
  clock,      \* time.time()
  stage,      \* per caller: where it is in get_btc_price
  at,         \* per caller: its `now`, taken on entry
  began,      \* per caller: when its fetch began
  stale,      \* per caller: what _snapshot found before it read the price
  answer,     \* per caller: the last snapshot returned
  failed,     \* history: the stamp of the last failed attempt
  spared      \* history: callers who asked within the back-off of a failure

price_vars == <<cache, clock, stage, at, began, stale, answer, failed, spared>>

NoAnswer == [price |-> NoPrice, source |-> "none", stale |-> TRUE, when |-> 0]

PriceTypeOK ==
  /\ cache \in [price : Quotes \cup {NoPrice, Fallback}, source : Sources,
                fetched_at : Stamps, attempted_at : Stamps]
  /\ clock \in 0..MaxClock
  /\ stage \in [Callers -> {"idle", "check", "attempt", "fetching", "empty", "judge", "read"}]
  /\ at \in [Callers -> Quotes]
  /\ began \in [Callers -> Quotes]
  /\ stale \in [Callers -> BOOLEAN]
  /\ answer \in [Callers -> [price : Quotes \cup {NoPrice, Fallback}, source : Sources,
                             stale : BOOLEAN, when : Quotes]]
  /\ failed \in Stamps
  /\ spared \subseteq Callers

\* A process that has just started.
PriceInit ==
  /\ cache = [price |-> NoPrice, source |-> "none", fetched_at |-> Never,
              attempted_at |-> Never]
  /\ clock = 0
  /\ stage = [r \in Callers |-> "idle"]
  /\ at = [r \in Callers |-> 0]
  /\ began = [r \in Callers |-> 0]
  /\ stale = [r \in Callers |-> TRUE]
  /\ answer = [r \in Callers |-> NoAnswer]
  /\ failed = Never
  /\ spared = {}

-----------------------------------------------------------------------------
Goto(r, step) == stage' = [stage EXCEPT ![r] = step]

Fresh == cache.source = "live" /\ clock - cache.fetched_at < CacheTime

\* get_btc_price: a fresh price is answered from the cache.
Ask(r) ==
  /\ stage[r] = "idle"
  /\ at' = [at EXCEPT ![r] = clock]
  /\ Goto(r, IF Fresh THEN "judge" ELSE "check")
  /\ spared' = IF clock - failed < Backoff THEN spared \cup {r} ELSE spared \ {r}
  /\ UNCHANGED <<cache, clock, began, stale, answer, failed>>

MayAttempt_SinceFetch(r) == at[r] - cache.fetched_at >= Backoff

\* Otherwise the providers are asked, unless they have been within the back-off.
MayAttempt(r) == at[r] - cache.attempted_at >= Backoff

CheckBackoff(r) ==
  /\ stage[r] = "check"
  /\ Goto(r, IF MayAttempt(r) THEN "attempt" ELSE "judge")
  /\ UNCHANGED <<cache, clock, at, began, stale, answer, failed, spared>>

Attempt(r) ==
  /\ stage[r] = "attempt"
  /\ cache' = [cache EXCEPT !.attempted_at = at[r]]
  /\ began' = [began EXCEPT ![r] = clock]
  /\ Goto(r, "fetching")
  /\ UNCHANGED <<clock, at, stale, answer, failed, spared>>

\* A provider quoted a price; the cache takes it with the caller's own `now`.
Fetched(r) ==
  /\ stage[r] = "fetching"
  /\ \E made \in began[r]..clock :
       cache' = [cache EXCEPT !.price = made, !.source = "live", !.fetched_at = at[r]]
  /\ Goto(r, "judge")
  /\ UNCHANGED <<clock, at, began, stale, answer, failed, spared>>

\* Every provider failed.
FetchFailed(r) ==
  /\ stage[r] = "fetching"
  /\ Goto(r, IF cache.price = NoPrice THEN "empty" ELSE "judge")
  /\ failed' = at[r]
  /\ UNCHANGED <<cache, clock, at, began, stale, answer, spared>>

\* Nothing had ever been fetched when it looked.
UseFallback(r) ==
  /\ stage[r] = "empty"
  /\ cache' = [cache EXCEPT !.price = Fallback, !.source = "fallback"]
  /\ Goto(r, "judge")
  /\ UNCHANGED <<clock, at, began, stale, answer, failed, spared>>

Stale_FallbackOnly(r) == cache.source = "fallback" \/ cache.fetched_at = Never

Stale(r) ==
  \/ cache.source = "fallback"
  \/ cache.fetched_at = Never
  \/ at[r] - cache.fetched_at > MaxAge

\* _snapshot looks at the age and the source, and then reads the price.
Judge(r) ==
  /\ stage[r] = "judge"
  /\ stale' = [stale EXCEPT ![r] = Stale(r)]
  /\ Goto(r, "read")
  /\ UNCHANGED <<cache, clock, at, began, answer, failed, spared>>

Read(r) ==
  /\ stage[r] = "read"
  /\ answer' = [answer EXCEPT ![r] = [price |-> cache.price, source |-> cache.source,
                                      stale |-> stale[r], when |-> clock]]
  /\ Goto(r, "idle")
  /\ UNCHANGED <<cache, clock, at, began, stale, failed, spared>>

Tick ==
  /\ clock < MaxClock
  /\ \A r \in Callers : \/ stage[r] = "idle"
                        \/ stage[r] = "fetching" /\ clock - began[r] < MaxFetch
  /\ clock' = clock + 1
  /\ UNCHANGED <<cache, stage, at, began, stale, answer, failed, spared>>

PriceNext ==
  \/ \E r \in Callers :
       \/ Ask(r) \/ CheckBackoff(r) \/ Attempt(r) \/ Fetched(r) \/ FetchFailed(r)
       \/ UseFallback(r) \/ Judge(r) \/ Read(r)
  \/ Tick

PriceSpec == PriceInit /\ [][PriceNext]_price_vars

-----------------------------------------------------------------------------
(* Properties. *)

\* price_for_reward in production pays at every answer that is not stale.
Pays(r) == ~ answer[r].stale

\* A live price that is paid is no older than the limit and the time a failing fetch
\* may have taken after the age was computed, whoever overwrites the cache meanwhile
\* (btc_service.py:68-91).
PaidIsRecent ==
  \A r \in Callers : Pays(r) /\ answer[r].price >= 0 =>
    answer[r].when - answer[r].price <= MaxAge + MaxFetch

\* A caller who comes within the back-off of a failed attempt does not wait for the
\* network, however many attempts were under way (btc_service.py:13-15, 94-102).
OutageIsWaitedForOnce ==
  \A r \in spared : stage[r] \notin {"attempt", "fetching", "empty"}

-----------------------------------------------------------------------------
(* What docs and comments say, and concurrent requests can refute. *)

\* "never pays at a stale or invented price" (docs/ARCHITECTURE.md:35).
NeverPaysInvented == \A r \in Callers : Pays(r) => answer[r].price # Fallback
=============================================================================
