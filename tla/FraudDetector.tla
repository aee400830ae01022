----------------------------- MODULE FraudDetector -----------------------------
(***************************************************************************)
(* The fitted models app/anomaly_detector.py keeps, one per cardholder in  *)
(* an ordered dictionary that every request thread of the process shares,  *)
(* and the purchases and account deletions that use it.                    *)
(*                                                                         *)
(* A purchase is stamped and inserted, waits for its wallet, and is scored *)
(* under the wallet's lock.  One operation on the dictionary is one step;  *)
(* the forest is its training set, of which only the size is kept.         *)
(***************************************************************************)
EXTENDS Integers, Sequences, SequencesExt, FiniteSets

CONSTANTS
  Users,
  Threads,
  HistoryLimit,    \* HISTORY_LIMIT
  MinHistory,      \* MIN_CONTEXT + MIN_TRAIN_SIZE: the shortest history that is fitted
  RefitInterval,   \* settings.fraud_refit_interval
  CacheSize,       \* CACHE_SIZE
  MaxPaid          \* bounds the purchases of a member

ASSUME FraudAssumption ==
  /\ Users # {} /\ Threads # {} /\ IsFiniteSet(Threads)
  /\ {HistoryLimit, MinHistory, RefitInterval, CacheSize} \subseteq Nat \ {0}
  /\ MaxPaid \in Nat

\* trained_at_size is what the code keeps; sees, the purchases the model has been
\* fitted to or that were older than its window, is history.
Model == [user : Users, trained_at_size : Nat, sees : Nat]

VARIABLES
  _cache,    \* oldest first
  paid,      \* per member: the purchases committed
  open,      \* the accounts there are
  closing,   \* accounts deleted whose models are not yet dropped
  pc,        \* per thread: where its purchase is
  user,      \* per thread: whose purchase
  sees,      \* per thread: the committed purchases stamped before its own
  before,    \* per thread: the threads whose uncommitted purchases were
  fitted,    \* per thread: the model it holds, or none
  pushed     \* history, per thread: its member's model has been evicted meanwhile

threads == <<pc, user, sees, before, fitted, pushed>>
vars == <<_cache, paid, open, closing, threads>>

AnyUser == CHOOSE u \in Users : TRUE

NoModel == [user |-> AnyUser, trained_at_size |-> 0, sees |-> 0]

Locked == {"get", "touch", "fit", "put", "order", "evict", "pop", "score"}

TypeOK ==
  /\ _cache \in Seq(Model)
  /\ paid \in [Users -> Nat]
  /\ open \subseteq Users /\ closing \subseteq Users
  /\ pc \in [Threads -> {"idle", "waiting"} \cup Locked]
  /\ user \in [Threads -> Users]
  /\ sees \in [Threads -> Nat]
  /\ before \in [Threads -> SUBSET Threads]
  /\ fitted \in [Threads -> Model]
  /\ pushed \in [Threads -> BOOLEAN]

Init ==
  /\ _cache = << >>
  /\ paid = [u \in Users |-> 0]
  /\ open = Users
  /\ closing = {}
  /\ pc = [t \in Threads |-> "idle"]
  /\ user = [t \in Threads |-> AnyUser]
  /\ sees = [t \in Threads |-> 0]
  /\ before = [t \in Threads |-> {}]
  /\ fitted = [t \in Threads |-> NoModel]
  /\ pushed = [t \in Threads |-> FALSE]

-----------------------------------------------------------------------------
(* The ordered dictionary. *)

Cached(u) == \E i \in DOMAIN _cache : _cache[i].user = u

Position(u) == CHOOSE i \in DOMAIN _cache : _cache[i].user = u

Without(u) == IF Cached(u) THEN RemoveAt(_cache, Position(u)) ELSE _cache

move_to_end(u) == Append(Without(u), _cache[Position(u)])

\* Assigning to a key that is there keeps its place.
Assigned(m) == IF Cached(m.user) THEN [_cache EXCEPT ![Position(m.user)] = m]
                                 ELSE Append(_cache, m)

-----------------------------------------------------------------------------
Goto(t, place) == pc' = [pc EXCEPT ![t] = place]

InFlight(u) == {t \in Threads : pc[t] # "idle" /\ user[t] = u}

\* Thread t is done with its purchase, recorded or not.
Leave(t) ==
  /\ Goto(t, "idle")
  /\ user' = [user EXCEPT ![t] = AnyUser]
  /\ fitted' = [fitted EXCEPT ![t] = NoModel]
  /\ pushed' = [pushed EXCEPT ![t] = FALSE]
  /\ before' = [s \in Threads |-> IF s = t THEN {} ELSE before[s] \ {t}]

\* The purchase is stamped and inserted.
Stamp(t, u) ==
  /\ pc[t] = "idle" /\ u \in open
  /\ paid[u] < MaxPaid
  /\ Goto(t, "waiting")
  /\ user' = [user EXCEPT ![t] = u]
  /\ sees' = [sees EXCEPT ![t] = paid[u]]
  /\ before' = [before EXCEPT ![t] = InFlight(u)]
  /\ UNCHANGED <<_cache, paid, open, closing, fitted, pushed>>

\* It has the wallet: what score_transaction will read as its history cannot change now.
TakeWallet(t) ==
  /\ pc[t] = "waiting"
  /\ \A s \in InFlight(user[t]) : pc[s] \notin Locked
  /\ Goto(t, "get")
  /\ UNCHANGED <<_cache, paid, open, closing, user, sees, before, fitted, pushed>>

HistorySize(t) == IF sees[t] < HistoryLimit THEN sees[t] ELSE HistoryLimit

StaleModel_NeverOlder(m, history_size) == FALSE

StaleModel(m, history_size) == history_size - m.trained_at_size >= RefitInterval

\* _cache_get: no model, a stale one,
Get(t) ==
  /\ pc[t] = "get"
  /\ LET u == user[t] IN
       IF Cached(u) /\ ~ StaleModel(_cache[Position(u)], HistorySize(t))
         THEN Goto(t, "touch") /\ fitted' = [fitted EXCEPT ![t] = _cache[Position(u)]]
         ELSE Goto(t, "fit") /\ UNCHANGED fitted
  /\ pushed' = [pushed EXCEPT ![t] = FALSE]
  /\ UNCHANGED <<_cache, paid, open, closing, user, sees, before>>

\* or one to use, which becomes the newest.  If it has gone meanwhile, that is a
\* KeyError and the purchase is rolled back; the same when a model is put.
MoveToEnd(t, next) ==
  IF Cached(user[t])
    THEN /\ _cache' = move_to_end(user[t])
         /\ Goto(t, next)
         /\ UNCHANGED <<user, sees, before, fitted, pushed>>
    ELSE Leave(t) /\ sees' = [sees EXCEPT ![t] = 0] /\ UNCHANGED _cache

Touch(t) ==
  /\ pc[t] = "touch"
  /\ MoveToEnd(t, "score")
  /\ UNCHANGED <<paid, open, closing>>

\* Too short a history leaves the purchase to the rules.
Fit(t) ==
  /\ pc[t] = "fit"
  /\ IF HistorySize(t) >= MinHistory
       THEN /\ fitted' = [fitted EXCEPT ![t] = [user |-> user[t], sees |-> sees[t],
                                                trained_at_size |-> HistorySize(t)]]
            /\ Goto(t, "put")
       ELSE Goto(t, "score") /\ UNCHANGED fitted
  /\ UNCHANGED <<_cache, paid, open, closing, user, sees, before, pushed>>

\* _cache_put: the model is stored,
Put(t) ==
  /\ pc[t] = "put"
  /\ _cache' = Assigned(fitted[t])
  /\ Goto(t, "order")
  /\ pushed' = [pushed EXCEPT ![t] = FALSE]
  /\ UNCHANGED <<paid, open, closing, user, sees, before, fitted>>

\* made the newest,
Order(t) ==
  /\ pc[t] = "order"
  /\ MoveToEnd(t, "evict")
  /\ UNCHANGED <<paid, open, closing>>

\* and while there are too many
Evict(t) ==
  /\ pc[t] = "evict"
  /\ Goto(t, IF Len(_cache) > CacheSize THEN "pop" ELSE "score")
  /\ UNCHANGED <<_cache, paid, open, closing, user, sees, before, fitted, pushed>>

\* the oldest is dropped.
Pop(t) ==
  /\ pc[t] = "pop"
  /\ _cache # << >>
  /\ _cache' = Tail(_cache)
  /\ Goto(t, "evict")
  /\ pushed' = [s \in Threads |-> pushed[s] \/ (s # t /\ user[s] = Head(_cache).user)]
  /\ UNCHANGED <<paid, open, closing, user, sees, before, fitted>>

\* The purchase commits with its score, and those stamped after it can see it.
Commit(t) ==
  /\ pc[t] = "score"
  /\ paid' = [paid EXCEPT ![user[t]] = @ + 1]
  /\ sees' = [s \in Threads |-> IF t \in before[s] THEN sees[s] + 1
                                ELSE IF s = t THEN 0 ELSE sees[s]]
  /\ Leave(t)
  /\ UNCHANGED <<_cache, open, closing>>

Delete_KeepsModel(u) ==
  /\ u \in open /\ InFlight(u) = {}
  /\ open' = open \ {u}
  /\ UNCHANGED <<_cache, paid, closing, threads>>

\* Deleting an account waits for the purchases that refer to it, and commits.
Delete(u) ==
  /\ u \in open /\ InFlight(u) = {}
  /\ open' = open \ {u}
  /\ closing' = closing \cup {u}
  /\ UNCHANGED <<_cache, paid, threads>>

invalidate_All(u) == << >>

invalidate(u) == Without(u)

\* Only then is its model dropped.
Invalidate(u) ==
  /\ u \in closing
  /\ closing' = closing \ {u}
  /\ _cache' = invalidate(u)
  /\ UNCHANGED <<paid, open, threads>>

\* The process restarts with an empty cache, and loses what is not committed.
Restart ==
  /\ _cache' = << >>
  /\ closing' = {}
  /\ pc' = [t \in Threads |-> "idle"]
  /\ user' = [t \in Threads |-> AnyUser]
  /\ sees' = [t \in Threads |-> 0]
  /\ before' = [t \in Threads |-> {}]
  /\ fitted' = [t \in Threads |-> NoModel]
  /\ pushed' = [t \in Threads |-> FALSE]
  /\ UNCHANGED <<paid, open>>

Step(t) ==
  \/ \E u \in Users : Stamp(t, u)
  \/ TakeWallet(t) \/ Get(t) \/ Touch(t) \/ Fit(t) \/ Put(t) \/ Order(t)
  \/ Evict(t) \/ Pop(t) \/ Commit(t)

Next ==
  \/ \E t \in Threads : Step(t)
  \/ \E u \in Users : Delete(u) \/ Invalidate(u)
  \/ Restart

Spec == Init /\ [][Next]_vars

-----------------------------------------------------------------------------
Scored(t) == pc[t] = "score" /\ fitted[t] # NoModel

\* As long as its history is shorter than the limit, a purchase is never scored by a
\* model fitted to so few purchases that RefitInterval or more have come since
\* (anomaly_detector.py:206-262).
FreshBelowLimit ==
  \A t \in Threads :
    Scored(t) /\ sees[t] < HistoryLimit => sees[t] - fitted[t].sees < RefitInterval

\* A purchase's model is missing between two of its steps, which fails the purchase,
\* only if another member's model has pushed it out of a full cache: a deletion, a
\* restart or another purchase of the same member never does it
\* (anomaly_detector.py:209-223).
MissingOnlyIfPushed ==
  \A t \in Threads : pc[t] \in {"touch", "order"} /\ ~ Cached(user[t]) => pushed[t]

\* A model outlives its account by no more than the deletion's last step, and the
\* cache exceeds its limit by no more than the models being put (anomaly_detector.py:219-231,
\* routers/auth.py:138-144).
CacheHoldsMembers ==
  /\ \A i \in DOMAIN _cache : _cache[i].user \in open \cup closing
  /\ Len(_cache) <= CacheSize + Cardinality({t \in Threads : pc[t] \in {"order", "evict", "pop"}})
=============================================================================
