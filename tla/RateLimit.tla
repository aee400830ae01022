------------------------------ MODULE RateLimit ------------------------------
(***************************************************************************)
(* The rate limiter, app/rate_limit.py, as the threads of the pool call it.*)
(*                                                                         *)
(* Its two dictionaries are shared without a lock, so a thread can be      *)
(* overtaken between any two of its operations on them.  A key stands for  *)
(* an endpoint's limit applied to one address or account.  The clock       *)
(* stands still while a thread is inside: a call takes microseconds.       *)
(***************************************************************************)
EXTENDS Integers, Sequences, FiniteSets

CONSTANTS
  Callers,        \* threads
  Keys,
  Limit,          \* per key: hits allowed in a window
  Window,         \* per key: the length of its window
  SweepInterval,  \* SWEEP_INTERVAL
  MaxClock,       \* bound: the last instant of a behaviour
  MaxHits         \* bound: hits let through in a behaviour

ASSUME LimitAssumption ==
  /\ Keys # {}
  /\ Limit \in [Keys -> Nat \ {0}]
  /\ Window \in [Keys -> Nat \ {0}]
  /\ {SweepInterval, MaxClock, MaxHits} \subseteq Nat

VARIABLES
  hits,       \* _hits: per key, the times of its hits, oldest first
  present,    \* the keys that _hits has
  windows,    \* _windows, 0 where it has no entry
  lastSweep,  \* _last_sweep
  clock,      \* time.time()
  pc,         \* per caller: where it is in rate_limit
  key,        \* per caller: the key it is called with
  todo,       \* per caller: the keys its sweep has yet to look at
  size,       \* per caller: how many keys its sweep began with
  expired,    \* per caller: the keys its sweep has yet to delete
  kept,       \* per caller: the trimmed list, before it is stored
  alone,      \* history, per caller: no call has overlapped its own
  accepted,   \* history: the hits let through
  crashed     \* history: a call has failed

shared == <<hits, present, windows, lastSweep>>
sweeping == <<todo, size, expired>>
history == <<accepted, crashed>>
vars == <<shared, sweeping, history, clock, pc, key, kept, alone>>

Times == 0..MaxClock

Hit == [key : Keys, at : Times, alone : BOOLEAN]

TypeOK ==
  /\ hits \in [Keys -> Seq(Times)]
  /\ present \subseteq Keys
  /\ windows \in [Keys -> Nat]
  /\ lastSweep \in Times \cup {- SweepInterval}
  /\ clock \in Times
  /\ pc \in [Callers -> {"idle", "sweep", "scan", "delete", "note", "trim", "store",
                         "count", "append"}]
  /\ key \in [Callers -> Keys]
  /\ todo \in [Callers -> SUBSET Keys]
  /\ size \in [Callers -> Nat]
  /\ expired \in [Callers -> SUBSET Keys]
  /\ kept \in [Callers -> Seq(Times)]
  /\ alone \in [Callers -> BOOLEAN]
  /\ accepted \in Seq(Hit)
  /\ crashed \in BOOLEAN

Init ==
  /\ hits = [k \in Keys |-> <<>>]
  /\ present = {}
  /\ windows = [k \in Keys |-> 0]
  /\ lastSweep = - SweepInterval
  /\ clock = 0
  /\ pc = [c \in Callers |-> "idle"]
  /\ key = [c \in Callers |-> CHOOSE k \in Keys : TRUE]
  /\ todo = [c \in Callers |-> {}]
  /\ size = [c \in Callers |-> 0]
  /\ expired = [c \in Callers |-> {}]
  /\ kept = [c \in Callers |-> <<>>]
  /\ alone = [c \in Callers |-> FALSE]
  /\ accepted = <<>>
  /\ crashed = FALSE

-----------------------------------------------------------------------------
Inside(c) == pc[c] # "idle"

Goto(c, step) == pc' = [pc EXCEPT ![c] = step]

\* The end of a call: None, HTTPException or an error.
Leave(c) ==
  /\ Goto(c, "idle")
  /\ alone' = [alone EXCEPT ![c] = FALSE]
  /\ todo' = [todo EXCEPT ![c] = {}]
  /\ size' = [size EXCEPT ![c] = 0]
  /\ expired' = [expired EXCEPT ![c] = {}]
  /\ kept' = [kept EXCEPT ![c] = <<>>]
  /\ UNCHANGED <<clock, key>>

Crash(c) == Leave(c) /\ crashed' = TRUE /\ UNCHANGED <<shared, accepted>>

\* rate_limit is called.  A sweep is due SWEEP_INTERVAL after the last one began.
Enter(c) ==
  /\ pc[c] = "idle"
  /\ Len(accepted) < MaxHits
  /\ \E k \in Keys : key' = [key EXCEPT ![c] = k]
  /\ alone' = [d \in Callers |-> IF d = c THEN \A e \in Callers \ {c} : ~ Inside(e)
                                          ELSE FALSE]
  /\ Goto(c, IF clock - lastSweep < SweepInterval THEN "note" ELSE "sweep")
  /\ UNCHANGED <<shared, sweeping, history, clock, kept>>

\* The sweep takes its turn, and an iterator over _hits.
BeginSweep(c) ==
  /\ pc[c] = "sweep"
  /\ lastSweep' = clock
  /\ todo' = [todo EXCEPT ![c] = present]
  /\ size' = [size EXCEPT ![c] = Cardinality(present)]
  /\ Goto(c, "scan")
  /\ UNCHANGED <<hits, present, windows, expired, history, clock, key, kept, alone>>

LastOf(s) == s[Len(s)]

Expired_CallersWindow(c, k) ==
  hits[k] = <<>> \/ clock - LastOf(hits[k]) >= Window[key[c]]

Expired_EmptyOnly(c, k) == hits[k] = <<>>

\* The newest hit of k is out of k's window.
Expired(c, k) == hits[k] = <<>> \/ clock - LastOf(hits[k]) >= windows[k]

Scan_DeletesAtOnce(c) ==
  /\ pc[c] = "scan"
  /\ \/ Cardinality(present) # size[c] /\ Crash(c)
     \/ /\ todo[c] = {}
        /\ Goto(c, "delete")
        /\ UNCHANGED <<shared, sweeping, history, clock, key, kept, alone>>
     \/ \E k \in todo[c] :
          /\ Cardinality(present) = size[c]
          /\ present' = IF Expired(c, k) THEN present \ {k} ELSE present
          /\ todo' = [todo EXCEPT ![c] = @ \ {k}]
          /\ UNCHANGED <<hits, windows, lastSweep, size, expired, history, clock, pc, key,
                         kept, alone>>

\* One step of the iterator, which fails if the dictionary has grown or shrunk.
Scan(c) ==
  /\ pc[c] = "scan"
  /\ \/ Cardinality(present) # size[c] /\ Crash(c)
     \/ /\ Cardinality(present) = size[c]
        /\ todo[c] = {}
        /\ Goto(c, "delete")
        /\ UNCHANGED <<shared, sweeping, history, clock, key, kept, alone>>
     \/ /\ Cardinality(present) = size[c]
        /\ \E k \in todo[c] :
             /\ todo' = [todo EXCEPT ![c] = @ \ {k}]
             /\ expired' = IF k \in present /\ Expired(c, k)
                             THEN [expired EXCEPT ![c] = @ \cup {k}] ELSE expired
        /\ UNCHANGED <<shared, size, history, clock, pc, key, kept, alone>>

\* del _hits[k], which fails if it has gone already, and _windows.pop(k).
Delete(c) ==
  /\ pc[c] = "delete"
  /\ \/ /\ expired[c] = {}
        /\ Goto(c, "note")
        /\ UNCHANGED <<shared, sweeping, history, clock, key, kept, alone>>
     \/ (\E k \in expired[c] : k \notin present) /\ Crash(c)
     \/ \E k \in expired[c] \cap present :
          /\ present' = present \ {k}
          /\ hits' = [hits EXCEPT ![k] = <<>>]
          /\ windows' = [windows EXCEPT ![k] = 0]
          /\ expired' = [expired EXCEPT ![c] = @ \ {k}]
          /\ UNCHANGED <<lastSweep, todo, size, history, clock, pc, key, kept, alone>>

NoteWindow(c) ==
  /\ pc[c] = "note"
  /\ windows' = [windows EXCEPT ![key[c]] = Window[key[c]]]
  /\ Goto(c, "trim")
  /\ UNCHANGED <<hits, present, lastSweep, sweeping, history, clock, key, kept, alone>>

InWindow_Inclusive(k, t) == clock - t <= Window[k]

InWindow(k, t) == clock - t < Window[k]

\* [t for t in _hits[key] if now - t < window_seconds], one hit after the other.
Recent(k) ==
  LET upTo[n \in 0..Len(hits[k])] ==
        IF n = 0 THEN <<>>
        ELSE IF InWindow(k, hits[k][n]) THEN Append(upTo[n - 1], hits[k][n])
        ELSE upTo[n - 1]
  IN  upTo[Len(hits[k])]

\* The hits of the window are read; reading a missing key makes it.
Trim(c) ==
  LET k == key[c]
  IN  /\ pc[c] = "trim"
      /\ present' = present \cup {k}
      /\ kept' = [kept EXCEPT ![c] = Recent(k)]
      /\ Goto(c, "store")
      /\ UNCHANGED <<hits, windows, lastSweep, sweeping, history, clock, key, alone>>

\* They replace the list, with whatever has been appended to it meanwhile.
Store(c) ==
  /\ pc[c] = "store"
  /\ present' = present \cup {key[c]}
  /\ hits' = [hits EXCEPT ![key[c]] = kept[c]]
  /\ kept' = [kept EXCEPT ![c] = <<>>]
  /\ Goto(c, "count")
  /\ UNCHANGED <<windows, lastSweep, sweeping, history, clock, key, alone>>

AtLimit(k) == Len(hits[k]) >= Limit[k]

\* 429 at the limit.
Count(c) ==
  /\ pc[c] = "count"
  /\ present' = present \cup {key[c]}
  /\ IF AtLimit(key[c])
       THEN Leave(c)
       ELSE Goto(c, "append") /\ UNCHANGED <<sweeping, clock, key, kept, alone>>
  /\ UNCHANGED <<hits, windows, lastSweep, history>>

RecordHit(c) ==
  LET k == key[c]
  IN  /\ pc[c] = "append"
      /\ present' = present \cup {k}
      /\ hits' = [hits EXCEPT ![k] = Append(@, clock)]
      /\ accepted' = Append(accepted, [key |-> k, at |-> clock, alone |-> alone[c]])
      /\ Leave(c)
      /\ UNCHANGED <<windows, lastSweep, crashed>>

Tick ==
  /\ clock < MaxClock
  /\ \A c \in Callers : ~ Inside(c)
  /\ clock' = clock + 1
  /\ UNCHANGED <<shared, sweeping, history, pc, key, kept, alone>>

\* The bounds are reached.
Rest == clock = MaxClock /\ (\A c \in Callers : ~ Inside(c)) /\ UNCHANGED vars

Next ==
  \/ \E c \in Callers :
       \/ Enter(c) \/ BeginSweep(c) \/ Scan(c) \/ Delete(c) \/ NoteWindow(c)
       \/ Trim(c) \/ Store(c) \/ Count(c) \/ RecordHit(c)
  \/ Tick \/ Rest

Spec == Init /\ [][Next]_vars

-----------------------------------------------------------------------------
(* Properties. *)

AcceptedNow(k) ==
  {i \in 1..Len(accepted) : accepted[i].key = k /\ clock - accepted[i].at < Window[k]}

\* Calls that no other overlaps are limited, however the sweep's turns, other keys'
\* windows and calls that do overlap fall: no window has more of their hits than the
\* limit; and whatever overlaps, nobody is refused who has not used the limit up
\* (rate_limit.py:25-52).
LimitIsLimit ==
  /\ \A k \in Keys : Cardinality({i \in AcceptedNow(k) : accepted[i].alone}) <= Limit[k]
  /\ \A c \in Callers :
       pc[c] = "count" /\ AtLimit(key[c]) => Cardinality(AcceptedNow(key[c])) >= Limit[key[c]]

\* A key whose hits were all out of its window when a sweep began is not kept
\* (rate_limit.py:7-10), unless a call has failed in the middle of one.
IdleKeysReclaimed ==
  (\A c \in Callers : ~ Inside(c)) /\ ~ crashed =>
    \A k \in present : hits[k] # <<>> /\ lastSweep - LastOf(hits[k]) < Window[k]

\* Only a call that another overlaps can fail.
FailsOnlyOverlapped == [][\A c \in Callers : alone[c] => crashed' = crashed]_vars
=============================================================================
