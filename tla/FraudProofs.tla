----------------------------- MODULE FraudProofs -----------------------------
(***************************************************************************)
(* The cache of fraud models, for any members, threads, sizes and limits:  *)
(* a model is fresh when it scores, is missing only if another member has  *)
(* pushed it out, and the cache holds members' models and no more than     *)
(* there is room for.                                                      *)
(***************************************************************************)
EXTENDS FraudDetector, FiniteSetTheorems, SequenceTheorems, TLAPS

\* A model has been fitted to as much of its member's history as the limit lets through.
Fits(m) == m.trained_at_size = IF m.sees < HistoryLimit THEN m.sees ELSE HistoryLimit

\* A dictionary has a key once.
Sound(s) ==
  /\ s \in Seq(Model)
  /\ \A i, j \in DOMAIN s : s[i].user = s[j].user => i = j
  /\ \A i \in DOMAIN s : Fits(s[i])

UsersIn(s) == {s[i].user : i \in DOMAIN s}

-----------------------------------------------------------------------------
(* The operations of the ordered dictionary. *)

\* Deleting the key at a position: the other keys keep their order.
LEMMA RemovedSound ==
  ASSUME NEW s, Sound(s), NEW i \in DOMAIN s
  PROVE  LET r == RemoveAt(s, i)
         IN  Sound(r) /\ UsersIn(r) = UsersIn(s) \ {s[i].user} /\ Len(r) = Len(s) - 1
<1> DEFINE r == RemoveAt(s, i) a == SubSeq(s, 1, i - 1) b == SubSeq(s, i + 1, Len(s))
<1>1. s \in Seq(Model) /\ i \in 1..Len(s) /\ Len(s) \in Nat
  BY DEF Sound
<1>2. /\ a \in Seq(Model) /\ Len(a) = i - 1
      /\ \A k \in 1..(i - 1) : a[k] = s[k]
  <2>1. \A k \in 1..(i - 1) : s[k] \in Model
    BY <1>1
  <2> QED BY <1>1, <2>1, SubSeqProperties
<1>3. /\ b \in Seq(Model) /\ Len(b) = Len(s) - i
      /\ \A k \in 1..(Len(s) - i) : b[k] = s[i + k]
  <2>1. \A k \in (i + 1)..Len(s) : s[k] \in Model
    BY <1>1
  <2>2. /\ b \in Seq(Model)
        /\ Len(b) = IF i + 1 <= Len(s) THEN Len(s) - (i + 1) + 1 ELSE 0
        /\ \A k \in 1..(Len(s) - (i + 1) + 1) : b[k] = s[i + 1 + k - 1]
    BY <1>1, <2>1, SubSeqProperties
  <2> QED BY <1>1, <2>2
<1>4. r = a \o b
  BY DEF RemoveAt
<1> HIDE DEF a, b, r
<1>5. /\ r \in Seq(Model) /\ Len(r) = Len(a) + Len(b)
      /\ \A k \in 1..(Len(a) + Len(b)) : r[k] = IF k <= Len(a) THEN a[k] ELSE b[k - Len(a)]
  BY <1>2, <1>3, <1>4, ConcatProperties
<1>6. r \in Seq(Model) /\ Len(r) = Len(s) - 1
  BY <1>1, <1>2, <1>3, <1>5
<1>7. ASSUME NEW k \in 1..(Len(s) - 1)
      PROVE  r[k] = IF k < i THEN s[k] ELSE s[k + 1]
  <2>1. k \in 1..(Len(a) + Len(b)) /\ Len(a) = i - 1 /\ Len(b) = Len(s) - i
    BY <1>1, <1>2, <1>3
  <2>2. CASE k < i
    <3>1. k <= Len(a) /\ k \in 1..(i - 1)
      BY <1>1, <2>1, <2>2
    <3> QED BY <1>2, <1>5, <2>1, <2>2, <3>1
  <2>3. CASE ~ k < i
    <3>1. ~ k <= Len(a) /\ k - Len(a) \in 1..(Len(s) - i) /\ i + (k - Len(a)) = k + 1
      <4>1. k \in Int /\ i \in Int /\ Len(s) \in Int /\ Len(a) \in Int
        BY <1>1, <2>1
      <4>2. i <= k /\ k <= Len(s) - 1 /\ Len(a) = i - 1
        BY <1>1, <2>1, <2>3
      <4> QED BY <4>1, <4>2
    <3> QED BY <1>3, <1>5, <2>1, <2>3, <3>1
  <2> QED BY <2>2, <2>3
<1>8. DOMAIN r = 1..(Len(s) - 1) /\ DOMAIN s = 1..Len(s)
  BY <1>1, <1>6
<1>9. ASSUME NEW k \in DOMAIN r
      PROVE  \E j \in DOMAIN s : j # i /\ r[k] = s[j] /\ j = IF k < i THEN k ELSE k + 1
  BY <1>1, <1>7, <1>8
<1>10. Sound(r)
  <2>1. \A k \in DOMAIN r : Fits(r[k])
    BY <1>9 DEF Sound
  <2>2. ASSUME NEW k \in DOMAIN r, NEW l \in DOMAIN r, r[k].user = r[l].user
        PROVE  k = l
    <3>1. PICK j \in DOMAIN s : j # i /\ r[k] = s[j] /\ j = IF k < i THEN k ELSE k + 1
      BY <1>9
    <3>2. PICK m \in DOMAIN s : m # i /\ r[l] = s[m] /\ m = IF l < i THEN l ELSE l + 1
      BY <1>9
    <3>3. j = m
      BY <2>2, <3>1, <3>2 DEF Sound
    <3> QED BY <1>1, <1>8, <3>1, <3>2, <3>3
  <2> QED BY <1>6, <2>1, <2>2 DEF Sound
<1>11. UsersIn(r) = UsersIn(s) \ {s[i].user}
  <2>1. ASSUME NEW k \in DOMAIN r
        PROVE  \E j \in DOMAIN s : j # i /\ r[k].user = s[j].user
    BY <1>9
  <2>2. ASSUME NEW j \in DOMAIN s, j # i
        PROVE  \E k \in DOMAIN r : r[k].user = s[j].user
    <3>1. CASE j < i
      BY <1>1, <1>7, <1>8, <3>1
    <3>2. CASE j > i
      <4>1. j - 1 \in DOMAIN r /\ r[j - 1] = s[j]
        BY <1>1, <1>7, <1>8, <3>2
      <4> QED BY <4>1
    <3> QED BY <1>1, <1>8, <2>2, <3>1, <3>2
  <2>3. \A j \in DOMAIN s : s[j].user = s[i].user => j = i
    BY DEF Sound
  <2> QED BY <2>1, <2>2, <2>3 DEF UsersIn
<1> QED BY <1>6, <1>10, <1>11 DEF r

\* A new key goes to the end.
LEMMA AppendedSound ==
  ASSUME NEW s, Sound(s), NEW m \in Model, Fits(m), m.user \notin UsersIn(s)
  PROVE  LET r == Append(s, m)
         IN  Sound(r) /\ UsersIn(r) = UsersIn(s) \cup {m.user} /\ Len(r) = Len(s) + 1
<1> DEFINE r == Append(s, m)
<1>1. s \in Seq(Model) /\ Len(s) \in Nat /\ DOMAIN s = 1..Len(s)
  BY DEF Sound
<1>2. /\ r \in Seq(Model) /\ Len(r) = Len(s) + 1 /\ r[Len(s) + 1] = m
      /\ \A k \in 1..Len(s) : r[k] = s[k]
  BY <1>1, AppendProperties
<1> HIDE DEF r
<1>3. DOMAIN r = 1..(Len(s) + 1)
  BY <1>1, <1>2
<1>4. \A k \in 1..Len(s) : s[k].user # m.user
  BY <1>1 DEF UsersIn
<1>5. Sound(r)
  BY <1>1, <1>2, <1>3, <1>4 DEF Sound
<1>6. UsersIn(r) = UsersIn(s) \cup {m.user}
  <2>1. \A k \in DOMAIN r : k \in DOMAIN s \/ k = Len(s) + 1
    BY <1>1, <1>3
  <2>2. Len(s) + 1 \in DOMAIN r /\ DOMAIN s \subseteq DOMAIN r
    BY <1>1, <1>3
  <2> QED BY <1>1, <1>2, <2>1, <2>2 DEF UsersIn
<1> QED BY <1>2, <1>5, <1>6 DEF r

\* A key that is there keeps its place.
LEMMA ReplacedSound ==
  ASSUME NEW s, Sound(s), NEW i \in DOMAIN s, NEW m \in Model, Fits(m), m.user = s[i].user
  PROVE  LET r == [s EXCEPT ![i] = m]
         IN  Sound(r) /\ UsersIn(r) = UsersIn(s) /\ Len(r) = Len(s)
<1> DEFINE r == [s EXCEPT ![i] = m]
<1>1. s \in Seq(Model) /\ Len(s) \in Nat /\ DOMAIN s = 1..Len(s)
  BY DEF Sound
<1>2. r \in Seq(Model) /\ Len(r) = Len(s) /\ DOMAIN r = DOMAIN s
  BY <1>1, ExceptSeq
<1>3. \A k \in DOMAIN s : r[k] = IF k = i THEN m ELSE s[k]
  BY <1>1
<1>4. \A k \in DOMAIN s : r[k].user = s[k].user
  BY <1>3
<1> HIDE DEF r
<1>5. Sound(r) /\ UsersIn(r) = UsersIn(s)
  BY <1>1, <1>2, <1>3, <1>4 DEF Sound, UsersIn
<1> QED BY <1>2, <1>5 DEF r

\* The oldest key goes first.
LEMMA TailSound ==
  ASSUME NEW s, Sound(s), s # << >>
  PROVE  /\ Sound(Tail(s)) /\ UsersIn(Tail(s)) = UsersIn(s) \ {Head(s).user}
         /\ Len(Tail(s)) = Len(s) - 1
<1> DEFINE r == Tail(s)
<1>1. s \in Seq(Model) /\ Len(s) \in Nat /\ DOMAIN s = 1..Len(s) /\ Len(s) # 0
  BY EmptySeq DEF Sound
<1>2. r \in Seq(Model) /\ Len(r) = Len(s) - 1 /\ \A k \in 1..Len(r) : r[k] = s[k + 1]
  BY <1>1, HeadTailProperties
<1>3. Head(s) = s[1]
  BY <1>1
<1> HIDE DEF r
<1>4. DOMAIN r = 1..(Len(s) - 1)
  BY <1>1, <1>2
<1>5. Sound(r)
  <2>1. \A k \in DOMAIN r : k + 1 \in DOMAIN s /\ r[k] = s[k + 1]
    BY <1>1, <1>2, <1>4
  <2>2. ASSUME NEW k \in DOMAIN r, NEW l \in DOMAIN r, r[k].user = r[l].user
        PROVE  k = l
    <3>1. k + 1 = l + 1
      BY <2>1, <2>2 DEF Sound
    <3> QED BY <1>1, <1>4, <3>1
  <2> QED BY <1>2, <2>1, <2>2 DEF Sound
<1>6. UsersIn(r) = UsersIn(s) \ {s[1].user}
  <2>1. ASSUME NEW k \in DOMAIN r
        PROVE  k + 1 \in DOMAIN s /\ k + 1 # 1 /\ r[k].user = s[k + 1].user
    BY <1>1, <1>2, <1>4
  <2>2. ASSUME NEW j \in DOMAIN s, j # 1
        PROVE  j - 1 \in DOMAIN r /\ r[j - 1].user = s[j].user
    BY <1>1, <1>2, <1>4, <2>2
  <2>3. \A j \in DOMAIN s : s[j].user = s[1].user => j = 1
    BY <1>1 DEF Sound
  <2> QED BY <2>1, <2>2, <2>3 DEF UsersIn
<1> QED BY <1>2, <1>3, <1>5, <1>6 DEF r

-----------------------------------------------------------------------------
(* The invariant. *)

CacheSound == Sound(_cache) /\ UsersIn(_cache) \subseteq open \cup closing

\* A purchase under way belongs to an account, which cannot be deleted meanwhile, and has
\* its wallet to itself.
OneLocked ==
  /\ closing \cap open = {}
  /\ \A t \in Threads : pc[t] # "idle" => user[t] \in open
  /\ \A s, t \in Threads : pc[s] \in Locked /\ pc[t] \in Locked /\ user[s] = user[t] => s = t

\* Those stamped before a purchase are of the same member.
BeforeAreOwn ==
  \A t \in Threads : \A s \in before[t] :
    s # t /\ pc[s] # "idle" /\ pc[t] # "idle" /\ user[s] = user[t]

Holding == {"touch", "put", "order", "evict", "pop", "score"}

\* The model a purchase holds was fresh when it was looked up, and the purchases it is
\* compared with cannot have become more since.
HeldIsFresh ==
  \A t \in Threads :
    /\ pc[t] \notin Holding => fitted[t] = NoModel
    /\ pc[t] \in Holding /\ fitted[t] # NoModel /\ sees[t] < HistoryLimit =>
         sees[t] - fitted[t].sees < RefitInterval
    /\ pc[t] = "put" => Fits(fitted[t]) /\ fitted[t].user = user[t]

\* The threads whose model is in the cache and has not been counted yet.
Putting ==
  {t \in Threads : \/ pc[t] \in {"evict", "pop"}
                   \/ pc[t] = "order" /\ user[t] \in UsersIn(_cache)}

CacheHasRoom == Len(_cache) <= CacheSize + Cardinality(Putting)

IInv ==
  /\ TypeOK
  /\ CacheSound /\ OneLocked /\ BeforeAreOwn
  /\ HeldIsFresh /\ MissingOnlyIfPushed /\ CacheHasRoom

-----------------------------------------------------------------------------
(* What the steps do to the cache. *)

\* The values that stand for no user and no model are of their types.
LEMMA NothingTyped == AnyUser \in Users /\ NoModel \in Model /\ NoModel.sees = 0
BY FraudAssumption DEF AnyUser, NoModel, Model

\* A cached user is one with an entry.
LEMMA CachedIsIn == \A u : Cached(u) <=> u \in UsersIn(_cache)
BY DEF Cached, UsersIn

\* The position of a cached user's entry is that of its entry.
LEMMA PositionFound ==
  ASSUME NEW u, Cached(u)
  PROVE  Position(u) \in DOMAIN _cache /\ _cache[Position(u)].user = u
BY DEF Cached, Position

\* An entry that is removed is the only one of its user (anomaly_detector.py:227-231).
LEMMA WithoutSound ==
  ASSUME NEW u, Sound(_cache)
  PROVE  /\ Sound(Without(u)) /\ UsersIn(Without(u)) = UsersIn(_cache) \ {u}
         /\ Len(Without(u)) <= Len(_cache) /\ Len(Without(u)) \in Nat
         /\ Cached(u) => Len(Without(u)) = Len(_cache) - 1
<1>1. Len(_cache) \in Nat
  BY DEF Sound
<1>2. CASE Cached(u)
  <2>1. Without(u) = RemoveAt(_cache, Position(u))
    BY <1>2 DEF Without
  <2>2. Sound(Without(u)) /\ UsersIn(Without(u)) = UsersIn(_cache) \ {u}
        /\ Len(Without(u)) = Len(_cache) - 1
    BY <1>2, <2>1, PositionFound, RemovedSound
  <2>3. Len(Without(u)) \in Nat
    BY <2>2 DEF Sound
  <2> QED BY <1>1, <2>2, <2>3
<1>3. CASE ~ Cached(u)
  BY <1>1, <1>3, CachedIsIn DEF Without
<1> QED BY <1>2, <1>3

\* move_to_end loses and adds no entry.
LEMMA MovedSound ==
  ASSUME NEW u, Cached(u), Sound(_cache)
  PROVE  /\ Sound(move_to_end(u)) /\ UsersIn(move_to_end(u)) = UsersIn(_cache)
         /\ Len(move_to_end(u)) = Len(_cache)
<1> DEFINE m == _cache[Position(u)]
<1>1. m \in Model /\ Fits(m) /\ m.user = u /\ Len(_cache) \in Nat
  BY PositionFound DEF Sound
<1>2. /\ Sound(Without(u)) /\ UsersIn(Without(u)) = UsersIn(_cache) \ {u}
      /\ Len(Without(u)) = Len(_cache) - 1
  BY WithoutSound
<1>3. move_to_end(u) = Append(Without(u), m)
  BY DEF move_to_end
<1>4. u \in UsersIn(_cache)
  BY CachedIsIn
<1> HIDE DEF m
<1>5. /\ Sound(move_to_end(u))
      /\ UsersIn(move_to_end(u)) = UsersIn(Without(u)) \cup {u}
      /\ Len(move_to_end(u)) = Len(Without(u)) + 1
  BY <1>1, <1>2, <1>3, AppendedSound
<1> QED BY <1>1, <1>2, <1>4, <1>5

\* An assignment replaces the user's entry, or adds one.
LEMMA AssignedSound ==
  ASSUME NEW m \in Model, Fits(m), Sound(_cache)
  PROVE  /\ Sound(Assigned(m)) /\ UsersIn(Assigned(m)) = UsersIn(_cache) \cup {m.user}
         /\ Len(Assigned(m)) = IF Cached(m.user) THEN Len(_cache) ELSE Len(_cache) + 1
<1>1. CASE Cached(m.user)
  <2>1. Position(m.user) \in DOMAIN _cache /\ _cache[Position(m.user)].user = m.user
    BY <1>1, PositionFound
  <2>2. m.user \in UsersIn(_cache)
    BY <1>1, CachedIsIn
  <2>3. Assigned(m) = [_cache EXCEPT ![Position(m.user)] = m]
    BY <1>1 DEF Assigned
  <2>4. /\ Sound(Assigned(m)) /\ UsersIn(Assigned(m)) = UsersIn(_cache)
        /\ Len(Assigned(m)) = Len(_cache)
    <3>1. PICK i \in DOMAIN _cache : i = Position(m.user)
      BY <2>1
    <3>2. m.user = _cache[i].user /\ Assigned(m) = [_cache EXCEPT ![i] = m]
      BY <2>1, <2>3, <3>1
    <3> DEFINE r == [_cache EXCEPT ![i] = m]
    <3>3. Sound(r) /\ UsersIn(r) = UsersIn(_cache) /\ Len(r) = Len(_cache)
      BY <3>2, ReplacedSound, Zenon
    <3> HIDE DEF r
    <3>4. Assigned(m) = r
      BY <3>2 DEF r
    <3> QED BY <3>3, <3>4
  <2> QED BY <1>1, <2>2, <2>4
<1>2. CASE ~ Cached(m.user)
  <2>1. m.user \notin UsersIn(_cache)
    BY <1>2, CachedIsIn
  <2>2. Assigned(m) = Append(_cache, m)
    BY <1>2 DEF Assigned
  <2> QED BY <1>2, <2>1, <2>2, AppendedSound
<1> QED BY <1>1, <1>2

\* Fewer threads putting models leave room for fewer.
LEMMA PuttingFinite ==
  /\ IsFiniteSet(Putting) /\ Cardinality(Putting) \in Nat
  /\ IsFiniteSet(Putting') /\ Cardinality(Putting') \in Nat
<1>1. Putting \subseteq Threads /\ Putting' \subseteq Threads
  BY DEF Putting
<1> QED BY <1>1, FraudAssumption, FS_Subset, FS_CardinalityType

\* A thread that keeps its place puts as before, if its model is still there.
LEMMA RoomGrows ==
  ASSUME Putting \subseteq Putting'
  PROVE  Cardinality(Putting) <= Cardinality(Putting')
BY PuttingFinite, FS_Subset

\* When one thread is done with its put, the room above the cache's limit shrinks by one.
LEMMA RoomShrinksByOne ==
  ASSUME NEW t, Putting \subseteq Putting' \cup {t}
  PROVE  Cardinality(Putting) <= Cardinality(Putting') + 1
<1>1. IsFiniteSet(Putting' \cup {t}) /\ Cardinality(Putting' \cup {t}) <= Cardinality(Putting') + 1
  <2>1. Cardinality(Putting' \cup {t}) \in {Cardinality(Putting'), Cardinality(Putting') + 1}
    BY PuttingFinite, FS_AddElement
  <2> QED BY <2>1, PuttingFinite, FS_AddElement
<1>2. Cardinality(Putting) <= Cardinality(Putting' \cup {t})
  BY <1>1, FS_Subset
<1>3. Cardinality(Putting' \cup {t}) \in Nat
  BY <1>1, FS_CardinalityType
<1> QED BY <1>1, <1>2, <1>3, PuttingFinite

-----------------------------------------------------------------------------
(* The steps. *)

\* The empty cache is sound.
LEMMA EmptySound == Sound(<< >>) /\ UsersIn(<< >>) = {} /\ Len(<< >>) = 0
<1>1. << >> \in Seq(Model) /\ Len(<< >>) = 0 /\ DOMAIN << >> = {}
  BY EmptySeq
<1> QED BY <1>1 DEF Sound, UsersIn

\* The invariant holds of a process that has just started.
LEMMA InitIInv == Init => IInv
<1> SUFFICES ASSUME Init PROVE IInv
  OBVIOUS
<1> USE DEF Init
<1>1. TypeOK
  BY NothingTyped, EmptySound DEF TypeOK, Locked, Sound
<1>2. CacheSound
  BY EmptySound DEF CacheSound
<1>3. OneLocked /\ BeforeAreOwn /\ MissingOnlyIfPushed
  BY DEF OneLocked, BeforeAreOwn, MissingOnlyIfPushed, Locked
<1>4. HeldIsFresh
  BY DEF HeldIsFresh, Holding
<1>5. CacheHasRoom
  BY EmptySound, PuttingFinite, FraudAssumption DEF CacheHasRoom
<1> QED BY <1>1, <1>2, <1>3, <1>4, <1>5 DEF IInv

\* What a step of MoveToEnd finds and leaves.
LEMMA MoveToEndFound ==
  ASSUME CacheSound, NEW t \in Threads, NEW next, MoveToEnd(t, next)
  PROVE  /\ Sound(_cache') /\ UsersIn(_cache') = UsersIn(_cache)
         /\ Len(_cache') = Len(_cache)
         /\ IF user[t] \in UsersIn(_cache)
              THEN Goto(t, next) /\ UNCHANGED <<user, sees, before, fitted, pushed>>
              ELSE Leave(t) /\ sees' = [sees EXCEPT ![t] = 0]
BY CachedIsIn, MovedSound DEF CacheSound, MoveToEnd

\* The members of the cache are those of accounts, and of accounts being closed.
LEMMA NextCache ==
  ASSUME IInv, [Next]_vars
  PROVE  CacheSound'
<1> USE DEF CacheSound
<1>0. CacheSound
  BY DEF IInv
<1>1. ASSUME NEW t \in Threads, Touch(t) \/ Order(t) PROVE CacheSound'
  BY <1>0, <1>1, MoveToEndFound DEF Touch, Order
<1>2. ASSUME NEW t \in Threads, Put(t) PROVE CacheSound'
  <2>1. /\ fitted[t] \in Model /\ Fits(fitted[t]) /\ fitted[t].user \in open
        /\ _cache' = Assigned(fitted[t]) /\ UNCHANGED <<open, closing>>
    BY <1>2 DEF Put, IInv, TypeOK, HeldIsFresh, OneLocked
  <2>2. /\ Sound(Assigned(fitted[t]))
        /\ UsersIn(Assigned(fitted[t])) = UsersIn(_cache) \cup {fitted[t].user}
    BY <1>0, <2>1, AssignedSound
  <2> QED BY <1>0, <2>1, <2>2
<1>3. ASSUME NEW t \in Threads, Pop(t) PROVE CacheSound'
  BY <1>0, <1>3, TailSound DEF Pop
<1>4. ASSUME NEW u \in Users, Delete(u) PROVE CacheSound'
  BY <1>0, <1>4 DEF Delete
<1>5. ASSUME NEW u \in Users, Invalidate(u) PROVE CacheSound'
  BY <1>0, <1>5, WithoutSound DEF Invalidate, invalidate
<1>6. CASE Restart
  BY <1>6, EmptySound DEF Restart
<1>7. CASE UNCHANGED <<_cache, open, closing>>
  BY <1>0, <1>7
<1> QED BY <1>1, <1>2, <1>3, <1>4, <1>5, <1>6, <1>7
        DEF Next, Step, vars, Stamp, TakeWallet, Get, Fit, Evict, Commit

\* The end of a purchase or of a deletion keeps the types of what it resets.
LEMMA LeaveTyped ==
  ASSUME TypeOK, NEW t \in Threads, Leave(t)
  PROVE  /\ pc' \in [Threads -> {"idle", "waiting"} \cup Locked]
         /\ user' \in [Threads -> Users]
         /\ before' \in [Threads -> SUBSET Threads]
         /\ fitted' \in [Threads -> Model]
         /\ pushed' \in [Threads -> BOOLEAN]
BY NothingTyped DEF TypeOK, Leave, Goto

\* No step leaves the types.
LEMMA NextTyped ==
  ASSUME IInv, [Next]_vars
  PROVE  TypeOK'
<1>0. TypeOK /\ CacheSound /\ _cache' \in Seq(Model)
  BY NextCache DEF IInv, CacheSound, Sound
<1> USE DEF TypeOK
<1>1. ASSUME NEW t \in Threads, NEW u \in Users, Stamp(t, u) PROVE TypeOK'
  BY <1>0, <1>1 DEF Stamp, Goto, InFlight
<1>2. ASSUME NEW t \in Threads, TakeWallet(t) PROVE TypeOK'
  BY <1>0, <1>2 DEF TakeWallet, Goto, Locked
<1>3. ASSUME NEW t \in Threads, Get(t) PROVE TypeOK'
  <2>1. fitted' \in [Threads -> Model]
    <3>1. CASE Cached(user[t])
      <4>1. _cache[Position(user[t])] \in Model
        BY <1>0, <3>1, PositionFound, ElementOfSeq, LenProperties
      <4> QED BY <1>0, <1>3, <4>1 DEF Get
    <3>2. CASE ~ Cached(user[t])
      BY <1>0, <1>3, <3>2 DEF Get
    <3> QED BY <3>1, <3>2
  <2>2. pc' \in [Threads -> {"idle", "waiting"} \cup Locked]
    BY <1>0, <1>3 DEF Get, Goto, Locked
  <2> QED BY <1>0, <1>3, <2>1, <2>2 DEF Get
<1>4. ASSUME NEW t \in Threads, Touch(t) PROVE TypeOK'
  <2>1. MoveToEnd(t, "score") /\ UNCHANGED <<paid, open, closing>>
    BY <1>4 DEF Touch
  <2>2. CASE Leave(t) /\ sees' = [sees EXCEPT ![t] = 0]
    BY <1>0, <2>1, <2>2, LeaveTyped
  <2>3. CASE Goto(t, "score") /\ UNCHANGED <<user, sees, before, fitted, pushed>>
    BY <1>0, <2>1, <2>3 DEF Goto, Locked
  <2> QED BY <1>0, <2>1, <2>2, <2>3, MoveToEndFound
<1>5. ASSUME NEW t \in Threads, Fit(t) PROVE TypeOK'
  <2>1. [user |-> user[t], sees |-> sees[t], trained_at_size |-> HistorySize(t)] \in Model
    BY <1>0, FraudAssumption DEF Model, HistorySize
  <2>2. fitted' \in [Threads -> Model]
    BY <1>0, <1>5, <2>1 DEF Fit
  <2>3. pc' \in [Threads -> {"idle", "waiting"} \cup Locked]
    BY <1>0, <1>5 DEF Fit, Goto, Locked
  <2> QED BY <1>0, <1>5, <2>2, <2>3 DEF Fit
<1>6. ASSUME NEW t \in Threads, Put(t) PROVE TypeOK'
  BY <1>0, <1>6 DEF Put, Goto, Locked
<1>7. ASSUME NEW t \in Threads, Order(t) PROVE TypeOK'
  <2>1. MoveToEnd(t, "evict") /\ UNCHANGED <<paid, open, closing>>
    BY <1>7 DEF Order
  <2>2. CASE Leave(t) /\ sees' = [sees EXCEPT ![t] = 0]
    BY <1>0, <2>1, <2>2, LeaveTyped
  <2>3. CASE Goto(t, "evict") /\ UNCHANGED <<user, sees, before, fitted, pushed>>
    BY <1>0, <2>1, <2>3 DEF Goto, Locked
  <2> QED BY <1>0, <2>1, <2>2, <2>3, MoveToEndFound
<1>8. ASSUME NEW t \in Threads, Evict(t) PROVE TypeOK'
  BY <1>0, <1>8 DEF Evict, Goto, Locked
<1>9. ASSUME NEW t \in Threads, Pop(t) PROVE TypeOK'
  <2>1. pc' \in [Threads -> {"idle", "waiting"} \cup Locked]
    BY <1>0, <1>9 DEF Pop, Goto, Locked
  <2>2. pushed' \in [Threads -> BOOLEAN]
    BY <1>9 DEF Pop
  <2> QED BY <1>0, <1>9, <2>1, <2>2 DEF Pop
<1>10. ASSUME NEW t \in Threads, Commit(t) PROVE TypeOK'
  <2>1. Leave(t) /\ UNCHANGED <<_cache, open, closing>>
    BY <1>10 DEF Commit
  <2>2. sees' \in [Threads -> Nat] /\ paid' \in [Users -> Nat]
    BY <1>0, <1>10 DEF Commit
  <2> QED BY <1>0, <2>1, <2>2, LeaveTyped
<1>11. ASSUME NEW u \in Users, Delete(u) \/ Invalidate(u) PROVE TypeOK'
  BY <1>0, <1>11 DEF Delete, Invalidate, threads
<1>12. CASE Restart
  BY <1>0, <1>12, NothingTyped DEF Restart
<1>13. CASE UNCHANGED vars
  BY <1>0, <1>13 DEF vars, threads
<1> QED BY <1>1, <1>2, <1>3, <1>4, <1>5, <1>6, <1>7, <1>8, <1>9, <1>10, <1>11, <1>12, <1>13
        DEF Next, Step

-----------------------------------------------------------------------------
\* A step that takes a purchase from one of its places to another.
Moves(t, place) == pc' = [pc EXCEPT ![t] = place] /\ UNCHANGED <<user, before>>

\* A purchase under way moves on, starts, ends, or all of them end at once.
LEMMA StepsMove ==
  ASSUME IInv, NEW t \in Threads, Step(t)
  PROVE  \/ \E u \in Users : Stamp(t, u)
         \/ TakeWallet(t)
         \/ pc[t] \in Locked /\ \E p \in Locked : Moves(t, p)
         \/ pc[t] \in Locked /\ Leave(t)
<1>1. CASE Touch(t)
  BY <1>1, MoveToEndFound DEF Touch, IInv, Goto, Locked, Moves
<1>2. CASE Order(t)
  BY <1>2, MoveToEndFound DEF Order, IInv, Goto, Locked, Moves
<1>3. CASE Get(t) \/ Fit(t) \/ Evict(t)
  BY <1>3 DEF Get, Fit, Evict, Goto, Locked, Moves
<1>4. CASE Put(t) \/ Pop(t)
  BY <1>4 DEF Put, Pop, Goto, Locked, Moves
<1>5. CASE Commit(t)
  BY <1>5 DEF Commit, Locked
<1> QED BY <1>1, <1>2, <1>3, <1>4, <1>5 DEF Step

\* Only a deletion, its last step and a restart touch the accounts.
LEMMA StepsKeepAccounts ==
  ASSUME NEW t \in Threads, Step(t)
  PROVE  UNCHANGED <<open, closing>>
BY DEF Step, Stamp, TakeWallet, Get, Touch, Fit, Put, Order, Evict, Pop, Commit

\* Purchases under way stay those of accounts, and one at a time has a wallet.
LEMMA NextLocked ==
  ASSUME IInv, [Next]_vars
  PROVE  OneLocked'
<1>0. TypeOK /\ OneLocked
  BY DEF IInv
<1> USE DEF OneLocked
<1>1. ASSUME NEW t \in Threads, Step(t) PROVE OneLocked'
  <2>0. UNCHANGED <<open, closing>>
    BY <1>1, StepsKeepAccounts
  <2>1. ASSUME NEW u \in Users, Stamp(t, u) PROVE OneLocked'
    BY <1>0, <2>1 DEF TypeOK, Stamp, Goto, Locked
  <2>2. CASE TakeWallet(t)
    BY <1>0, <2>2 DEF TypeOK, TakeWallet, InFlight, Goto, Locked
  <2>3. CASE pc[t] \in Locked /\ \E p \in Locked : Moves(t, p)
    BY <1>0, <2>0, <2>3 DEF TypeOK, Moves, Locked
  <2>4. CASE Leave(t)
    BY <1>0, <2>0, <2>4 DEF TypeOK, Leave, Goto, Locked
  <2> QED BY <1>1, <2>1, <2>2, <2>3, <2>4, StepsMove
<1>2. ASSUME NEW u \in Users, Delete(u) \/ Invalidate(u) PROVE OneLocked'
  BY <1>0, <1>2 DEF Delete, Invalidate, InFlight, threads
<1>3. CASE Restart
  BY <1>0, <1>3 DEF Restart, Locked
<1>4. CASE UNCHANGED vars
  BY <1>0, <1>4 DEF vars, threads
<1> QED BY <1>1, <1>2, <1>3, <1>4 DEF Next

\* A purchase stamped before another is of the same member, and under way.
LEMMA NextBefore ==
  ASSUME IInv, [Next]_vars
  PROVE  BeforeAreOwn'
<1>0. TypeOK /\ BeforeAreOwn
  BY DEF IInv
<1> USE DEF BeforeAreOwn
<1>1. ASSUME NEW t \in Threads, Step(t) PROVE BeforeAreOwn'
  <2>1. ASSUME NEW u \in Users, Stamp(t, u) PROVE BeforeAreOwn'
    BY <1>0, <2>1 DEF TypeOK, Stamp, InFlight, Goto
  <2>2. CASE TakeWallet(t)
    BY <1>0, <2>2 DEF TypeOK, TakeWallet, Goto
  <2>3. CASE pc[t] \in Locked /\ \E p \in Locked : Moves(t, p)
    BY <1>0, <2>3 DEF TypeOK, Moves, Locked
  <2>4. CASE Leave(t)
    BY <1>0, <2>4 DEF TypeOK, Leave, Goto
  <2> QED BY <1>1, <2>1, <2>2, <2>3, <2>4, StepsMove
<1>2. ASSUME NEW u \in Users, Delete(u) \/ Invalidate(u) PROVE BeforeAreOwn'
  BY <1>0, <1>2 DEF Delete, Invalidate, threads
<1>3. CASE Restart
  BY <1>3 DEF Restart
<1>4. CASE UNCHANGED vars
  BY <1>0, <1>4 DEF vars, threads
<1> QED BY <1>1, <1>2, <1>3, <1>4 DEF Next

\* What a purchase that has its wallet is compared with does not grow: those stamped before
\* it wait for the same wallet.
LEMMA SeesStandStill ==
  ASSUME IInv, NEW t \in Threads, Commit(t), NEW s \in Threads, s # t, pc[s] \in Locked
  PROVE  sees'[s] = sees[s]
<1>1. t \notin before[s]
  BY DEF IInv, BeforeAreOwn, OneLocked, Commit, Locked
<1> QED BY <1>1 DEF Commit

\* What a purchase holds when its place and its history stay as they are.
FreshFor(t) ==
  /\ pc[t] \notin Holding => fitted[t] = NoModel
  /\ pc[t] \in Holding /\ fitted[t] # NoModel /\ sees[t] < HistoryLimit =>
       sees[t] - fitted[t].sees < RefitInterval
  /\ pc[t] = "put" => Fits(fitted[t]) /\ fitted[t].user = user[t]

\* A thread that others do not touch goes on with a model as fresh as it was.
LEMMA FreshStays ==
  ASSUME IInv, NEW t \in Threads, UNCHANGED <<pc[t], user[t], fitted[t]>>,
         pc[t] \in Holding => UNCHANGED sees[t]
  PROVE  FreshFor(t)'
BY DEF IInv, HeldIsFresh, FreshFor, Holding, Fits

\* A model that is not stale has seen all but the last few purchases.
LEMMA CachedIsFresh ==
  ASSUME IInv, NEW t \in Threads, NEW m \in Model, Fits(m),
         ~ StaleModel(m, HistorySize(t)), sees[t] < HistoryLimit
  PROVE  sees[t] - m.sees < RefitInterval
<1>1. sees[t] \in Nat /\ m.sees \in Nat /\ HistorySize(t) = sees[t]
  BY DEF IInv, TypeOK, Model, HistorySize
<1>2. HistoryLimit \in Nat /\ RefitInterval \in Nat /\ RefitInterval > 0
  BY FraudAssumption
<1>3. m.trained_at_size = IF m.sees < HistoryLimit THEN m.sees ELSE HistoryLimit
  BY DEF Fits
<1>4. ~ sees[t] - m.trained_at_size >= RefitInterval
  BY <1>1 DEF StaleModel
<1> QED BY <1>1, <1>2, <1>3, <1>4

\* A purchase holds a model that is fresh for it.
LEMMA NextHeld ==
  ASSUME IInv, [Next]_vars
  PROVE  HeldIsFresh'
<1>0. TypeOK /\ CacheSound /\ HeldIsFresh
  BY DEF IInv
<1>1. ASSUME NEW t \in Threads, Step(t), NEW s \in Threads PROVE FreshFor(s)'
  <2>1. ASSUME NEW u \in Users, Stamp(t, u) PROVE FreshFor(s)'
    BY <1>0, <2>1, FreshStays DEF TypeOK, Stamp, Goto, HeldIsFresh, FreshFor, Holding
  <2>2. CASE TakeWallet(t)
    BY <1>0, <2>2, FreshStays DEF TypeOK, TakeWallet, Goto, HeldIsFresh, FreshFor, Holding
  <2>3. CASE Get(t)
    <3>1. CASE s # t
      BY <1>0, <2>3, <3>1, FreshStays DEF TypeOK, Get, Goto
    <3>2. CASE s = t /\ Cached(user[t]) /\ ~ StaleModel(_cache[Position(user[t])], HistorySize(t))
      <4>1. PICK m \in Model : m = _cache[Position(user[t])] /\ Fits(m)
        BY <1>0, <3>2, PositionFound, ElementOfSeq, LenProperties DEF CacheSound, Sound
      <4>2. pc'[t] = "touch" /\ fitted'[t] = m /\ sees' = sees
        BY <1>0, <2>3, <3>2, <4>1 DEF Get, Goto, TypeOK
      <4>3. sees[t] < HistoryLimit => sees[t] - m.sees < RefitInterval
        BY <3>2, <4>1, CachedIsFresh
      <4> QED BY <3>2, <4>2, <4>3 DEF FreshFor, Holding
    <3>3. CASE s = t /\ ~ (Cached(user[t])
                           /\ ~ StaleModel(_cache[Position(user[t])], HistorySize(t)))
      <4>1. pc[t] = "get" /\ pc'[t] = "fit" /\ fitted'[t] = fitted[t]
        BY <1>0, <2>3, <3>3 DEF Get, Goto, TypeOK
      <4> QED BY <1>0, <3>3, <4>1 DEF HeldIsFresh, FreshFor, Holding
    <3> QED BY <3>1, <3>2, <3>3
  <2>4. CASE Fit(t)
    <3>1. CASE s # t
      BY <1>0, <2>4, <3>1, FreshStays DEF TypeOK, Fit, Goto
    <3>2. CASE s = t /\ HistorySize(t) >= MinHistory
      <4> DEFINE m == [user |-> user[t], sees |-> sees[t], trained_at_size |-> HistorySize(t)]
      <4>1. pc'[t] = "put" /\ fitted'[t] = m /\ sees'[t] = sees[t] /\ user'[t] = user[t]
        BY <1>0, <2>4, <3>2 DEF Fit, Goto, TypeOK
      <4>2. m.sees = sees[t] /\ m.user = user[t] /\ Fits(m)
        BY DEF HistorySize, Fits
      <4>3. sees[t] - m.sees < RefitInterval
        BY <1>0, <4>2, FraudAssumption DEF TypeOK
      <4> HIDE DEF m
      <4> QED BY <3>2, <4>1, <4>2, <4>3 DEF FreshFor, Holding, Fits
    <3>3. CASE s = t /\ ~ HistorySize(t) >= MinHistory
      <4>1. pc[t] = "fit" /\ pc'[t] = "score" /\ fitted'[t] = fitted[t]
        BY <1>0, <2>4, <3>3 DEF Fit, Goto, TypeOK
      <4> QED BY <1>0, <3>3, <4>1 DEF HeldIsFresh, FreshFor, Holding
    <3> QED BY <3>1, <3>2, <3>3
  <2>5. CASE Put(t) \/ Evict(t) \/ Pop(t)
    BY <1>0, <2>5, FreshStays DEF TypeOK, Put, Evict, Pop, Goto, HeldIsFresh, FreshFor, Holding
  <2>6. CASE Touch(t) \/ Order(t)
    <3>1. PICK p \in {"score", "evict"} : MoveToEnd(t, p) /\ pc[t] \in {"touch", "order"}
      BY <2>6 DEF Touch, Order
    <3>2. CASE Goto(t, p) /\ UNCHANGED <<user, sees, before, fitted, pushed>>
      BY <1>0, <3>1, <3>2, FreshStays DEF TypeOK, Goto, HeldIsFresh, FreshFor, Holding
    <3>3. CASE Leave(t) /\ sees' = [sees EXCEPT ![t] = 0]
      BY <1>0, <3>1, <3>3, FreshStays DEF TypeOK, Leave, Goto, FreshFor, Holding
    <3> QED BY <1>0, <3>1, <3>2, <3>3, MoveToEndFound
  <2>7. CASE Commit(t)
    <3>1. CASE s # t
      <4>1. pc[s] \in Holding => sees'[s] = sees[s]
        BY <2>7, <3>1, SeesStandStill DEF Holding, Locked
      <4>2. UNCHANGED <<pc[s], user[s], fitted[s]>>
        BY <1>0, <2>7, <3>1 DEF Commit, Leave, Goto, TypeOK
      <4> QED BY <4>1, <4>2, FreshStays
    <3>2. CASE s = t
      BY <1>0, <2>7, <3>2 DEF Commit, Leave, Goto, TypeOK, FreshFor, Holding
    <3> QED BY <3>1, <3>2
  <2> QED BY <1>1, <2>1, <2>2, <2>3, <2>4, <2>5, <2>6, <2>7 DEF Step
<1>2. ASSUME NEW u \in Users, Delete(u) \/ Invalidate(u), NEW s \in Threads PROVE FreshFor(s)'
  BY <1>2, FreshStays DEF Delete, Invalidate, threads
<1>3. ASSUME Restart, NEW s \in Threads PROVE FreshFor(s)'
  BY <1>3 DEF Restart, FreshFor, Holding
<1>4. ASSUME UNCHANGED vars, NEW s \in Threads PROVE FreshFor(s)'
  BY <1>4, FreshStays DEF vars, threads
<1>5. \A s \in Threads : FreshFor(s)'
  BY <1>1, <1>2, <1>3, <1>4 DEF Next
<1> QED BY <1>5 DEF HeldIsFresh, FreshFor

\* The members of the cache, and what they were before.
LEMMA CachedNextIsIn == \A u : Cached(u)' <=> u \in UsersIn(_cache')
BY DEF Cached, UsersIn

\* A purchase that finds its model missing has had it pushed out.
PushedFor(t) == pc[t] \in {"touch", "order"} /\ user[t] \notin UsersIn(_cache) => pushed[t]

\* MissingOnlyIfPushed, thread by thread,
LEMMA PushedForEach == MissingOnlyIfPushed <=> \A t \in Threads : PushedFor(t)
BY CachedIsIn DEF MissingOnlyIfPushed, PushedFor

\* before and after a step.
LEMMA PushedForEachNext == MissingOnlyIfPushed' <=> \A t \in Threads : PushedFor(t)'
BY CachedNextIsIn DEF MissingOnlyIfPushed, PushedFor

\* What a step tells of a purchase that keeps its place.
LEMMA PushedStays ==
  ASSUME IInv, NEW t \in Threads, UNCHANGED <<pc[t], user[t]>>, pushed[t] => pushed'[t],
         user[t] \in UsersIn(_cache) => user[t] \in UsersIn(_cache') \/ pushed'[t]
  PROVE  PushedFor(t)'
<1>1. PushedFor(t)
  BY PushedForEach DEF IInv
<1> QED BY <1>1 DEF PushedFor

\* A model goes missing only when another member's pushes it out.
LEMMA NextPushed ==
  ASSUME IInv, [Next]_vars
  PROVE  MissingOnlyIfPushed'
<1>0. TypeOK /\ CacheSound /\ OneLocked
  BY DEF IInv
<1>1. ASSUME NEW t \in Threads, Step(t), NEW s \in Threads PROVE PushedFor(s)'
  <2>1. ASSUME NEW u \in Users, Stamp(t, u) PROVE PushedFor(s)'
    BY <1>0, <2>1, PushedStays DEF TypeOK, Stamp, Goto, PushedFor
  <2>2. CASE TakeWallet(t) \/ Evict(t) \/ Fit(t)
    BY <1>0, <2>2, PushedStays DEF TypeOK, TakeWallet, Evict, Fit, Goto, PushedFor
  <2>3. CASE Get(t)
    <3>1. CASE s # t
      BY <1>0, <2>3, <3>1, PushedStays DEF TypeOK, Get, Goto
    <3>2. CASE s = t
      BY <1>0, <2>3, <3>2, CachedIsIn DEF TypeOK, Get, Goto, PushedFor
    <3> QED BY <3>1, <3>2
  <2>4. CASE Touch(t) \/ Order(t)
    <3>1. PICK p \in {"score", "evict"} : MoveToEnd(t, p)
      BY <2>4 DEF Touch, Order
    <3>2. UsersIn(_cache') = UsersIn(_cache)
      BY <1>0, <3>1, MoveToEndFound
    <3>3. CASE Goto(t, p) /\ UNCHANGED <<user, sees, before, fitted, pushed>>
      BY <1>0, <3>1, <3>2, <3>3, PushedStays DEF TypeOK, Goto, PushedFor
    <3>4. CASE Leave(t)
      BY <1>0, <3>2, <3>4, PushedStays DEF TypeOK, Leave, Goto, PushedFor
    <3> QED BY <1>0, <3>1, <3>3, <3>4, MoveToEndFound
  <2>5. CASE Put(t)
    <3>1. fitted[t] \in Model /\ Fits(fitted[t]) /\ fitted[t].user = user[t]
      BY <1>0, <2>5 DEF IInv, TypeOK, HeldIsFresh, Put
    <3>2. UsersIn(_cache') = UsersIn(_cache) \cup {user[t]}
      BY <1>0, <2>5, <3>1, AssignedSound DEF CacheSound, Put
    <3>3. CASE s # t
      BY <1>0, <2>5, <3>2, <3>3, PushedStays DEF TypeOK, Put, Goto
    <3>4. CASE s = t
      BY <1>0, <2>5, <3>2, <3>4 DEF Put, PushedFor
    <3> QED BY <3>3, <3>4
  <2>6. CASE Pop(t)
    <3>1. UsersIn(_cache') = UsersIn(_cache) \ {Head(_cache).user}
      BY <1>0, <2>6, TailSound DEF CacheSound, Pop
    <3>2. CASE s # t
      <4>1. UNCHANGED <<pc[s], user[s]>>
        BY <1>0, <2>6, <3>2 DEF TypeOK, Pop, Goto
      <4>2. pushed'[s] <=> pushed[s] \/ user[s] = Head(_cache).user
        BY <2>6, <3>2, Zenon DEF Pop
      <4> QED BY <3>1, <4>1, <4>2, PushedStays
    <3>3. CASE s = t
      BY <1>0, <2>6, <3>3 DEF TypeOK, Pop, Goto, PushedFor
    <3> QED BY <3>2, <3>3
  <2>7. CASE Commit(t)
    BY <1>0, <2>7, PushedStays DEF TypeOK, Commit, Leave, Goto, PushedFor
  <2> QED BY <1>1, <2>1, <2>2, <2>3, <2>4, <2>5, <2>6, <2>7 DEF Step
<1>2. ASSUME NEW u \in Users, Delete(u), NEW s \in Threads PROVE PushedFor(s)'
  BY <1>2, PushedStays DEF Delete, threads
<1>3. ASSUME NEW u \in Users, Invalidate(u), NEW s \in Threads PROVE PushedFor(s)'
  <2>1. UsersIn(_cache') = UsersIn(_cache) \ {u}
    BY <1>0, <1>3, WithoutSound DEF CacheSound, Invalidate, invalidate
  <2>2. UNCHANGED <<pc[s], user[s], pushed[s]>> /\ u \notin open
    BY <1>0, <1>3 DEF Invalidate, OneLocked, threads
  <2>3. CASE user[s] = u
    BY <1>0, <2>2, <2>3 DEF OneLocked, PushedFor
  <2>4. CASE user[s] # u
    BY <2>1, <2>2, <2>4, PushedStays
  <2> QED BY <2>3, <2>4
<1>4. ASSUME Restart, NEW s \in Threads PROVE PushedFor(s)'
  BY <1>4 DEF Restart, PushedFor
<1>5. ASSUME UNCHANGED vars, NEW s \in Threads PROVE PushedFor(s)'
  BY <1>5, PushedStays DEF vars, threads
<1>6. \A s \in Threads : PushedFor(s)'
  BY <1>1, <1>2, <1>3, <1>4, <1>5 DEF Next
<1> QED BY <1>6, PushedForEachNext

\* A cache that has not grown has room, if those who were putting still are.
LEMMA RoomStays ==
  ASSUME IInv, Len(_cache') \in Nat, Len(_cache') <= Len(_cache), Putting \subseteq Putting'
  PROVE  CacheHasRoom'
<1>1. Len(_cache) \in Nat /\ CacheHasRoom /\ CacheSize \in Nat
  BY FraudAssumption DEF IInv, CacheSound, Sound
<1> QED BY <1>1, RoomGrows, PuttingFinite DEF CacheHasRoom

\* The cache is too long only by what is being put.
LEMMA NextRoom ==
  ASSUME IInv, [Next]_vars
  PROVE  CacheHasRoom'
<1>0. TypeOK /\ CacheSound /\ OneLocked /\ Len(_cache) \in Nat /\ CacheSize \in Nat
  BY FraudAssumption DEF IInv, CacheSound, Sound
<1>1. Len(_cache') \in Nat
  BY NextCache DEF CacheSound, Sound
<1>2. ASSUME NEW t \in Threads, Step(t) PROVE CacheHasRoom'
  <2>1. ASSUME NEW u \in Users, Stamp(t, u) PROVE CacheHasRoom'
    <3>1. Putting \subseteq Putting'
      BY <1>0, <2>1 DEF TypeOK, Stamp, Goto, Putting
    <3> QED BY <1>0, <2>1, <3>1, RoomStays DEF Stamp
  <2>2. CASE TakeWallet(t) \/ Get(t) \/ Fit(t)
    <3>1. Putting \subseteq Putting' /\ _cache' = _cache
      BY <1>0, <2>2 DEF TypeOK, TakeWallet, Get, Fit, Goto, Putting
    <3> QED BY <1>0, <3>1, RoomStays
  <2>3. CASE Touch(t) \/ Order(t)
    <3>1. PICK p \in {"score", "evict"} :
            MoveToEnd(t, p) /\ (pc[t] = "order" => p = "evict") /\ pc[t] \in {"touch", "order"}
      BY <2>3 DEF Touch, Order
    <3>2. UsersIn(_cache') = UsersIn(_cache) /\ Len(_cache') = Len(_cache)
      BY <1>0, <3>1, MoveToEndFound
    <3>3. Putting \subseteq Putting'
      <4>1. CASE user[t] \in UsersIn(_cache)
        <5>1. Goto(t, p) /\ UNCHANGED user
          BY <1>0, <3>1, <4>1, MoveToEndFound
        <5> QED BY <1>0, <3>1, <3>2, <5>1 DEF TypeOK, Goto, Putting
      <4>2. CASE user[t] \notin UsersIn(_cache)
        <5>1. Leave(t)
          BY <1>0, <3>1, <4>2, MoveToEndFound
        <5> QED BY <1>0, <3>1, <3>2, <4>2, <5>1 DEF TypeOK, Leave, Goto, Putting
      <4> QED BY <4>1, <4>2
    <3> QED BY <1>0, <3>2, <3>3, RoomStays
  <2>4. CASE Put(t)
    <3>1. fitted[t] \in Model /\ Fits(fitted[t]) /\ fitted[t].user = user[t]
      BY <1>0, <2>4 DEF IInv, TypeOK, HeldIsFresh, Put
    <3>2. UsersIn(_cache') = UsersIn(_cache) \cup {user[t]} /\ Len(_cache') <= Len(_cache) + 1
      BY <1>0, <2>4, <3>1, AssignedSound DEF CacheSound, Put
    <3>3. Putting' = Putting \cup {t} /\ t \notin Putting
      <4>1. pc[t] = "put" /\ pc' = [pc EXCEPT ![t] = "order"] /\ user' = user
        BY <2>4 DEF Put, Goto
      <4>2. ASSUME NEW s \in Threads, pc[s] = "order", user[s] = user[t] PROVE FALSE
        BY <1>0, <4>1, <4>2 DEF OneLocked, Locked
      <4> QED BY <1>0, <3>2, <4>1, <4>2 DEF TypeOK, Putting
    <3>4. Cardinality(Putting') = Cardinality(Putting) + 1
      BY <3>3, PuttingFinite, FS_AddElement
    <3>5. Len(_cache) <= CacheSize + Cardinality(Putting)
      BY DEF IInv, CacheHasRoom
    <3> QED BY <1>0, <1>1, <3>2, <3>4, <3>5, PuttingFinite DEF CacheHasRoom
  <2>5. CASE Evict(t)
    <3>1. CASE Len(_cache) > CacheSize
      <4>1. Putting \subseteq Putting'
        BY <1>0, <2>5, <3>1 DEF TypeOK, Evict, Goto, Putting
      <4> QED BY <1>0, <2>5, <4>1, RoomStays DEF Evict
    <3>2. CASE ~ Len(_cache) > CacheSize
      <4>1. _cache' = _cache
        BY <2>5 DEF Evict
      <4> QED BY <1>0, <3>2, <4>1, PuttingFinite DEF CacheHasRoom
    <3> QED BY <3>1, <3>2
  <2>6. CASE Pop(t)
    <3>1. UsersIn(_cache') = UsersIn(_cache) \ {Head(_cache).user} /\ Len(_cache') = Len(_cache) - 1
      BY <1>0, <2>6, TailSound DEF CacheSound, Pop
    <3>2. ASSUME NEW s \in Putting, s \notin Putting'
          PROVE  s \in Threads /\ pc[s] = "order" /\ user[s] = Head(_cache).user
      BY <1>0, <2>6, <3>1, <3>2 DEF TypeOK, Pop, Goto, Putting
    <3>3. \E s \in Threads : Putting \subseteq Putting' \cup {s}
      <4>1. \A r, s \in Threads :
              pc[r] = "order" /\ pc[s] = "order" /\ user[r] = user[s] => r = s
        BY <1>0 DEF OneLocked, Locked
      <4> QED BY <3>2, <4>1
    <3>4. Cardinality(Putting) <= Cardinality(Putting') + 1
      BY <3>3, RoomShrinksByOne
    <3>5. Len(_cache) <= CacheSize + Cardinality(Putting)
      BY DEF IInv, CacheHasRoom
    <3> QED BY <1>0, <3>1, <3>4, <3>5, PuttingFinite DEF CacheHasRoom
  <2>7. CASE Commit(t)
    <3>1. Putting \subseteq Putting' /\ _cache' = _cache
      BY <1>0, <2>7 DEF TypeOK, Commit, Leave, Goto, Putting
    <3> QED BY <1>0, <3>1, RoomStays
  <2> QED BY <1>2, <2>1, <2>2, <2>3, <2>4, <2>5, <2>6, <2>7 DEF Step
<1>3. ASSUME NEW u \in Users, Delete(u) PROVE CacheHasRoom'
  <2>1. Putting \subseteq Putting' /\ _cache' = _cache
    BY <1>3 DEF Delete, threads, Putting
  <2> QED BY <1>0, <2>1, RoomStays
<1>4. ASSUME NEW u \in Users, Invalidate(u) PROVE CacheHasRoom'
  <2>1. /\ UsersIn(_cache') = UsersIn(_cache) \ {u}
        /\ Len(_cache') <= Len(_cache)
    BY <1>0, <1>4, WithoutSound DEF CacheSound, Invalidate, invalidate
  <2>2. UNCHANGED <<pc, user>> /\ \A s \in Threads : pc[s] # "idle" => user[s] # u
    BY <1>0, <1>4 DEF Invalidate, OneLocked, threads
  <2>3. Putting \subseteq Putting'
    BY <2>1, <2>2 DEF Putting
  <2> QED BY <1>1, <2>1, <2>3, RoomStays
<1>5. CASE Restart
  BY <1>0, <1>5, EmptySound, PuttingFinite DEF Restart, CacheHasRoom
<1>6. CASE UNCHANGED vars
  <2>1. Putting \subseteq Putting' /\ _cache' = _cache
    BY <1>6 DEF vars, threads, Putting
  <2> QED BY <1>0, <2>1, RoomStays
<1> QED BY <1>2, <1>3, <1>4, <1>5, <1>6 DEF Next

\* Every step keeps the invariant.
LEMMA NextIInv ==
  ASSUME IInv, [Next]_vars
  PROVE  IInv'
BY NextTyped, NextCache, NextLocked, NextBefore, NextHeld, NextPushed, NextRoom DEF IInv

-----------------------------------------------------------------------------
\* However many threads fit, put and evict models, no purchase with a history below the
\* limit is scored by a model RefitInterval or more purchases old (anomaly_detector.py:206-262).
THEOREM FraudModelsAreFresh == Spec => []FreshBelowLimit
<1>1. IInv => FreshBelowLimit
  BY DEF IInv, HeldIsFresh, FreshBelowLimit, Scored, Holding
<1> QED BY <1>1, InitIInv, NextIInv, PTL DEF Spec

\* Only another member's model, and never a deletion, a restart or a purchase of the same
\* member, takes a purchase's model away between two of its steps
\* (anomaly_detector.py:209-223).
THEOREM FraudModelsArePushedOut == Spec => []MissingOnlyIfPushed
<1>1. IInv => MissingOnlyIfPushed
  BY DEF IInv
<1> QED BY <1>1, InitIInv, NextIInv, PTL DEF Spec

\* The cache holds the models of accounts only, and exceeds its size by no more than the
\* models being put (anomaly_detector.py:219-231, routers/auth.py:138-144).
THEOREM FraudCacheIsBounded == Spec => []CacheHoldsMembers
<1>1. IInv => CacheHoldsMembers
  <2> SUFFICES ASSUME IInv PROVE CacheHoldsMembers
    OBVIOUS
  <2>1. \A i \in DOMAIN _cache : _cache[i].user \in open \cup closing
    BY DEF IInv, CacheSound, UsersIn
  <2> DEFINE P == {t \in Threads : pc[t] \in {"order", "evict", "pop"}}
  <2>2. Putting \subseteq P /\ IsFiniteSet(P)
    BY FraudAssumption, FS_Subset DEF Putting
  <2>3. Cardinality(Putting) <= Cardinality(P) /\ Cardinality(P) \in Nat
    BY <2>2, FS_Subset, FS_CardinalityType
  <2>4. Len(_cache) \in Nat /\ Len(_cache) <= CacheSize + Cardinality(Putting) /\ CacheSize \in Nat
    BY FraudAssumption DEF IInv, CacheSound, Sound, CacheHasRoom
  <2>5. Len(_cache) <= CacheSize + Cardinality(P)
    BY <2>3, <2>4, PuttingFinite
  <2> QED BY <2>1, <2>5 DEF CacheHoldsMembers
<1> QED BY <1>1, InitIInv, NextIInv, PTL DEF Spec
=============================================================================
