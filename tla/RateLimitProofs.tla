--------------------------- MODULE RateLimitProofs ---------------------------
(***************************************************************************)
(* Theorems about RateLimit, for every set of threads and keys, every      *)
(* limit and every window: calls that overlap no other are limited, nobody *)
(* is refused below the limit, and keys that idle do not stay.             *)
(***************************************************************************)
EXTENDS RateLimit, FiniteSetTheorems, WellFoundedInduction, TLAPS

-----------------------------------------------------------------------------
(* The hits that a call keeps. *)

\* What holds of 0, and of n + 1 if of n, holds of every natural number.
LEMMA FromZero ==
  ASSUME NEW T, 0 \in T, \A n \in Nat : n \in T => n + 1 \in T
  PROVE  \A n \in Nat : n \in T
<1> SUFFICES ASSUME NEW m \in Nat, m \notin T PROVE FALSE
  OBVIOUS
<1>a. PICK U : U = {n \in Nat : n \notin T}
  OBVIOUS
<1>1. PICK n \in U : \A i \in U : <<i, n>> \notin OpToRel(<, Nat)
  <2>1. U \subseteq Nat /\ U # {}
    BY <1>a
  <2> QED BY <2>1, NatLessThanWellFounded, WFMin, Zenon
<1>2. n \in Nat /\ n \notin T /\ n # 0
  BY <1>a
<1>3. n - 1 \in Nat /\ n - 1 \notin T
  BY <1>2
<1>4. n - 1 \in U /\ n - 1 < n
  BY <1>a, <1>2, <1>3
<1> QED BY <1>1, <1>2, <1>3, <1>4 DEF OpToRel

\* The recursion of Recent, over the first n hits of k.
Filters(F, k, n) ==
  F = [m \in 0..n |-> IF m = 0 THEN <<>>
                      ELSE IF InWindow(k, hits[k][m]) THEN Append(F[m - 1], hits[k][m])
                      ELSE F[m - 1]]

\* What a call keeps is the last value of that recursion.
LEMMA RecentFilters ==
  ASSUME NEW k
  PROVE  Recent(k) = (CHOOSE F : Filters(F, k, Len(hits[k])))[Len(hits[k])]
BY DEF Recent, Filters

\* The recursion is defined.
LEMMA FiltersExists ==
  ASSUME NEW k PROVE \A n \in Nat : \E F : Filters(F, k, n)
<1>a. PICK T : T = {n \in Nat : \E F : Filters(F, k, n)}
  OBVIOUS
<1>1. 0 \in T
  <2>1. PICK F : F = [m \in 0..0 |-> <<>>]
    OBVIOUS
  <2>2. Filters(F, k, 0)
    BY <2>1 DEF Filters
  <2> QED BY <1>a, <2>2
<1>2. ASSUME NEW n \in Nat, n \in T PROVE n + 1 \in T
  <2>1. PICK F : Filters(F, k, n)
    BY <1>a, <1>2
  <2>2. PICK x : x = IF InWindow(k, hits[k][n + 1]) THEN Append(F[n], hits[k][n + 1]) ELSE F[n]
    OBVIOUS
  <2>3. PICK G : G = [m \in 0..(n + 1) |-> IF m = n + 1 THEN x ELSE F[m]]
    OBVIOUS
  <2>4. G[n + 1] = x /\ \A m \in 0..n : G[m] = F[m]
    BY <2>3
  <2>5. ASSUME NEW m \in 0..(n + 1)
        PROVE  G[m] = IF m = 0 THEN <<>>
                      ELSE IF InWindow(k, hits[k][m]) THEN Append(G[m - 1], hits[k][m])
                      ELSE G[m - 1]
    <3>1. CASE m = n + 1
      BY <2>2, <2>4, <3>1
    <3>2. CASE m # n + 1
      <4>1. m \in 0..n /\ (m # 0 => m - 1 \in 0..n)
        BY <3>2
      <4>2. F[m] = IF m = 0 THEN <<>>
                   ELSE IF InWindow(k, hits[k][m]) THEN Append(F[m - 1], hits[k][m])
                   ELSE F[m - 1]
        BY <2>1, <4>1 DEF Filters
      <4> QED BY <2>4, <4>1, <4>2
    <3> QED BY <3>1, <3>2
  <2>6. G = [m \in 0..(n + 1) |-> G[m]]
    BY <2>3
  <2>7. Filters(G, k, n + 1)
    BY <2>5, <2>6, Zenon DEF Filters
  <2> QED BY <1>a, <2>7
<1> QED BY <1>a, <1>1, <1>2, FromZero

\* Its values, one by one.
LEMMA FiltersAt ==
  ASSUME NEW F, NEW k, NEW N \in Nat, Filters(F, k, N), NEW m \in 0..N
  PROVE  F[m] = IF m = 0 THEN <<>>
                ELSE IF InWindow(k, hits[k][m]) THEN Append(F[m - 1], hits[k][m])
                ELSE F[m - 1]
<1>1. F = [i \in 0..N |-> IF i = 0 THEN <<>>
                          ELSE IF InWindow(k, hits[k][i]) THEN Append(F[i - 1], hits[k][i])
                          ELSE F[i - 1]]
  BY DEF Filters
<1> QED BY <1>1, Zenon

\* Hits p of the list s, in its order, are those of its first n that are in k's window.
Picks(p, t, k, n) ==
  LET s == hits[k]
  IN  /\ t \in Seq(Times)
      /\ p \in [DOMAIN t -> 1..n]
      /\ \A i, j \in DOMAIN t : i < j => p[i] < p[j]
      /\ \A i \in DOMAIN t : t[i] = s[p[i]] /\ InWindow(k, t[i])
      /\ \A m \in 1..n : InWindow(k, s[m]) => \E i \in DOMAIN t : p[i] = m

\* What a call keeps are hits in the window, in their order; none of those is lost.
LEMMA RecentPicks ==
  ASSUME NEW k, hits[k] \in Seq(Times)
  PROVE  \E p : Picks(p, Recent(k), k, Len(hits[k]))
<1>0. PICK s, N : s = hits[k] /\ N = Len(s)
  OBVIOUS
<1>1. PICK F : Filters(F, k, N) /\ Recent(k) = F[N]
  <2>1. N \in Nat
    BY <1>0
  <2>2. \E F : Filters(F, k, N)
    BY <2>1, FiltersExists
  <2>3. Filters(CHOOSE F : Filters(F, k, N), k, N)
    BY <2>2, Zenon
  <2> QED BY <1>0, <2>3, RecentFilters, Zenon
<1>a. PICK T : T = {n \in Nat : n <= N => \E p : Picks(p, F[n], k, n)}
  OBVIOUS
<1>2. 0 \in T
  <2>1. F[0] = <<>>
    BY <1>0, <1>1 DEF Filters
  <2>2. Picks(<<>>, F[0], k, 0)
    BY <2>1 DEF Picks
  <2> QED BY <1>a, <2>2
<1>3. ASSUME NEW n \in Nat, n \in T, n + 1 <= N PROVE \E p : Picks(p, F[n + 1], k, n + 1)
  <2>1. PICK p : Picks(p, F[n], k, n)
    BY <1>a, <1>0, <1>3
  <2>2. F[n + 1] = IF InWindow(k, s[n + 1]) THEN Append(F[n], s[n + 1]) ELSE F[n]
    <3>1. N \in Nat /\ n + 1 \in 0..N /\ n + 1 # 0 /\ (n + 1) - 1 = n
      BY <1>0, <1>3
    <3>2. PICK m : m = n + 1
      OBVIOUS
    <3>3. F[m] = IF InWindow(k, s[m]) THEN Append(F[m - 1], s[m]) ELSE F[m - 1]
      BY <1>0, <1>1, <3>1, <3>2, FiltersAt
    <3> QED BY <3>1, <3>2, <3>3
  <2>3. PICK t : t = F[n]
    OBVIOUS
  <2>4. /\ t \in Seq(Times) /\ p \in [DOMAIN t -> 1..n]
        /\ \A i, j \in DOMAIN t : i < j => p[i] < p[j]
        /\ \A i \in DOMAIN t : t[i] = s[p[i]] /\ InWindow(k, t[i])
        /\ \A m \in 1..n : InWindow(k, s[m]) => \E i \in DOMAIN t : p[i] = m
    BY <1>0, <2>1, <2>3 DEF Picks
  <2>5. CASE ~ InWindow(k, s[n + 1])
    <3>1. \A m \in 1..(n + 1) : InWindow(k, s[m]) => m \in 1..n
      BY <2>5
    <3>2. p \in [DOMAIN t -> 1..(n + 1)]
      BY <2>4
    <3> QED BY <1>0, <2>2, <2>3, <2>4, <2>5, <3>1, <3>2 DEF Picks
  <2>6. CASE InWindow(k, s[n + 1])
    <3>1. PICK u : u = Append(t, s[n + 1])
      OBVIOUS
    <3>2. s[n + 1] \in Times
      BY <1>0, <1>3
    <3>3. /\ u \in Seq(Times) /\ Len(u) = Len(t) + 1 /\ u[Len(t) + 1] = s[n + 1]
          /\ \A i \in 1..Len(t) : u[i] = t[i]
          /\ DOMAIN u = 1..(Len(t) + 1) /\ DOMAIN t = 1..Len(t) /\ Len(t) \in Nat
      <4>1. t \in Seq(Times) /\ s[n + 1] \in Times
        BY <2>4, <3>2
      <4> QED BY <3>1, <4>1
    <3>4. PICK q : q = [i \in DOMAIN u |-> IF i = Len(t) + 1 THEN n + 1 ELSE p[i]]
      OBVIOUS
    <3>5. q[Len(t) + 1] = n + 1 /\ \A i \in 1..Len(t) : q[i] = p[i] /\ q[i] \in 1..n
      <4>1. q[Len(t) + 1] = n + 1
        BY <3>3, <3>4
      <4>2. ASSUME NEW i \in 1..Len(t) PROVE q[i] = p[i] /\ q[i] \in 1..n
        <5>1. i \in DOMAIN u /\ i \in DOMAIN t /\ i # Len(t) + 1
          BY <3>3
        <5> QED BY <2>4, <3>4, <5>1
      <4> QED BY <4>1, <4>2
    <3>6. q \in [DOMAIN u -> 1..(n + 1)]
      <4>1. \A i \in DOMAIN u : q[i] \in 1..(n + 1)
        BY <3>3, <3>5
      <4> QED BY <3>4, <4>1
    <3>7. \A i, j \in DOMAIN u : i < j => q[i] < q[j]
      BY <2>4, <3>3, <3>5
    <3>8. \A i \in DOMAIN u : u[i] = s[q[i]] /\ InWindow(k, u[i])
      BY <2>4, <2>6, <3>3, <3>5
    <3>9. \A m \in 1..(n + 1) : InWindow(k, s[m]) => \E i \in DOMAIN u : q[i] = m
      BY <2>4, <3>3, <3>5
    <3>10. F[n + 1] = u
      BY <2>2, <2>3, <2>6, <3>1
    <3>11. Picks(q, u, k, n + 1)
      BY <1>0, <3>3, <3>6, <3>7, <3>8, <3>9, Zenon DEF Picks
    <3> QED BY <3>10, <3>11
  <2> QED BY <2>5, <2>6
<1>4. \A n \in Nat : n \in T => n + 1 \in T
  <2>1. ASSUME NEW n \in Nat, n \in T PROVE n + 1 \in T
    <3>1. PICK m \in Nat : m = n + 1
      OBVIOUS
    <3>2. m <= N => \E p : Picks(p, F[m], k, m)
      BY <1>3, <2>1, <3>1
    <3> QED BY <1>a, <3>1, <3>2
  <2> QED BY <2>1
<1>5. N \in Nat /\ N \in T
  BY <1>0, <1>2, <1>4, FromZero
<1> QED BY <1>a, <1>0, <1>1, <1>5

\* What a call keeps is a list of times.
LEMMA RecentType ==
  ASSUME TypeOK, NEW k \in Keys
  PROVE  Recent(k) \in Seq(Times)
<1>1. hits[k] \in Seq(Times)
  BY DEF TypeOK
<1> QED BY <1>1, RecentPicks DEF Picks

-----------------------------------------------------------------------------
(* Type correctness. *)

\* What a sweep does in a step.
ScanLooks(c, k) ==
  /\ pc[c] = "scan" /\ k \in todo[c] /\ Cardinality(present) = size[c]
  /\ todo' = [todo EXCEPT ![c] = @ \ {k}]
  /\ expired' = IF k \in present /\ Expired(c, k)
                  THEN [expired EXCEPT ![c] = @ \cup {k}] ELSE expired
  /\ UNCHANGED <<shared, size, history, clock, pc, key, kept, alone>>

ScanEnds(c) ==
  /\ pc[c] = "scan" /\ todo[c] = {} /\ Goto(c, "delete")
  /\ UNCHANGED <<shared, sweeping, history, clock, key, kept, alone>>

DeletesKey(c, k) ==
  /\ pc[c] = "delete" /\ k \in expired[c] /\ k \in present
  /\ present' = present \ {k}
  /\ hits' = [hits EXCEPT ![k] = <<>>]
  /\ windows' = [windows EXCEPT ![k] = 0]
  /\ expired' = [expired EXCEPT ![c] = @ \ {k}]
  /\ UNCHANGED <<lastSweep, todo, size, history, clock, pc, key, kept, alone>>

DeleteEnds(c) ==
  /\ pc[c] = "delete" /\ expired[c] = {} /\ Goto(c, "note")
  /\ UNCHANGED <<shared, sweeping, history, clock, key, kept, alone>>

\* A step of a sweep is one of those, or fails.
LEMMA SweepSteps ==
  ASSUME NEW c
  PROVE  /\ Scan(c) => \/ pc[c] = "scan" /\ Cardinality(present) # size[c] /\ Crash(c)
                       \/ ScanEnds(c) \/ \E k \in todo[c] : ScanLooks(c, k)
         /\ Delete(c) => \/ pc[c] = "delete" /\ (\E k \in expired[c] : k \notin present) /\ Crash(c)
                         \/ DeleteEnds(c) \/ \E k \in expired[c] : DeletesKey(c, k)
BY DEF Scan, Delete, ScanLooks, ScanEnds, DeletesKey, DeleteEnds

PresentFinite == IsFiniteSet(present)

\* The end of a call resets what it has of its own.
LEMMA LeaveType ==
  ASSUME TypeOK, NEW c \in Callers, Leave(c)
  PROVE  /\ pc' \in [Callers -> {"idle", "sweep", "scan", "delete", "note", "trim", "store",
                                 "count", "append"}]
         /\ alone' \in [Callers -> BOOLEAN] /\ todo' \in [Callers -> SUBSET Keys]
         /\ size' \in [Callers -> Nat] /\ expired' \in [Callers -> SUBSET Keys]
         /\ kept' \in [Callers -> Seq(Times)] /\ UNCHANGED <<clock, key>>
BY DEF TypeOK, Leave, Goto

\* No step leaves the types, and the dictionary stays finite.
LEMMA TypeInductive == TypeOK /\ PresentFinite /\ [Next]_vars => TypeOK' /\ PresentFinite'
<1> SUFFICES ASSUME TypeOK, PresentFinite, [Next]_vars PROVE TypeOK' /\ PresentFinite'
  OBVIOUS
<1> USE DEF TypeOK
<1>0. \A k \in Keys : IsFiniteSet(present \cup {k}) /\ IsFiniteSet(present \ {k})
  BY FS_AddElement, FS_Subset DEF PresentFinite
<1>1. ASSUME NEW c \in Callers, Enter(c) PROVE TypeOK' /\ PresentFinite'
  BY <1>1 DEF Enter, Goto, shared, sweeping, history, PresentFinite
<1>2. ASSUME NEW c \in Callers, BeginSweep(c) PROVE TypeOK' /\ PresentFinite'
  <2>1. Cardinality(present) \in Nat
    BY FS_CardinalityType DEF PresentFinite
  <2> QED BY <1>2, <2>1 DEF BeginSweep, Goto, history, PresentFinite
<1>3. ASSUME NEW c \in Callers, Crash(c) PROVE TypeOK' /\ PresentFinite'
  BY <1>3, LeaveType DEF Crash, shared, PresentFinite
<1>4. ASSUME NEW c \in Callers, Scan(c) \/ Delete(c), ~ Crash(c) PROVE TypeOK' /\ PresentFinite'
  <2>1. CASE ScanEnds(c) \/ DeleteEnds(c)
    BY <2>1 DEF ScanEnds, DeleteEnds, Goto, shared, sweeping, history, PresentFinite
  <2>2. ASSUME NEW k \in todo[c], ScanLooks(c, k) PROVE TypeOK' /\ PresentFinite'
    <3>1. todo' \in [Callers -> SUBSET Keys] /\ expired' \in [Callers -> SUBSET Keys]
      BY <2>2 DEF ScanLooks
    <3> QED BY <2>2, <3>1 DEF ScanLooks, shared, history, PresentFinite
  <2>3. ASSUME NEW k \in expired[c], DeletesKey(c, k) PROVE TypeOK' /\ PresentFinite'
    <3>1. k \in Keys /\ <<>> \in Seq(Times)
      OBVIOUS
    <3>2. /\ hits' \in [Keys -> Seq(Times)] /\ windows' \in [Keys -> Nat]
          /\ expired' \in [Callers -> SUBSET Keys]
      BY <2>3, <3>1 DEF DeletesKey
    <3> QED BY <1>0, <2>3, <3>1, <3>2 DEF DeletesKey, history, PresentFinite
  <2> QED BY <1>4, <2>1, <2>2, <2>3, SweepSteps
<1>5. ASSUME NEW c \in Callers, NoteWindow(c) PROVE TypeOK' /\ PresentFinite'
  BY <1>5, LimitAssumption DEF NoteWindow, Goto, sweeping, history, PresentFinite
<1>6. ASSUME NEW c \in Callers, Trim(c) PROVE TypeOK' /\ PresentFinite'
  <2>1. Recent(key[c]) \in Seq(Times)
    BY RecentType
  <2> QED BY <1>0, <1>6, <2>1 DEF Trim, Goto, sweeping, history, PresentFinite
<1>7. ASSUME NEW c \in Callers, Store(c) PROVE TypeOK' /\ PresentFinite'
  <2>1. kept[c] \in Seq(Times) /\ <<>> \in Seq(Times) /\ key[c] \in Keys
    OBVIOUS
  <2>2. hits' \in [Keys -> Seq(Times)] /\ kept' \in [Callers -> Seq(Times)]
    BY <1>7, <2>1 DEF Store
  <2> QED BY <1>0, <1>7, <2>2 DEF Store, Goto, sweeping, history, PresentFinite
<1>8. ASSUME NEW c \in Callers, Count(c) PROVE TypeOK' /\ PresentFinite'
  <2>1. PresentFinite' /\ present' \subseteq Keys
    BY <1>0, <1>8 DEF Count, PresentFinite
  <2>2. CASE Leave(c)
    BY <1>8, <2>1, <2>2, LeaveType DEF Count, history
  <2>3. CASE ~ Leave(c)
    BY <1>8, <2>1, <2>3 DEF Count, Goto, sweeping, history
  <2> QED BY <2>2, <2>3
<1>9. ASSUME NEW c \in Callers, RecordHit(c) PROVE TypeOK' /\ PresentFinite'
  <2>1. [key |-> key[c], at |-> clock, alone |-> alone[c]] \in Hit
    BY DEF Hit
  <2>2. Append(accepted, [key |-> key[c], at |-> clock, alone |-> alone[c]]) \in Seq(Hit)
    BY <2>1
  <2>3. Append(hits[key[c]], clock) \in Seq(Times)
    OBVIOUS
  <2> QED BY <1>0, <1>9, <2>2, <2>3, LeaveType DEF RecordHit, PresentFinite
<1>10. CASE Tick
  BY <1>10, LimitAssumption DEF Tick, Times, shared, sweeping, history, PresentFinite
<1>11. CASE UNCHANGED vars
  BY <1>11 DEF vars, shared, sweeping, history, PresentFinite
<1> QED BY <1>1, <1>2, <1>3, <1>4, <1>5, <1>6, <1>7, <1>8, <1>9, <1>10, <1>11 DEF Next, Rest

-----------------------------------------------------------------------------
(* Calls that overlap no other. *)

AloneIsAlone ==
  \A c \in Callers : alone[c] => Inside(c) /\ \A d \in Callers \ {c} : ~ Inside(d)

\* What the sweep of such a call has looked at stays as it was.
LoneSweep ==
  \A c \in Callers : alone[c] =>
    /\ pc[c] = "scan" => Cardinality(present) = size[c]
    /\ pc[c] \in {"scan", "delete"} => expired[c] \subseteq present

Begun == \A c \in Callers : pc[c] \notin {"scan", "delete"} => expired[c] = {}

LoneInv == AloneIsAlone /\ LoneSweep /\ Begun

\* A step that leaves the sweeps of lone calls alone.
LEMMA LoneKept ==
  ASSUME TypeOK, LoneInv, NEW c \in Callers,
         \A d \in Callers \ {c} : UNCHANGED <<pc[d], alone[d], size[d], expired[d]>>,
         Inside(c), alone'[c] => alone[c] /\ Inside(c)',
         pc'[c] \notin {"scan", "delete"}, expired'[c] = {}
  PROVE  LoneInv'
<1>1. AloneIsAlone'
  BY DEF LoneInv, AloneIsAlone, Inside
<1>2. Begun'
  BY DEF LoneInv, Begun
<1>3. LoneSweep'
  BY DEF LoneInv, LoneSweep, AloneIsAlone, Inside
<1> QED BY <1>1, <1>2, <1>3 DEF LoneInv

\* The end of a call, whichever it is, keeps the others as they were.
LEMMA LeaveKeepsLone ==
  ASSUME TypeOK, LoneInv, NEW c \in Callers, Inside(c), Leave(c)
  PROVE  LoneInv'
<1>1. /\ \A d \in Callers \ {c} : UNCHANGED <<pc[d], alone[d], size[d], expired[d]>>
      /\ alone'[c] = FALSE /\ pc'[c] = "idle" /\ expired'[c] = {}
  BY DEF TypeOK, Leave, Goto
<1> QED BY <1>1, LoneKept

\* The invariant about lone calls is inductive.
LEMMA LoneInductive == TypeOK /\ LoneInv /\ [Next]_vars => LoneInv'
<1> SUFFICES ASSUME TypeOK, LoneInv, [Next]_vars PROVE LoneInv'
  OBVIOUS
<1>1. ASSUME NEW c \in Callers, Enter(c) PROVE LoneInv'
  <2>1. /\ pc[c] = "idle" /\ pc'[c] \in {"note", "sweep"}
        /\ \A d \in Callers \ {c} : pc'[d] = pc[d]
        /\ \A d \in Callers : alone'[d] = IF d = c THEN \A e \in Callers \ {c} : ~ Inside(e)
                                                  ELSE FALSE
        /\ UNCHANGED <<expired, size, present>>
    BY <1>1 DEF Enter, Goto, TypeOK, shared, sweeping
  <2>2. AloneIsAlone'
    BY <2>1 DEF AloneIsAlone, Inside
  <2>3. Begun'
    BY <2>1 DEF LoneInv, Begun
  <2>4. LoneSweep'
    BY <2>1 DEF LoneSweep
  <2> QED BY <2>2, <2>3, <2>4 DEF LoneInv
<1>2. ASSUME NEW c \in Callers, BeginSweep(c) PROVE LoneInv'
  <2>1. /\ pc[c] = "sweep" /\ pc'[c] = "scan" /\ expired[c] = {}
        /\ \A d \in Callers \ {c} : pc'[d] = pc[d] /\ size'[d] = size[d]
        /\ size'[c] = Cardinality(present) /\ UNCHANGED <<expired, alone, present>>
    BY <1>2 DEF BeginSweep, Goto, TypeOK, LoneInv, Begun
  <2>2. AloneIsAlone' /\ Begun'
    BY <2>1 DEF LoneInv, Begun, AloneIsAlone, Inside
  <2>3. LoneSweep'
    BY <2>1 DEF LoneInv, LoneSweep
  <2> QED BY <2>2, <2>3 DEF LoneInv
<1>3. ASSUME NEW c \in Callers, Crash(c), Inside(c) PROVE LoneInv'
  BY <1>3, LeaveKeepsLone DEF Crash
<1>4. ASSUME NEW c \in Callers, ScanEnds(c) PROVE LoneInv'
  <2>1. /\ pc[c] = "scan" /\ pc'[c] = "delete"
        /\ \A d \in Callers \ {c} : pc'[d] = pc[d]
        /\ UNCHANGED <<expired, alone, present, size>>
    BY <1>4 DEF ScanEnds, Goto, TypeOK, shared, sweeping
  <2>2. AloneIsAlone' /\ Begun'
    BY <2>1 DEF LoneInv, Begun, AloneIsAlone, Inside
  <2>3. LoneSweep'
    BY <2>1 DEF LoneInv, LoneSweep
  <2> QED BY <2>2, <2>3 DEF LoneInv
<1>5. ASSUME NEW c \in Callers, NEW k \in todo[c], ScanLooks(c, k) PROVE LoneInv'
  <2>1. /\ pc[c] = "scan" /\ UNCHANGED <<pc, alone, present, size>>
        /\ \A d \in Callers \ {c} : expired'[d] = expired[d]
        /\ expired'[c] \subseteq expired[c] \cup present
    <3>1. /\ pc[c] = "scan" /\ UNCHANGED <<pc, alone, present, size>>
          /\ \/ UNCHANGED expired
             \/ k \in present /\ expired' = [expired EXCEPT ![c] = @ \cup {k}]
      BY <1>5 DEF ScanLooks, shared
    <3>2. expired \in [Callers -> SUBSET Keys]
      BY DEF TypeOK
    <3> QED BY <3>1, <3>2
  <2>2. AloneIsAlone' /\ Begun'
    BY <2>1 DEF LoneInv, Begun, AloneIsAlone, Inside
  <2>3. LoneSweep'
    BY <2>1 DEF LoneInv, LoneSweep
  <2> QED BY <2>2, <2>3 DEF LoneInv
<1>6. ASSUME NEW c \in Callers, NEW k \in expired[c], DeletesKey(c, k) PROVE LoneInv'
  <2>1. /\ pc[c] = "delete" /\ UNCHANGED <<pc, alone, size>> /\ present' = present \ {k}
        /\ \A d \in Callers \ {c} : expired'[d] = expired[d]
        /\ expired'[c] = expired[c] \ {k}
    BY <1>6 DEF DeletesKey, TypeOK
  <2>2. AloneIsAlone' /\ Begun'
    BY <2>1 DEF LoneInv, Begun, AloneIsAlone, Inside
  <2>3. LoneSweep'
    BY <2>1 DEF LoneInv, LoneSweep, AloneIsAlone, Inside
  <2> QED BY <2>2, <2>3 DEF LoneInv
<1>7. ASSUME NEW c \in Callers, DeleteEnds(c) PROVE LoneInv'
  <2>1. /\ \A d \in Callers \ {c} : UNCHANGED <<pc[d], alone[d], size[d], expired[d]>>
        /\ pc[c] = "delete" /\ pc'[c] = "note" /\ alone'[c] = alone[c] /\ expired'[c] = {}
    BY <1>7 DEF DeleteEnds, Goto, TypeOK, sweeping
  <2> QED BY <2>1, LoneKept DEF Inside
<1>8. ASSUME NEW c \in Callers,
             NoteWindow(c) \/ Trim(c) \/ Store(c) \/ (Count(c) /\ ~ Leave(c))
      PROVE  LoneInv'
  <2>1. /\ \A d \in Callers \ {c} : UNCHANGED <<pc[d], alone[d], size[d], expired[d]>>
        /\ pc[c] \in {"note", "trim", "store", "count"}
        /\ pc'[c] \in {"trim", "store", "count", "append"}
        /\ alone'[c] = alone[c] /\ expired'[c] = expired[c]
    BY <1>8 DEF NoteWindow, Trim, Store, Count, Goto, TypeOK, sweeping
  <2>2. expired[c] = {}
    BY <2>1 DEF LoneInv, Begun
  <2> QED BY <2>1, <2>2, LoneKept DEF Inside
<1>9. ASSUME NEW c \in Callers, (Count(c) /\ Leave(c)) \/ RecordHit(c) PROVE LoneInv'
  BY <1>9, LeaveKeepsLone DEF Count, RecordHit, Inside
<1>10. CASE Tick \/ UNCHANGED vars
  BY <1>10 DEF Tick, vars, shared, sweeping, LoneInv, AloneIsAlone, LoneSweep, Begun, Inside
<1>11. ASSUME NEW c \in Callers, Scan(c) \/ Delete(c) PROVE LoneInv'
  <2>1. Inside(c)
    BY <1>11 DEF Scan, Delete, Inside
  <2> QED BY <1>3, <1>4, <1>5, <1>6, <1>7, <1>11, <2>1, SweepSteps
<1>12. ASSUME NEW c \in Callers, NoteWindow(c) \/ Trim(c) \/ Store(c) \/ Count(c) \/ RecordHit(c)
       PROVE  LoneInv'
  <2>1. CASE Leave(c)
    BY <1>8, <1>9, <1>12, <2>1
  <2>2. CASE ~ Leave(c)
    BY <1>8, <1>9, <1>12, <2>2
  <2> QED BY <2>1, <2>2
<1> QED BY <1>1, <1>2, <1>10, <1>11, <1>12 DEF Next, Rest

\* It holds of a process that has just started.
LEMMA InitLone == Init => TypeOK /\ PresentFinite /\ LoneInv
<1> SUFFICES ASSUME Init PROVE TypeOK /\ PresentFinite /\ LoneInv
  OBVIOUS
<1>1. <<>> \in Seq(Times) /\ <<>> \in Seq(Hit) /\ 0 \in Times
  BY LimitAssumption DEF Times
<1>2. (CHOOSE k \in Keys : TRUE) \in Keys
  BY LimitAssumption
<1>3. TypeOK
  BY <1>1, <1>2 DEF Init, TypeOK
<1>4. PresentFinite
  BY FS_EmptySet DEF Init, PresentFinite
<1>5. LoneInv
  BY DEF Init, LoneInv, AloneIsAlone, LoneSweep, Begun
<1> QED BY <1>3, <1>4, <1>5

\* Only a call that another overlaps can fail: the dictionary that the sweep of any other
\* iterates over stays as it was (rate_limit.py:25-43).
THEOREM LoneCallsSucceed == Spec => FailsOnlyOverlapped
<1>1. TypeOK /\ LoneInv /\ [Next]_vars => [\A c \in Callers : alone[c] => crashed' = crashed]_vars
  <2> SUFFICES ASSUME TypeOK, LoneInv, [Next]_vars, NEW c \in Callers, alone[c], crashed' # crashed
               PROVE  FALSE
    OBVIOUS
  <2>1. PICK d \in Callers : Crash(d) /\ (Scan(d) \/ Delete(d))
    BY DEF Next, Enter, BeginSweep, Scan, Delete, NoteWindow, Trim, Store, Count, RecordHit,
       Tick, Rest, vars, history
  <2>2. \/ pc[d] = "scan" /\ Cardinality(present) # size[d]
        \/ pc[d] = "delete" /\ \E k \in expired[d] : k \notin present
    BY <2>1 DEF Scan, Delete, Crash, Leave, Goto, TypeOK, shared, sweeping, history
  <2>3. d = c
    BY <2>2 DEF LoneInv, AloneIsAlone, Inside
  <2> QED BY <2>2, <2>3 DEF LoneInv, LoneSweep
<1> QED BY <1>1, InitLone, TypeInductive, LoneInductive, PTL DEF Spec, FailsOnlyOverlapped

-----------------------------------------------------------------------------
(* Which hits are still counted. *)

\* The entries P of v are among the entries Q of w, each on its own.
Embeds(P, v, Q, w) ==
  \E f \in [P -> Q] : /\ \A i, j \in P : f[i] = f[j] => i = j
                      /\ \A i \in P : w[f[i]] = v[i]

\* Nothing is among anything.
LEMMA EmbedsNothing == \A v, Q, w : Embeds({}, v, Q, w)
<1> TAKE v, Q, w
<1>1. PICK f : f = [i \in {} |-> {}]
  OBVIOUS
<1>2. f \in [{} -> Q]
  BY <1>1
<1> QED BY <1>2 DEF Embeds

\* What is among the entries of a list is among those that list is among.
LEMMA EmbedsThrough ==
  ASSUME NEW P, NEW v, NEW Q, NEW w, NEW R, NEW x, Embeds(P, v, Q, w), Embeds(Q, w, R, x)
  PROVE  Embeds(P, v, R, x)
<1>1. PICK f \in [P -> Q] : (\A i, j \in P : f[i] = f[j] => i = j) /\ \A i \in P : w[f[i]] = v[i]
  BY DEF Embeds
<1>2. PICK g \in [Q -> R] : (\A i, j \in Q : g[i] = g[j] => i = j) /\ \A i \in Q : x[g[i]] = w[i]
  BY DEF Embeds
<1>3. PICK h : h = [i \in P |-> g[f[i]]]
  OBVIOUS
<1>4. h \in [P -> R] /\ \A i \in P : h[i] = g[f[i]] /\ f[i] \in Q
  BY <1>1, <1>2, <1>3
<1>5. (\A i, j \in P : h[i] = h[j] => i = j) /\ \A i \in P : x[h[i]] = v[i]
  BY <1>1, <1>2, <1>4
<1> QED BY <1>4, <1>5 DEF Embeds

\* Fewer entries among more.
LEMMA EmbedsWithin ==
  ASSUME NEW P, NEW v, NEW Q, NEW w, Embeds(P, v, Q, w),
         NEW A, NEW a, NEW B, NEW b, A \subseteq P, \A i \in A : a[i] = v[i],
         Q \subseteq B, \A i \in Q : b[i] = w[i]
  PROVE  Embeds(A, a, B, b)
<1>1. PICK f \in [P -> Q] : (\A i, j \in P : f[i] = f[j] => i = j) /\ \A i \in P : w[f[i]] = v[i]
  BY DEF Embeds
<1>2. PICK h : h = [i \in A |-> f[i]]
  OBVIOUS
<1>3. h \in [A -> B] /\ \A i \in A : h[i] = f[i] /\ f[i] \in Q /\ i \in P
  BY <1>1, <1>2
<1>4. (\A i, j \in A : h[i] = h[j] => i = j) /\ \A i \in A : b[h[i]] = a[i]
  BY <1>1, <1>3
<1> QED BY <1>3, <1>4 DEF Embeds

\* One more entry of each.
LEMMA EmbedsOneMore ==
  ASSUME NEW P, NEW v, NEW Q, NEW w, Embeds(P, v, Q, w), NEW p, NEW q, p \notin P, q \notin Q,
         NEW a, NEW b, \A i \in P : a[i] = v[i], \A i \in Q : b[i] = w[i], a[p] = b[q]
  PROVE  Embeds(P \cup {p}, a, Q \cup {q}, b)
<1>1. PICK f \in [P -> Q] : (\A i, j \in P : f[i] = f[j] => i = j) /\ \A i \in P : w[f[i]] = v[i]
  BY DEF Embeds
<1>2. PICK h : h = [i \in P \cup {p} |-> IF i = p THEN q ELSE f[i]]
  OBVIOUS
<1>3. h[p] = q /\ \A i \in P : h[i] = f[i] /\ f[i] \in Q
  BY <1>1, <1>2
<1>4. h \in [P \cup {p} -> Q \cup {q}]
  <2>1. \A i \in P \cup {p} : h[i] \in Q \cup {q}
    BY <1>3
  <2> QED BY <1>2, <2>1
<1>5. \A i, j \in P \cup {p} : h[i] = h[j] => i = j
  BY <1>1, <1>3
<1>6. \A i \in P \cup {p} : b[h[i]] = a[i]
  BY <1>1, <1>3
<1> QED BY <1>4, <1>5, <1>6 DEF Embeds

\* Entries on their own among others are no more than they are.
LEMMA EmbedsFewer ==
  ASSUME NEW P, NEW v, NEW Q, NEW w, Embeds(P, v, Q, w), IsFiniteSet(Q)
  PROVE  IsFiniteSet(P) /\ Cardinality(P) <= Cardinality(Q)
<1>1. PICK f \in [P -> Q] : \A i, j \in P : f[i] = f[j] => i = j
  BY DEF Embeds
<1>2. f \in Injection(P, Q)
  BY <1>1 DEF Injection, IsInjective
<1> QED BY <1>2, FS_Injection

RecentKeeps(k, s, t) ==
  /\ t \in Seq(Times) /\ \A i \in DOMAIN t : InWindow(k, t[i])
  /\ Embeds(DOMAIN t, t, DOMAIN s, s)
  /\ Embeds({m \in DOMAIN s : InWindow(k, s[m])}, s, DOMAIN t, t)
  /\ \A i, j \in DOMAIN t : i <= j =>
       \E m, n \in DOMAIN s : m <= n /\ t[i] = s[m] /\ t[j] = s[n]

\* What a call keeps are hits on record, and all those in the window.
LEMMA RecentEmbeds ==
  ASSUME NEW k, NEW s, s = hits[k], s \in Seq(Times), NEW t, t = Recent(k)
  PROVE  RecentKeeps(k, s, t)
<1>1. PICK p : Picks(p, t, k, Len(s))
  BY RecentPicks
<1>2. /\ t \in Seq(Times) /\ p \in [DOMAIN t -> DOMAIN s]
      /\ \A i, j \in DOMAIN t : i < j => p[i] < p[j]
      /\ \A i \in DOMAIN t : t[i] = s[p[i]] /\ InWindow(k, t[i])
      /\ \A m \in DOMAIN s : InWindow(k, s[m]) => \E i \in DOMAIN t : p[i] = m
      /\ DOMAIN t \subseteq Nat /\ DOMAIN s \subseteq Nat
  BY <1>1 DEF Picks
<1>3. \A i, j \in DOMAIN t : p[i] = p[j] => i = j
  <2> SUFFICES ASSUME NEW i \in DOMAIN t, NEW j \in DOMAIN t, p[i] = p[j], i # j PROVE FALSE
    OBVIOUS
  <2>1. i \in Nat /\ j \in Nat /\ p[i] \in Nat /\ p[j] \in Nat
    BY <1>2
  <2>2. i < j \/ j < i
    BY <2>1
  <2> QED BY <1>2, <2>1, <2>2
<1>4. Embeds(DOMAIN t, t, DOMAIN s, s)
  BY <1>2, <1>3 DEF Embeds
<1>5. Embeds({m \in DOMAIN s : InWindow(k, s[m])}, s, DOMAIN t, t)
  <2>1. PICK M : M = {m \in DOMAIN s : InWindow(k, s[m])}
    OBVIOUS
  <2>2. PICK q : q = [m \in M |-> CHOOSE i \in DOMAIN t : p[i] = m]
    OBVIOUS
  <2>3. \A m \in M : q[m] \in DOMAIN t /\ p[q[m]] = m
    BY <1>2, <2>1, <2>2
  <2>4. q \in [M -> DOMAIN t]
    BY <2>2, <2>3
  <2>5. \A m \in M : t[q[m]] = s[m]
    BY <1>2, <2>3
  <2>6. \A m, n \in M : q[m] = q[n] => m = n
    BY <2>3
  <2> QED BY <2>1, <2>4, <2>5, <2>6 DEF Embeds
<1>6. ASSUME NEW i \in DOMAIN t, NEW j \in DOMAIN t, i <= j
      PROVE  \E m, n \in DOMAIN s : m <= n /\ t[i] = s[m] /\ t[j] = s[n]
  <2>1. p[i] \in DOMAIN s /\ p[j] \in DOMAIN s /\ t[i] = s[p[i]] /\ t[j] = s[p[j]]
    BY <1>2
  <2>2. p[i] <= p[j]
    <3>1. i \in Nat /\ j \in Nat /\ p[i] \in Nat /\ p[j] \in Nat
      BY <1>2, <2>1
    <3> QED BY <1>2, <1>6, <3>1
  <2> QED BY <2>1, <2>2
<1> QED BY <1>2, <1>4, <1>5, <1>6 DEF RecentKeeps

\* The same entries among only some of those they may be among.
LEMMA EmbedsAmong ==
  ASSUME NEW P, NEW v, NEW Q, NEW w, Embeds(P, v, Q, w), NEW B,
         \A q \in Q : (\E i \in P : w[q] = v[i]) => q \in B
  PROVE  Embeds(P, v, B, w)
<1>1. PICK f \in [P -> Q] : (\A i, j \in P : f[i] = f[j] => i = j) /\ \A i \in P : w[f[i]] = v[i]
  BY DEF Embeds
<1>2. \A i \in P : f[i] \in B
  BY <1>1
<1>3. f \in [P -> B]
  BY <1>1, <1>2
<1> QED BY <1>1, <1>3 DEF Embeds

-----------------------------------------------------------------------------
(* The limit.  Every list of hits that is stored for a key, or about to be,  *)
(* has only hits on record, and all those in the window that were let        *)
(* through by calls that overlapped no other.                                *)

At == [i \in 1..Len(accepted) |-> accepted[i].at]

OfKey(k) == {i \in 1..Len(accepted) : accepted[i].key = k}

AloneNow(k) == {i \in AcceptedNow(k) : accepted[i].alone}

Holds(k, s) ==
  /\ \A i, j \in DOMAIN s : i <= j => s[i] <= s[j] /\ s[j] <= clock
  /\ Embeds(DOMAIN s, s, OfKey(k), At)
  /\ Embeds(AloneNow(k), At, DOMAIN s, s)

Listed(k, s) == hits[k] = s \/ \E c \in Callers : pc[c] = "store" /\ key[c] = k /\ kept[c] = s

ListsHold == \A k \in Keys, s \in Seq(Times) : Listed(k, s) => Holds(k, s)

\* The hits that are counted are in the window.
Trimmed ==
  \A c \in Callers, k \in Keys : key[c] = k =>
    /\ pc[c] = "store" => \A i \in DOMAIN kept[c] : InWindow(k, kept[c][i])
    /\ pc[c] = "count" => \A i \in DOMAIN hits[k] : InWindow(k, hits[k][i])

\* A sweep takes away nothing that the limit needs,
Spared == \A c \in Callers : \A k \in expired[c] : AloneNow(k) = {}

\* for it knows the windows.
Noted ==
  /\ \A k \in Keys : AloneNow(k) # {} => windows[k] = Window[k]
  /\ \A c \in Callers, k \in Keys :
       alone[c] /\ key[c] = k /\ pc[c] \in {"trim", "store", "count", "append"}
         => windows[k] = Window[k]

Room ==
  \A c \in Callers, k \in Keys :
    alone[c] /\ key[c] = k /\ pc[c] = "append" => Len(hits[k]) < Limit[k]

Limited == \A k \in Keys : Cardinality(AloneNow(k)) <= Limit[k]

LimitInv == ListsHold /\ Trimmed /\ Spared /\ Noted /\ Room /\ Limited

\* The hits on record of a key that are in its window.
LEMMA AcceptedTypes ==
  ASSUME TypeOK, NEW k \in Keys
  PROVE  /\ Len(accepted) \in Nat /\ \A i \in 1..Len(accepted) : accepted[i] \in Hit
         /\ AloneNow(k) \subseteq 1..Len(accepted) /\ IsFiniteSet(AloneNow(k))
         /\ AcceptedNow(k) \subseteq 1..Len(accepted) /\ IsFiniteSet(AcceptedNow(k))
<1>1. Len(accepted) \in Nat /\ \A i \in 1..Len(accepted) : accepted[i] \in Hit
  BY DEF TypeOK
<1>2. AloneNow(k) \subseteq 1..Len(accepted) /\ AcceptedNow(k) \subseteq 1..Len(accepted)
  BY DEF AloneNow, AcceptedNow
<1>3. IsFiniteSet(1..Len(accepted))
  BY <1>1, FS_Interval
<1> QED BY <1>1, <1>2, <1>3, FS_Subset

\* As many hits in a list as have been let through, at least.
LEMMA HeldFewer ==
  ASSUME TypeOK, NEW k \in Keys, NEW s \in Seq(Times), Holds(k, s)
  PROVE  /\ Cardinality(AloneNow(k)) <= Len(s)
         /\ (\A i \in DOMAIN s : InWindow(k, s[i])) => Len(s) <= Cardinality(AcceptedNow(k))
<1>1. DOMAIN s = 1..Len(s) /\ Len(s) \in Nat
  OBVIOUS
<1>2. IsFiniteSet(1..Len(s)) /\ Cardinality(1..Len(s)) = Len(s)
  BY <1>1, FS_Interval
<1>3. Cardinality(AloneNow(k)) <= Len(s)
  BY <1>1, <1>2, EmbedsFewer DEF Holds
<1>4. ASSUME \A i \in DOMAIN s : InWindow(k, s[i])
      PROVE  Len(s) <= Cardinality(AcceptedNow(k))
  <2>1. \A q \in OfKey(k) : (\E i \in DOMAIN s : At[q] = s[i]) => q \in AcceptedNow(k)
    BY <1>4 DEF OfKey, At, AcceptedNow, InWindow
  <2>2. Embeds(DOMAIN s, s, AcceptedNow(k), At)
    BY <2>1, EmbedsAmong DEF Holds
  <2> QED BY <1>1, <1>2, <2>2, AcceptedTypes, EmbedsFewer
<1> QED BY <1>3, <1>4

\* LimitInv says what LimitIsLimit says.
LEMMA LimitedIsLimit == TypeOK /\ LimitInv => LimitIsLimit
<1> SUFFICES ASSUME TypeOK, LimitInv PROVE LimitIsLimit
  OBVIOUS
<1>1. \A k \in Keys : Cardinality({i \in AcceptedNow(k) : accepted[i].alone}) <= Limit[k]
  BY DEF LimitInv, Limited, AloneNow
<1>2. ASSUME NEW c \in Callers, pc[c] = "count", AtLimit(key[c])
      PROVE  Cardinality(AcceptedNow(key[c])) >= Limit[key[c]]
  <2>1. PICK k \in Keys, s \in Seq(Times) : k = key[c] /\ s = hits[k]
    BY DEF TypeOK
  <2>2. Holds(k, s)
    BY <2>1 DEF LimitInv, ListsHold, Listed
  <2>3. \A i \in DOMAIN s : InWindow(k, s[i])
    BY <1>2, <2>1 DEF LimitInv, Trimmed
  <2>4. Len(s) <= Cardinality(AcceptedNow(k)) /\ Len(s) >= Limit[k]
    BY <1>2, <2>1, <2>2, <2>3, HeldFewer DEF AtLimit
  <2>5. Cardinality(AcceptedNow(k)) \in Nat /\ Limit[k] \in Nat /\ Len(s) \in Nat
    BY AcceptedTypes, FS_CardinalityType, LimitAssumption
  <2> QED BY <2>1, <2>4, <2>5
<1> QED BY <1>1, <1>2 DEF LimitIsLimit

\* What holds goes on to, while no hit is recorded and the clock stands still;
LEMMA HoldsSame ==
  ASSUME UNCHANGED <<accepted, clock>>
  PROVE  /\ \A k, s : Holds(k, s)' = Holds(k, s)
         /\ \A k : AloneNow(k)' = AloneNow(k)
         /\ \A k, t : InWindow(k, t)' = InWindow(k, t)
<1>1. /\ At' = At /\ \A k : OfKey(k)' = OfKey(k) /\ AloneNow(k)' = AloneNow(k)
      /\ \A k, t : InWindow(k, t)' = InWindow(k, t)
  BY DEF At, OfKey, AloneNow, AcceptedNow, InWindow
<1> QED BY <1>1 DEF Holds

\* when a hit is that of another key, or of a call that overlapped others;
LEMMA HoldsLater ==
  ASSUME TypeOK, NEW h \in Hit, accepted' = Append(accepted, h), UNCHANGED clock,
         NEW k \in Keys, h.key # k \/ ~ h.alone
  PROVE  /\ AloneNow(k)' = AloneNow(k)
         /\ \A s : Holds(k, s) => Holds(k, s)'
<1>1. /\ Len(accepted) \in Nat /\ Len(accepted') = Len(accepted) + 1
      /\ \A i \in 1..Len(accepted) : accepted'[i] = accepted[i]
      /\ accepted'[Len(accepted) + 1] = h
  <2>1. accepted \in Seq(Hit)
    BY DEF TypeOK
  <2> QED BY <2>1
<1>2. /\ AloneNow(k)' = AloneNow(k) /\ AloneNow(k) \subseteq 1..Len(accepted)
      /\ OfKey(k) \subseteq OfKey(k)' /\ OfKey(k) \subseteq 1..Len(accepted)
      /\ \A i \in 1..Len(accepted) : At'[i] = At[i]
  BY <1>1 DEF AloneNow, AcceptedNow, OfKey, At
<1>3. ASSUME NEW s, Holds(k, s) PROVE Holds(k, s)'
  <2>1. PICK at, atn, al, of, ofn :
          at = At /\ atn = At' /\ al = AloneNow(k) /\ of = OfKey(k) /\ ofn = OfKey(k)'
    OBVIOUS
  <2>2. /\ al \subseteq 1..Len(accepted) /\ of \subseteq ofn /\ of \subseteq 1..Len(accepted)
        /\ \A i \in 1..Len(accepted) : atn[i] = at[i]
        /\ Embeds(DOMAIN s, s, of, at) /\ Embeds(al, at, DOMAIN s, s)
    BY <1>2, <1>3, <2>1 DEF Holds
  <2>3. PICK D : D = DOMAIN s
    OBVIOUS
  <2>4. Embeds(D, s, ofn, atn)
    <3>1. Embeds(D, s, of, at) /\ D \subseteq D /\ \A i \in D : s[i] = s[i]
      BY <2>2, <2>3
    <3>2. of \subseteq ofn /\ \A i \in of : atn[i] = at[i]
      BY <2>2
    <3> QED BY ONLY <3>1, <3>2, EmbedsWithin
  <2>5. Embeds(al, atn, D, s)
    <3>1. Embeds(al, at, D, s) /\ D \subseteq D /\ \A i \in D : s[i] = s[i]
      BY <2>2, <2>3
    <3>2. al \subseteq al /\ \A i \in al : atn[i] = at[i]
      BY <2>2
    <3> QED BY ONLY <3>1, <3>2, EmbedsWithin, Zenon
  <2> QED BY <1>2, <1>3, <2>1, <2>3, <2>4, <2>5 DEF Holds
<1> QED BY <1>2, <1>3

\* of a list with a hit that has just been recorded;
LEMMA HoldsRecorded ==
  ASSUME TypeOK, NEW h \in Hit, accepted' = Append(accepted, h), UNCHANGED clock, h.at = clock,
         NEW k \in Keys, h.key = k, NEW s \in Seq(Times), Holds(k, s), NEW t, t = Append(s, clock)
  PROVE  /\ AloneNow(k)' \subseteq AloneNow(k) \cup {Len(accepted) + 1}
         /\ Holds(k, t)'
<1>1. /\ Len(accepted) \in Nat /\ Len(accepted') = Len(accepted) + 1
      /\ \A i \in 1..Len(accepted) : accepted'[i] = accepted[i]
      /\ accepted'[Len(accepted) + 1] = h
  <2>1. accepted \in Seq(Hit)
    BY DEF TypeOK
  <2> QED BY <2>1
<1>2. /\ clock \in Int /\ clock - clock < Window[k] /\ Len(s) \in Nat /\ clock \in Times
      /\ h.alone \in BOOLEAN /\ DOMAIN s = 1..Len(s)
  <2>1. clock \in Times /\ clock \in Int
    BY LimitAssumption DEF TypeOK, Times
  <2>2. Window[k] \in Int /\ 0 < Window[k]
    BY LimitAssumption
  <2> QED BY <2>1, <2>2 DEF Hit
<1>3. PICK at, atn, al, aln, of, ofn, n, m :
        /\ at = At /\ atn = At' /\ al = AloneNow(k) /\ aln = AloneNow(k)'
        /\ of = OfKey(k) /\ ofn = OfKey(k)' /\ n = Len(accepted) + 1 /\ m = Len(s) + 1
  OBVIOUS
<1>4. /\ ofn = of \cup {n} /\ n \notin of /\ n \notin al
      /\ \A i \in of \cup al : atn[i] = at[i]
      /\ atn[n] = clock
      /\ IF h.alone THEN aln = al \cup {n} ELSE aln = al
  <2>1. /\ 1..Len(accepted') = (1..Len(accepted)) \cup {n} /\ n \notin 1..Len(accepted)
        /\ \A i \in 1..Len(accepted) : accepted'[i] = accepted[i]
        /\ accepted'[n] = h
    BY <1>1, <1>3
  <2>2. /\ ofn = of \cup {n} /\ of \subseteq 1..Len(accepted)
    BY <1>3, <2>1 DEF OfKey
  <2>3. /\ atn[n] = clock
        /\ \A i \in 1..Len(accepted) : atn[i] = at[i]
    BY <1>3, <2>1 DEF At
  <2>4. /\ al \subseteq 1..Len(accepted)
        /\ IF h.alone THEN aln = al \cup {n} ELSE aln = al
    BY <1>2, <1>3, <2>1 DEF AloneNow, AcceptedNow
  <2> QED BY <2>1, <2>2, <2>3, <2>4
<1>5. /\ m \notin DOMAIN s /\ DOMAIN t = DOMAIN s \cup {m} /\ t[m] = clock
      /\ \A i \in DOMAIN s : t[i] = s[i]
  <2>1. s \in Seq(Times) /\ clock \in Times
    BY <1>2
  <2> QED BY <1>2, <1>3, <2>1
<1>d. PICK D : D = DOMAIN s
  OBVIOUS
<1>6. Embeds(D, s, of, at)
  BY <1>3, <1>d DEF Holds
<1>a. Embeds(al, at, D, s)
  BY <1>3, <1>d DEF Holds
<1>7. Embeds(DOMAIN t, t, ofn, atn)
  <2>1. Embeds(D \cup {m}, t, of \cup {n}, atn)
    <3>1. /\ \A i \in D : t[i] = s[i]
          /\ \A i \in of : atn[i] = at[i]
          /\ m \notin D /\ n \notin of /\ t[m] = atn[n]
      BY <1>4, <1>5, <1>d
    <3> QED BY ONLY <1>6, <3>1, EmbedsOneMore, Zenon
  <2> QED BY <1>4, <1>5, <1>d, <2>1
<1>8. Embeds(aln, atn, DOMAIN t, t)
  <2>1. CASE h.alone
    <3>1. Embeds(al \cup {n}, atn, D \cup {m}, t)
      <4>1. /\ \A i \in D : t[i] = s[i]
            /\ \A i \in al : atn[i] = at[i]
            /\ m \notin D /\ n \notin al /\ t[m] = atn[n]
        BY <1>4, <1>5, <1>d
      <4> QED BY ONLY <1>a, <4>1, EmbedsOneMore, Zenon
    <3> QED BY <1>4, <1>5, <1>d, <2>1, <3>1
  <2>2. CASE ~ h.alone
    <3>1. /\ \A i \in DOMAIN s : t[i] = s[i]
          /\ \A i \in aln : atn[i] = at[i]
          /\ DOMAIN s \subseteq DOMAIN t /\ aln \subseteq al
      BY <1>4, <1>5, <2>2
    <3>2. PICK P, Q : P = DOMAIN s /\ Q = DOMAIN t
      OBVIOUS
    <3>3. Embeds(al, at, P, s)
      BY <1>a, <1>d, <3>2
    <3>5. aln \subseteq al /\ \A i \in aln : atn[i] = at[i]
      BY <3>1
    <3>6. P \subseteq Q /\ \A i \in P : t[i] = s[i]
      BY <3>1, <3>2
    <3>4. Embeds(aln, atn, Q, t)
      <4>1. PICK f \in [al -> P] : /\ \A i, j \in al : f[i] = f[j] => i = j
                                  /\ \A i \in al : s[f[i]] = at[i]
        BY <3>3 DEF Embeds
      <4>2. PICK g : g = [i \in aln |-> f[i]]
        OBVIOUS
      <4>3. /\ g \in [aln -> Q] /\ \A i \in aln : g[i] = f[i] /\ f[i] \in P /\ i \in al
        BY <3>5, <3>6, <4>2
      <4>4. (\A i, j \in aln : g[i] = g[j] => i = j) /\ \A i \in aln : t[g[i]] = atn[i]
        <5>1. ASSUME NEW i \in aln PROVE t[g[i]] = atn[i]
          <6>1. s[f[i]] = at[i] /\ atn[i] = at[i] /\ f[i] \in P
            BY <3>5, <4>1, <4>3
          <6>2. t[f[i]] = s[f[i]]
            BY <3>6, <6>1, Zenon
          <6> QED BY <4>3, <6>1, <6>2, Zenon
        <5>2. \A i, j \in aln : g[i] = g[j] => i = j
          BY <4>1, <4>3, Zenon
        <5> QED BY <5>1, <5>2
      <4> QED BY <4>3, <4>4 DEF Embeds
    <3> QED BY <3>2, <3>4
  <2> QED BY <1>2, <2>1, <2>2
<1>9. ASSUME NEW i \in DOMAIN t, NEW j \in DOMAIN t, i <= j
      PROVE  t[i] <= t[j] /\ t[j] <= clock
  <2>1. \A x, y \in DOMAIN s : x <= y => s[x] <= s[y] /\ s[y] <= clock
    BY DEF Holds
  <2>2. \A x \in DOMAIN s : s[x] <= clock /\ x < m
    BY <1>2, <1>3, <2>1
  <2> QED BY <1>2, <1>3, <1>5, <1>9, <2>1, <2>2
<1> QED BY <1>3, <1>4, <1>7, <1>8, <1>9 DEF Holds

\* and when the clock moves on.
LEMMA HoldsTick ==
  ASSUME TypeOK, Tick, NEW k \in Keys
  PROVE  /\ AloneNow(k)' \subseteq AloneNow(k)
         /\ \A s \in Seq(Times) : Holds(k, s) => Holds(k, s)'
<1>1. clock' = clock + 1 /\ UNCHANGED accepted /\ clock \in Int
  BY DEF Tick, TypeOK, Times, history
<1>2. AloneNow(k)' \subseteq AloneNow(k) /\ At' = At /\ OfKey(k)' = OfKey(k)
  <2>1. \A i \in 1..Len(accepted) : accepted[i].at \in Int /\ Window[k] \in Int
    BY AcceptedTypes, LimitAssumption DEF Hit, Times
  <2> QED BY <1>1, <2>1 DEF AloneNow, AcceptedNow, At, OfKey
<1>3. ASSUME NEW s \in Seq(Times), Holds(k, s) PROVE Holds(k, s)'
  <2>1. \A i, j \in DOMAIN s : i <= j => s[i] <= s[j] /\ s[j] <= clock'
    <3>1. \A j \in DOMAIN s : s[j] \in Int
      <4>1. \A j \in DOMAIN s : s[j] \in Times
        OBVIOUS
      <4> QED BY <4>1, LimitAssumption DEF Times
    <3> QED BY <1>1, <1>3, <3>1 DEF Holds
  <2>2. PICK aln, al, at : aln = AloneNow(k)' /\ al = AloneNow(k) /\ at = At
    OBVIOUS
  <2>3. Embeds(aln, at, DOMAIN s, s)
    <3>1. Embeds(al, at, DOMAIN s, s) /\ aln \subseteq al
      BY <1>2, <1>3, <2>2 DEF Holds
    <3> QED BY <3>1, EmbedsWithin
  <2> QED BY <1>2, <1>3, <2>1, <2>2, <2>3 DEF Holds
<1> QED BY <1>2, <1>3

-----------------------------------------------------------------------------
(* The steps. *)

\* A step at which no hit is recorded keeps the lists that it leaves as they are.
LEMMA ListsKept ==
  ASSUME ListsHold, UNCHANGED <<accepted, clock>>,
         \A k \in Keys, s \in Seq(Times) : Listed(k, s)' => Listed(k, s) \/ Holds(k, s)
  PROVE  ListsHold'
BY HoldsSame DEF ListsHold

\* A step that touches neither the lists nor the windows, by a call that does not count.
LEMMA QuietKeeps ==
  ASSUME TypeOK, LimitInv, NEW c \in Callers, UNCHANGED <<hits, windows, accepted, clock>>,
         \A d \in Callers \ {c} : /\ UNCHANGED <<pc[d], key[d], kept[d], expired[d]>>
                                  /\ alone'[d] => alone[d],
         pc'[c] \notin {"trim", "store", "count", "append"},
         \A k \in expired'[c] : AloneNow(k) = {}
  PROVE  LimitInv'
<1>1. ListsHold'
  <2>1. \A k \in Keys, s \in Seq(Times) : Listed(k, s)' => Listed(k, s)
    BY DEF Listed
  <2> QED BY <2>1, ListsKept DEF LimitInv
<1>2. \A k : AloneNow(k)' = AloneNow(k) /\ \A t : InWindow(k, t)' = InWindow(k, t)
  BY HoldsSame
<1>3. Trimmed'
  BY <1>2 DEF LimitInv, Trimmed
<1>4. Spared'
  BY <1>2 DEF LimitInv, Spared
<1>5. Noted'
  BY <1>2 DEF LimitInv, Noted
<1>6. Room'
  BY DEF LimitInv, Room
<1>7. Limited'
  BY <1>2 DEF LimitInv, Limited
<1> QED BY <1>1, <1>3, <1>4, <1>5, <1>6, <1>7 DEF LimitInv

\* What the sweep takes for expired has no hit that the limit needs.
LEMMA ExpiredSpares ==
  ASSUME TypeOK, LimitInv, NEW c \in Callers, NEW k \in Keys, Expired(c, k)
  PROVE  AloneNow(k) = {}
<1> SUFFICES ASSUME NEW i \in AloneNow(k) PROVE FALSE
  OBVIOUS
<1>1. PICK s \in Seq(Times) : s = hits[k]
  BY DEF TypeOK
<1>2. Holds(k, s)
  BY <1>1 DEF LimitInv, ListsHold, Listed
<1>3. PICK j \in DOMAIN s : s[j] = At[i]
  BY <1>2 DEF Holds, Embeds
<1>4. clock - At[i] < Window[k] /\ At[i] \in Int
  <2>1. i \in 1..Len(accepted) /\ accepted[i] \in Hit
    BY AcceptedTypes
  <2> QED BY <2>1 DEF AloneNow, AcceptedNow, At, Hit, Times
<1>5. s # <<>> /\ Len(s) \in DOMAIN s /\ j <= Len(s)
  BY <1>3
<1>6. s[j] <= LastOf(s) /\ LastOf(s) \in Int
  <2>1. LastOf(s) \in Times
    BY <1>5 DEF LastOf
  <2> QED BY <1>2, <1>3, <1>5, <2>1 DEF Holds, LastOf, Times
<1>7. windows[k] = Window[k] /\ Window[k] \in Int /\ clock \in Int
  BY LimitAssumption DEF LimitInv, Noted, TypeOK, Times
<1> QED BY <1>1, <1>3, <1>4, <1>5, <1>6, <1>7 DEF Expired

\* A call that arrives, and the beginning and the ends of a sweep, change no list.
LEMMA EnterLimit ==
  ASSUME TypeOK, LoneInv, LimitInv, NEW c \in Callers,
         Enter(c) \/ BeginSweep(c) \/ ScanEnds(c) \/ DeleteEnds(c)
  PROVE  LimitInv'
<1>1. /\ UNCHANGED <<hits, windows, accepted, clock, expired>>
      /\ \A d \in Callers \ {c} : /\ UNCHANGED <<pc[d], key[d], kept[d], expired[d]>>
                                  /\ alone'[d] => alone[d]
      /\ pc'[c] \notin {"trim", "store", "count", "append"}
  BY DEF Enter, BeginSweep, ScanEnds, DeleteEnds, Goto, TypeOK, shared, sweeping, history
<1>2. \A k \in expired'[c] : AloneNow(k) = {}
  BY <1>1 DEF LimitInv, Spared
<1> QED BY <1>1, <1>2, QuietKeeps

\* A call that ends without a hit changes none, either.
LEMMA LeaveLimit ==
  ASSUME TypeOK, LoneInv, LimitInv, NEW c \in Callers, Leave(c),
         UNCHANGED <<hits, windows, accepted>>
  PROVE  LimitInv'
<1>1. /\ UNCHANGED clock /\ pc'[c] = "idle" /\ expired'[c] = {}
      /\ \A d \in Callers \ {c} : /\ UNCHANGED <<pc[d], key[d], kept[d], expired[d]>>
                                  /\ alone'[d] => alone[d]
  BY DEF Leave, Goto, TypeOK
<1> QED BY <1>1, QuietKeeps

\* What a sweep looks at and finds expired has no hit that the limit needs.
LEMMA ScanLimit ==
  ASSUME TypeOK, LoneInv, LimitInv, NEW c \in Callers, NEW k \in todo[c], ScanLooks(c, k)
  PROVE  LimitInv'
<1>1. /\ UNCHANGED <<hits, windows, accepted, clock, pc, key, kept, alone>> /\ pc[c] = "scan"
      /\ \A d \in Callers \ {c} : expired'[d] = expired[d]
      /\ \A x \in expired'[c] : x \in expired[c] \/ (x = k /\ Expired(c, k))
      /\ k \in Keys
  <2>1. \/ UNCHANGED expired
        \/ Expired(c, k) /\ expired' = [expired EXCEPT ![c] = @ \cup {k}]
    BY DEF ScanLooks
  <2>2. expired \in [Callers -> SUBSET Keys] /\ k \in Keys
    BY DEF TypeOK
  <2>3. /\ \A d \in Callers \ {c} : expired'[d] = expired[d]
        /\ \A x \in expired'[c] : x \in expired[c] \/ (x = k /\ Expired(c, k))
    <3>1. CASE UNCHANGED expired
      BY <3>1
    <3>2. CASE Expired(c, k) /\ expired' = [expired EXCEPT ![c] = @ \cup {k}]
      <4>1. expired'[c] = expired[c] \cup {k} /\ \A d \in Callers \ {c} : expired'[d] = expired[d]
        BY <2>2, <3>2
      <4> QED BY <3>2, <4>1
    <3> QED BY <2>1, <3>1, <3>2
  <2> QED BY <2>2, <2>3 DEF ScanLooks, shared, history
<1>2. \A x \in expired'[c] : AloneNow(x) = {}
  BY <1>1, ExpiredSpares DEF LimitInv, Spared
<1> QED BY <1>1, <1>2, QuietKeeps

\* A key that is deleted has no hit that the limit needs.
LEMMA DeleteLimit ==
  ASSUME TypeOK, LoneInv, LimitInv, NEW c \in Callers, NEW k \in expired[c], DeletesKey(c, k)
  PROVE  LimitInv'
<1>1. /\ UNCHANGED <<accepted, clock, pc, key, kept, alone>> /\ pc[c] = "delete"
      /\ k \in Keys /\ hits'[k] = <<>> /\ windows'[k] = 0
      /\ \A x \in Keys \ {k} : hits'[x] = hits[x] /\ windows'[x] = windows[x]
      /\ \A d \in Callers : expired'[d] \subseteq expired[d]
  BY DEF DeletesKey, TypeOK, history
<1>2. AloneNow(k) = {}
  BY DEF LimitInv, Spared
<1>3. \A x : AloneNow(x)' = AloneNow(x) /\ \A t : InWindow(x, t)' = InWindow(x, t)
  BY <1>1, HoldsSame
<1>4. Holds(k, <<>>)
  BY <1>2, EmbedsNothing DEF Holds
<1>5. ListsHold'
  <2>1. \A x \in Keys, s \in Seq(Times) : Listed(x, s)' => Listed(x, s) \/ Holds(x, s)
    BY <1>1, <1>4 DEF Listed
  <2> QED BY <1>1, <2>1, ListsKept DEF LimitInv
<1>6. Trimmed'
  BY <1>1, <1>3 DEF LimitInv, Trimmed
<1>7. Spared'
  BY <1>1, <1>3 DEF LimitInv, Spared
<1>8. \A d \in Callers : ~ alone[d] \/ d = c
  BY <1>1 DEF LoneInv, AloneIsAlone, Inside
<1>9. Noted' /\ Room'
  BY <1>1, <1>2, <1>3, <1>8 DEF LimitInv, Noted, Room
<1>10. Limited'
  BY <1>3 DEF LimitInv, Limited
<1> QED BY <1>5, <1>6, <1>7, <1>9, <1>10 DEF LimitInv

\* A call that notes its window makes known what the sweep has to know.
LEMMA NoteLimit ==
  ASSUME TypeOK, LoneInv, LimitInv, NEW c \in Callers, NoteWindow(c)
  PROVE  LimitInv'
<1>1. /\ UNCHANGED <<hits, accepted, clock, key, kept, alone, expired>>
      /\ pc[c] = "note" /\ pc'[c] = "trim" /\ \A d \in Callers \ {c} : pc'[d] = pc[d]
      /\ \A k \in Keys : windows'[k] = IF k = key[c] THEN Window[k] ELSE windows[k]
  BY DEF NoteWindow, Goto, TypeOK, sweeping, history
<1>2. \A x : AloneNow(x)' = AloneNow(x) /\ \A t : InWindow(x, t)' = InWindow(x, t)
  BY <1>1, HoldsSame
<1>3. ListsHold'
  <2>1. \A x \in Keys, s \in Seq(Times) : Listed(x, s)' => Listed(x, s)
    BY <1>1 DEF Listed
  <2> QED BY <1>1, <2>1, ListsKept DEF LimitInv
<1>4. Trimmed' /\ Spared'
  BY <1>1, <1>2 DEF LimitInv, Trimmed, Spared
<1>5. Noted' /\ Room' /\ Limited'
  BY <1>1, <1>2 DEF LimitInv, Noted, Room, Limited
<1> QED BY <1>3, <1>4, <1>5 DEF LimitInv

\* What a call keeps holds, since what it reads does.
LEMMA RecentHolds ==
  ASSUME TypeOK, NEW k \in Keys, NEW s \in Seq(Times), s = hits[k], Holds(k, s),
         NEW t, t = Recent(k)
  PROVE  t \in Seq(Times) /\ Holds(k, t) /\ \A i \in DOMAIN t : InWindow(k, t[i])
<1>1. RecentKeeps(k, s, t)
  BY RecentEmbeds
<1>2. Embeds(DOMAIN t, t, OfKey(k), At)
  BY <1>1, EmbedsThrough DEF RecentKeeps, Holds
<1>3. PICK M : M = {m \in DOMAIN s : InWindow(k, s[m])}
  OBVIOUS
<1>4. Embeds(AloneNow(k), At, M, s)
  <2>1. \A m \in DOMAIN s : (\E i \in AloneNow(k) : s[m] = At[i]) => m \in M
    BY <1>3 DEF AloneNow, AcceptedNow, At, InWindow
  <2> QED BY <2>1, EmbedsAmong DEF Holds
<1>5. Embeds(AloneNow(k), At, DOMAIN t, t)
  BY <1>1, <1>3, <1>4, EmbedsThrough DEF RecentKeeps
<1>6. \A i, j \in DOMAIN t : i <= j => t[i] <= t[j] /\ t[j] <= clock
  <2>1. \A m, n \in DOMAIN s : m <= n => s[m] <= s[n] /\ s[n] <= clock
    BY DEF Holds
  <2> QED BY <1>1, <2>1 DEF RecentKeeps
<1> QED BY <1>1, <1>2, <1>5, <1>6 DEF RecentKeeps, Holds

\* A call that reads its hits keeps what the limit needs,
LEMMA TrimLimit ==
  ASSUME TypeOK, LoneInv, LimitInv, NEW c \in Callers, Trim(c)
  PROVE  LimitInv'
<1>0. PICK k \in Keys, s \in Seq(Times) : k = key[c] /\ s = hits[k]
  BY DEF TypeOK
<1>t. PICK t : t = Recent(k)
  OBVIOUS
<1>1. /\ UNCHANGED <<hits, windows, accepted, clock, key, alone, expired>>
      /\ pc[c] = "trim" /\ pc'[c] = "store" /\ kept'[c] = t
      /\ \A d \in Callers \ {c} : pc'[d] = pc[d] /\ kept'[d] = kept[d]
  BY <1>0, <1>t DEF Trim, Goto, TypeOK, sweeping, history
<1>2. Holds(k, t) /\ \A i \in DOMAIN t : InWindow(k, t[i])
  <2>1. Holds(k, s)
    BY <1>0 DEF LimitInv, ListsHold, Listed
  <2> QED BY <1>0, <1>t, <2>1, RecentHolds
<1>3. \A x : AloneNow(x)' = AloneNow(x) /\ \A y : InWindow(x, y)' = InWindow(x, y)
  BY <1>1, HoldsSame
<1>4. ListsHold'
  <2>1. \A x \in Keys, z \in Seq(Times) : Listed(x, z)' => Listed(x, z) \/ Holds(x, z)
    BY <1>0, <1>t, <1>1, <1>2 DEF Listed
  <2> QED BY <1>1, <2>1, ListsKept DEF LimitInv
<1>5. Trimmed'
  <2>1. ASSUME NEW d \in Callers, NEW x \in Keys, key[d] = x
        PROVE  /\ pc'[d] = "store" => \A i \in DOMAIN kept'[d] : InWindow(x, kept'[d][i])
               /\ pc'[d] = "count" => \A i \in DOMAIN hits[x] : InWindow(x, hits[x][i])
    <3>1. CASE d = c
      BY <1>0, <1>1, <1>2, <2>1, <3>1
    <3>2. CASE d # c
      <4>1. pc'[d] = pc[d] /\ kept'[d] = kept[d]
        BY <1>1, <3>2
      <4> QED BY <2>1, <4>1 DEF LimitInv, Trimmed
    <3> QED BY <3>1, <3>2
  <2> QED BY <1>1, <1>3, <2>1 DEF Trimmed
<1>6. Spared' /\ Noted' /\ Room' /\ Limited'
  BY <1>1, <1>3 DEF LimitInv, Spared, Noted, Room, Limited
<1> QED BY <1>4, <1>5, <1>6 DEF LimitInv

\* stores it,
LEMMA StoreLimit ==
  ASSUME TypeOK, LoneInv, LimitInv, NEW c \in Callers, Store(c)
  PROVE  LimitInv'
<1>0. PICK k \in Keys, t \in Seq(Times) : k = key[c] /\ t = kept[c]
  BY DEF TypeOK
<1>1. /\ UNCHANGED <<windows, accepted, clock, key, alone, expired>>
      /\ pc[c] = "store" /\ pc'[c] = "count" /\ hits'[k] = t
      /\ \A d \in Callers \ {c} : pc'[d] = pc[d] /\ kept'[d] = kept[d]
      /\ \A x \in Keys \ {k} : hits'[x] = hits[x]
  BY <1>0 DEF Store, Goto, TypeOK, sweeping, history
<1>2. Holds(k, t)
  BY <1>0, <1>1 DEF LimitInv, ListsHold, Listed
<1>3. \A x : AloneNow(x)' = AloneNow(x) /\ \A y : InWindow(x, y)' = InWindow(x, y)
  BY <1>1, HoldsSame
<1>4. ListsHold'
  <2>1. \A x \in Keys, z \in Seq(Times) : Listed(x, z)' => Listed(x, z) \/ Holds(x, z)
    BY <1>0, <1>1, <1>2 DEF Listed
  <2> QED BY <1>1, <2>1, ListsKept DEF LimitInv
<1>5. Trimmed'
  <2>1. \A i \in DOMAIN t : InWindow(k, t[i])
    BY <1>0, <1>1 DEF LimitInv, Trimmed
  <2>2. ASSUME NEW d \in Callers, NEW x \in Keys, key[d] = x, pc'[d] = "store"
        PROVE  \A i \in DOMAIN kept'[d] : InWindow(x, kept'[d][i])
    <3>1. d # c /\ pc[d] = "store" /\ kept'[d] = kept[d]
      BY <1>1, <2>2
    <3> QED BY <2>2, <3>1 DEF LimitInv, Trimmed
  <2>3. ASSUME NEW d \in Callers, NEW x \in Keys, key[d] = x, pc'[d] = "count"
        PROVE  \A i \in DOMAIN hits'[x] : InWindow(x, hits'[x][i])
    <3>1. CASE x = k
      BY <1>1, <2>1, <3>1
    <3>2. CASE x # k
      <4>1. d # c /\ pc[d] = "count" /\ hits'[x] = hits[x]
        BY <1>0, <1>1, <2>3, <3>2
      <4> QED BY <2>3, <4>1 DEF LimitInv, Trimmed
    <3> QED BY <3>1, <3>2
  <2> QED BY <1>1, <1>3, <2>2, <2>3 DEF Trimmed
<1>6. Room'
  <2>1. \A d \in Callers \ {c} : ~ alone[d]
    BY <1>1 DEF LoneInv, AloneIsAlone, Inside
  <2> QED BY <1>1, <2>1 DEF Room
<1>7. Spared' /\ Noted' /\ Limited'
  BY <1>1, <1>3 DEF LimitInv, Spared, Noted, Limited
<1> QED BY <1>4, <1>5, <1>6, <1>7 DEF LimitInv

\* counts it and is refused, or has room for one more hit,
LEMMA CountLimit ==
  ASSUME TypeOK, LoneInv, LimitInv, NEW c \in Callers, Count(c)
  PROVE  LimitInv'
<1>1. CASE Leave(c)
  BY <1>1, LeaveLimit DEF Count, history
<1>2. CASE ~ Leave(c)
  <2>0. PICK k \in Keys : k = key[c]
    BY DEF TypeOK
  <2>1. /\ UNCHANGED <<hits, windows, accepted, clock, key, alone, expired, kept>>
        /\ pc[c] = "count" /\ pc'[c] = "append" /\ ~ AtLimit(k)
        /\ \A d \in Callers \ {c} : pc'[d] = pc[d]
    BY <1>2, <2>0 DEF Count, Goto, TypeOK, sweeping, history
  <2>2. \A x : AloneNow(x)' = AloneNow(x) /\ \A y : InWindow(x, y)' = InWindow(x, y)
    BY <2>1, HoldsSame
  <2>3. ListsHold'
    <3>1. \A x \in Keys, z \in Seq(Times) : Listed(x, z)' => Listed(x, z)
      BY <2>1 DEF Listed
    <3> QED BY <2>1, <3>1, ListsKept DEF LimitInv
  <2>4. Trimmed'
    BY <2>1, <2>2 DEF LimitInv, Trimmed
  <2>5. Room'
    <3>1. Len(hits[k]) \in Nat /\ Limit[k] \in Nat
      BY LimitAssumption DEF TypeOK
    <3>2. Len(hits[k]) < Limit[k]
      BY <2>1, <3>1 DEF AtLimit
    <3> QED BY <2>0, <2>1, <3>2 DEF LimitInv, Room
  <2>6. Spared' /\ Noted' /\ Limited'
    BY <2>1, <2>2 DEF LimitInv, Spared, Noted, Limited
  <2> QED BY <2>3, <2>4, <2>5, <2>6 DEF LimitInv
<1> QED BY <1>1, <1>2

\* and adds its own, which others only lose if the calls overlap.
LEMMA RecordLimit ==
  ASSUME TypeOK, LoneInv, LimitInv, NEW c \in Callers, RecordHit(c)
  PROVE  LimitInv'
<1>0. PICK k \in Keys, s \in Seq(Times), h \in Hit, t \in Seq(Times) :
        /\ k = key[c] /\ s = hits[k] /\ t = Append(s, clock)
        /\ h = [key |-> k, at |-> clock, alone |-> alone[c]]
  <2>1. [key |-> key[c], at |-> clock, alone |-> alone[c]] \in Hit
    BY DEF TypeOK, Hit
  <2>2. Append(hits[key[c]], clock) \in Seq(Times)
    BY DEF TypeOK
  <2> QED BY <2>1, <2>2 DEF TypeOK
<1>1. /\ UNCHANGED <<windows, clock, key>> /\ accepted' = Append(accepted, h)
      /\ pc[c] = "append" /\ pc'[c] = "idle" /\ expired'[c] = {} /\ alone'[c] = FALSE
      /\ \A d \in Callers \ {c} : UNCHANGED <<pc[d], kept[d], expired[d], alone[d]>>
      /\ hits'[k] = t /\ \A x \in Keys \ {k} : hits'[x] = hits[x]
  BY <1>0 DEF RecordHit, Leave, Goto, TypeOK
<1>2. h.key = k /\ h.at = clock /\ h.alone = alone[c]
  BY <1>0
<1>3. \A d \in Callers \ {c} : /\ ~ alone[d]
                               /\ alone[c] => pc[d] = "idle" /\ expired[d] = {}
  <2>1. Inside(c)
    BY <1>1 DEF Inside
  <2> QED BY <2>1 DEF LoneInv, AloneIsAlone, Begun, Inside
<1>4. \A x \in Keys : x # k \/ ~ alone[c] =>
        AloneNow(x)' = AloneNow(x) /\ \A z : Holds(x, z) => Holds(x, z)'
  BY <1>1, <1>2, HoldsLater
<1>5. Holds(k, s) /\ Holds(k, t)' /\ AloneNow(k)' \subseteq AloneNow(k) \cup {Len(accepted) + 1}
  <2>1. Holds(k, s)
    BY <1>0 DEF LimitInv, ListsHold, Listed
  <2> QED BY <1>0, <1>1, <1>2, <2>1, HoldsRecorded
<1>6. ListsHold'
  <2> SUFFICES ASSUME NEW x \in Keys, NEW z \in Seq(Times), Listed(x, z)' PROVE Holds(x, z)'
    BY DEF ListsHold
  <2>1. CASE hits'[x] = z
    <3>1. CASE x = k
      BY <1>1, <1>5, <2>1, <3>1
    <3>2. CASE x # k
      <4>1. Holds(x, z)
        BY <1>1, <2>1, <3>2 DEF LimitInv, ListsHold, Listed
      <4> QED BY <1>4, <3>2, <4>1
    <3> QED BY <3>1, <3>2
  <2>2. ASSUME NEW d \in Callers, pc'[d] = "store", key'[d] = x, kept'[d] = z
        PROVE  Holds(x, z)'
    <3>1. d # c /\ pc[d] = "store" /\ kept[d] = z /\ key[d] = x
      BY <1>1, <2>2
    <3>2. Holds(x, z) /\ ~ alone[c]
      BY <1>3, <3>1 DEF LimitInv, ListsHold, Listed
    <3> QED BY <1>4, <3>2
  <2> QED BY <2>1, <2>2 DEF Listed
<1>7. \A x, y : InWindow(x, y)' = InWindow(x, y)
  BY <1>1 DEF InWindow
<1>8. Trimmed'
  <2>1. ASSUME NEW d \in Callers, NEW x \in Keys, key[d] = x, pc'[d] = "store"
        PROVE  \A i \in DOMAIN kept'[d] : InWindow(x, kept'[d][i])
    <3>1. d # c /\ pc[d] = "store" /\ kept'[d] = kept[d]
      BY <1>1, <2>1
    <3> QED BY <2>1, <3>1 DEF LimitInv, Trimmed
  <2>2. ASSUME NEW d \in Callers, NEW x \in Keys, key[d] = x, pc'[d] = "count",
               NEW i \in DOMAIN hits'[x]
        PROVE  InWindow(x, hits'[x][i])
    <3>1. d # c /\ pc[d] = "count"
      BY <1>1, <2>2
    <3>2. \A j \in DOMAIN hits[x] : InWindow(x, hits[x][j])
      BY <2>2, <3>1 DEF LimitInv, Trimmed
    <3>3. CASE x = k
      <4>1. InWindow(k, clock)
        <5>1. clock \in Int /\ Window[k] \in Nat \ {0}
          BY LimitAssumption DEF TypeOK, Times
        <5> QED BY <5>1 DEF InWindow
      <4>2. i \in DOMAIN s \/ t[i] = clock
        BY <1>0, <1>1, <2>2, <3>3 DEF TypeOK
      <4>3. i \in DOMAIN s => t[i] = s[i]
        BY <1>0 DEF TypeOK
      <4> QED BY <1>0, <1>1, <3>2, <3>3, <4>1, <4>2, <4>3
    <3>4. CASE x # k
      BY <1>1, <2>2, <3>2, <3>4
    <3> QED BY <3>3, <3>4
  <2> QED BY <1>1, <1>7, <2>1, <2>2 DEF Trimmed
<1>9. Spared'
  <2> SUFFICES ASSUME NEW d \in Callers, NEW x \in Keys, x \in expired'[d] PROVE AloneNow(x)' = {}
    <3>1. \A d \in Callers : expired'[d] \subseteq Keys
      BY <1>1 DEF TypeOK
    <3> QED BY <3>1 DEF Spared
  <2>1. d # c /\ x \in expired[d] /\ ~ alone[c]
    BY <1>1, <1>3
  <2> QED BY <1>4, <2>1 DEF LimitInv, Spared
<1>10. Noted'
  <2>1. ASSUME NEW x \in Keys, AloneNow(x)' # {} PROVE windows'[x] = Window[x]
    <3>1. CASE x = k /\ alone[c]
      BY <1>0, <1>1, <3>1 DEF LimitInv, Noted
    <3>2. CASE x # k \/ ~ alone[c]
      BY <1>1, <1>4, <2>1, <3>2 DEF LimitInv, Noted
    <3> QED BY <3>1, <3>2
  <2>2. \A d \in Callers : ~ alone'[d]
    BY <1>1, <1>3
  <2> QED BY <2>1, <2>2 DEF Noted
<1>11. Room'
  BY <1>1, <1>3 DEF Room
<1>12. Limited'
  <2> SUFFICES ASSUME NEW x \in Keys PROVE Cardinality(AloneNow(x)') <= Limit[x]
    BY DEF Limited
  <2>1. CASE x # k \/ ~ alone[c]
    BY <1>4, <2>1 DEF LimitInv, Limited
  <2>2. CASE x = k /\ alone[c]
    <3>1. Cardinality(AloneNow(k)) <= Len(s) /\ Len(s) < Limit[k]
      BY <1>0, <1>1, <1>5, <2>2, HeldFewer DEF LimitInv, Room
    <3>2. IsFiniteSet(AloneNow(k)) /\ Len(s) \in Nat /\ Limit[k] \in Nat
      BY AcceptedTypes, LimitAssumption
    <3>3. PICK a, b, x0 : a = AloneNow(k) /\ b = AloneNow(k)' /\ x0 = Len(accepted) + 1
      OBVIOUS
    <3>4. /\ IsFiniteSet(a \cup {x0}) /\ Cardinality(a) \in Nat /\ Cardinality(a \cup {x0}) \in Nat
          /\ Cardinality(a \cup {x0}) <= Cardinality(a) + 1
      <4>1. IsFiniteSet(a)
        BY <3>2, <3>3
      <4>2. /\ IsFiniteSet(a \cup {x0})
            /\ Cardinality(a \cup {x0}) = IF x0 \in a THEN Cardinality(a) ELSE Cardinality(a) + 1
        BY <4>1, FS_AddElement
      <4> QED BY <4>1, <4>2, FS_CardinalityType
    <3>5. Cardinality(b) <= Cardinality(a \cup {x0}) /\ Cardinality(b) \in Nat
      <4>1. b \subseteq a \cup {x0}
        BY <1>5, <3>3
      <4> QED BY <3>4, <4>1, FS_Subset, FS_CardinalityType
    <3> QED BY <2>2, <3>1, <3>2, <3>3, <3>4, <3>5
  <2> QED BY <2>1, <2>2
<1> QED BY <1>6, <1>8, <1>9, <1>10, <1>11, <1>12 DEF LimitInv

\* The clock moves when nobody is inside, and then fewer hits are in the window.
LEMMA TickLimit ==
  ASSUME TypeOK, LoneInv, LimitInv, Tick
  PROVE  LimitInv'
<1>1. /\ UNCHANGED <<hits, windows, accepted, pc, key, kept, alone, expired>>
      /\ \A c \in Callers : pc[c] = "idle" /\ ~ alone[c] /\ expired[c] = {}
  BY DEF Tick, shared, sweeping, history, LoneInv, AloneIsAlone, Begun, Inside
<1>2. \A k \in Keys : /\ AloneNow(k)' \subseteq AloneNow(k)
                      /\ \A s \in Seq(Times) : Holds(k, s) => Holds(k, s)'
  BY HoldsTick
<1>3. ListsHold'
  <2>1. \A x \in Keys, z \in Seq(Times) : Listed(x, z)' => Listed(x, z)
    BY <1>1 DEF Listed
  <2> QED BY <1>2, <2>1 DEF LimitInv, ListsHold
<1>4. Trimmed' /\ Room' /\ Spared'
  BY <1>1 DEF Trimmed, Room, Spared
<1>5. Noted'
  BY <1>1, <1>2 DEF LimitInv, Noted
<1>6. Limited'
  <2> SUFFICES ASSUME NEW k \in Keys PROVE Cardinality(AloneNow(k)') <= Limit[k]
    BY DEF Limited
  <2>1. PICK a, b : a = AloneNow(k) /\ b = AloneNow(k)'
    OBVIOUS
  <2>2. b \subseteq a /\ IsFiniteSet(a) /\ Cardinality(a) <= Limit[k]
    BY <1>2, <2>1, AcceptedTypes DEF LimitInv, Limited
  <2>3. Cardinality(b) <= Cardinality(a) /\ Cardinality(a) \in Nat /\ Cardinality(b) \in Nat
    BY <2>2, FS_Subset, FS_CardinalityType
  <2> QED BY <2>1, <2>2, <2>3, LimitAssumption
<1> QED BY <1>3, <1>4, <1>5, <1>6 DEF LimitInv

\* The invariant about the limit is inductive.
LEMMA LimitInductive == TypeOK /\ PresentFinite /\ LoneInv /\ LimitInv /\ [Next]_vars => LimitInv'
<1> SUFFICES ASSUME TypeOK, LoneInv, LimitInv, [Next]_vars PROVE LimitInv'
  OBVIOUS
<1>1. ASSUME NEW c \in Callers, Scan(c) \/ Delete(c) PROVE LimitInv'
  <2>1. CASE Crash(c)
    BY <2>1, LeaveLimit DEF Crash, shared
  <2>2. CASE ~ Crash(c)
    BY <1>1, <2>2, SweepSteps, EnterLimit, ScanLimit, DeleteLimit
  <2> QED BY <2>1, <2>2
<1>2. CASE UNCHANGED vars
  <2>1. UNCHANGED <<hits, windows, accepted, clock, pc, key, kept, alone, expired>>
    BY <1>2 DEF vars, shared, sweeping, history
  <2>2. \A x : AloneNow(x)' = AloneNow(x) /\ \A y : InWindow(x, y)' = InWindow(x, y)
    BY <2>1, HoldsSame
  <2>3. ListsHold'
    <3>1. \A x \in Keys, z \in Seq(Times) : Listed(x, z)' => Listed(x, z)
      BY <2>1 DEF Listed
    <3> QED BY <2>1, <3>1, ListsKept DEF LimitInv
  <2>4. Trimmed' /\ Spared' /\ Noted' /\ Room' /\ Limited'
    BY <2>1, <2>2 DEF LimitInv, Trimmed, Spared, Noted, Room, Limited
  <2> QED BY <2>3, <2>4 DEF LimitInv
<1> QED BY <1>1, <1>2, EnterLimit, NoteLimit, TrimLimit, StoreLimit, CountLimit, RecordLimit, TickLimit
        DEF Next, Rest

\* It holds of a process that has just started.
LEMMA InitLimit == Init => LimitInv
<1> SUFFICES ASSUME Init PROVE LimitInv
  OBVIOUS
<1>1. \A k : AloneNow(k) = {} /\ OfKey(k) = {}
  BY DEF Init, AloneNow, AcceptedNow, OfKey
<1>2. \A k \in Keys : Holds(k, <<>>)
  <2>1. DOMAIN <<>> = {}
    OBVIOUS
  <2> QED BY <1>1, <2>1, EmbedsNothing DEF Holds
<1>3. ListsHold
  BY <1>2 DEF Init, ListsHold, Listed
<1>4. Trimmed /\ Spared /\ Noted /\ Room
  BY <1>1 DEF Init, Trimmed, Spared, Noted, Room
<1>5. Limited
  BY <1>1, FS_EmptySet, LimitAssumption DEF Limited
<1> QED BY <1>3, <1>4, <1>5 DEF LimitInv

\* Calls that no other overlaps are limited, and nobody is refused below the limit: hits that
\* the limit needs survive every sweep, every trimming and every overlap (rate_limit.py:25-52).
THEOREM LimitHolds == Spec => []LimitIsLimit
BY InitLone, InitLimit, TypeInductive, LoneInductive, LimitInductive, LimitedIsLimit, PTL DEF Spec

-----------------------------------------------------------------------------
(* Keys that idle. *)

\* A key without a hit is one that a call has just made.
NoneEmpty ==
  \A k \in present : \/ hits[k] # <<>>
                     \/ \E c \in Callers : key[c] = k /\ pc[c] \in {"store", "count", "append"}

Absent == \A k \in Keys \ present : hits[k] = <<>>

WindowsKnown == lastSweep <= clock /\ \A k \in Keys : windows[k] \in {0, Window[k]}

\* The newest hit of k was out of its window when a sweep last began.
Stale(k) == hits[k] # <<>> /\ lastSweep - LastOf(hits[k]) >= Window[k]

Sweeps(c, k) == \/ pc[c] = "scan" /\ (k \in todo[c] \/ k \in expired[c])
                \/ pc[c] = "delete" /\ k \in expired[c]

\* Some sweep is still going to delete it.
Reclaims == crashed \/ \A k \in Keys : Stale(k) => \E c \in Callers : Sweeps(c, k)

SweepInv == NoneEmpty /\ Absent /\ WindowsKnown /\ Reclaims

\* The times of a list of hits, and of the last sweep.
LEMMA SweepTypes ==
  ASSUME TypeOK
  PROVE  /\ clock \in Int /\ lastSweep \in Int
         /\ \A k \in Keys : hits[k] \in Seq(Times) /\ windows[k] \in Nat /\ Window[k] \in Nat \ {0}
         /\ \A s \in Seq(Times) : s # <<>> => Len(s) \in DOMAIN s /\ LastOf(s) \in Int
<1>1. Times \subseteq Int /\ - SweepInterval \in Int
  BY LimitAssumption DEF Times
<1>2. \A s \in Seq(Times) : s # <<>> => Len(s) \in DOMAIN s /\ LastOf(s) \in Times
  BY DEF LastOf
<1> QED BY <1>1, <1>2, LimitAssumption DEF TypeOK

\* A stale key is expired to whoever looks at it.
LEMMA StaleIsExpired ==
  ASSUME TypeOK, SweepInv, NEW c, NEW k \in Keys, Stale(k)
  PROVE  k \in present /\ Expired(c, k)
<1>1. PICK s \in Seq(Times) : s = hits[k]
  BY SweepTypes
<1>2. s # <<>> /\ LastOf(s) \in Int /\ lastSweep - LastOf(s) >= Window[k]
  BY <1>1, SweepTypes DEF Stale
<1>3. clock - LastOf(s) >= windows[k]
  BY <1>2, SweepTypes DEF SweepInv, WindowsKnown
<1> QED BY <1>1, <1>2, <1>3 DEF Expired, SweepInv, Absent

\* A step that leaves the dictionaries alone, by a call that is not in the middle of a sweep.
LEMMA QuietSweeps ==
  ASSUME TypeOK, SweepInv, NEW c \in Callers, UNCHANGED <<hits, present, lastSweep, clock>>,
         \A k \in Keys : windows'[k] \in {windows[k], Window[k]},
         \A d \in Callers \ {c} : UNCHANGED <<pc[d], key[d], todo[d], expired[d]>>,
         crashed => crashed',
         pc[c] \notin {"store", "count", "append"},
         crashed' \/ \A k \in Keys : Stale(k) /\ Sweeps(c, k) => Sweeps(c, k)'
  PROVE  SweepInv'
<1>1. NoneEmpty'
  BY DEF SweepInv, NoneEmpty
<1>2. Absent' /\ WindowsKnown'
  BY DEF SweepInv, Absent, WindowsKnown
<1>3. Reclaims'
  <2> SUFFICES ASSUME ~ crashed', NEW k \in Keys, Stale(k)' PROVE \E d \in Callers : Sweeps(d, k)'
    BY DEF Reclaims
  <2>1. Stale(k)
    BY DEF Stale
  <2>2. PICK d \in Callers : Sweeps(d, k)
    BY <2>1 DEF SweepInv, Reclaims
  <2>3. CASE d = c
    BY <2>1, <2>2, <2>3
  <2>4. CASE d # c
    BY <2>2, <2>4 DEF Sweeps
  <2> QED BY <2>3, <2>4
<1> QED BY <1>1, <1>2, <1>3 DEF SweepInv

\* A call that fails, in the middle of its sweep.
LEMMA CrashSweeps ==
  ASSUME TypeOK, SweepInv, NEW c \in Callers, Crash(c), pc[c] \in {"scan", "delete"}
  PROVE  SweepInv'
<1>1. /\ UNCHANGED <<hits, present, lastSweep, clock, windows>> /\ crashed'
      /\ \A d \in Callers \ {c} : UNCHANGED <<pc[d], key[d], todo[d], expired[d]>>
  BY DEF Crash, Leave, Goto, TypeOK, shared
<1> QED BY <1>1, QuietSweeps

\* A call before its sweep, and after it.
LEMMA AroundSweeps ==
  ASSUME TypeOK, SweepInv, NEW c \in Callers, Enter(c) \/ NoteWindow(c)
  PROVE  SweepInv'
<1>1. /\ UNCHANGED <<hits, present, lastSweep, clock, crashed>>
      /\ \A k \in Keys : windows'[k] \in {windows[k], Window[k]}
      /\ \A d \in Callers \ {c} : UNCHANGED <<pc[d], key[d], todo[d], expired[d]>>
      /\ pc[c] \in {"idle", "note"}
  BY DEF Enter, NoteWindow, Goto, TypeOK, shared, sweeping, history
<1>2. \A k : ~ Sweeps(c, k)
  BY <1>1 DEF Sweeps
<1> QED BY <1>1, <1>2, QuietSweeps

\* The steps of a sweep.
LEMMA BeginSweeps ==
  ASSUME TypeOK, SweepInv, NEW c \in Callers, BeginSweep(c)
  PROVE  SweepInv'
<1>1. /\ UNCHANGED <<hits, present, windows, clock, key, crashed>> /\ lastSweep' = clock
      /\ pc[c] = "sweep" /\ pc'[c] = "scan" /\ todo'[c] = present
      /\ \A d \in Callers \ {c} : pc'[d] = pc[d]
  BY DEF BeginSweep, Goto, TypeOK, history
<1>2. NoneEmpty' /\ Absent' /\ WindowsKnown'
  BY <1>1, SweepTypes DEF SweepInv, NoneEmpty, Absent, WindowsKnown
<1>3. ASSUME NEW k \in Keys, Stale(k)' PROVE Sweeps(c, k)'
  <2>1. k \in present
    BY <1>1, <1>3 DEF SweepInv, Absent, Stale
  <2> QED BY <1>1, <2>1 DEF Sweeps
<1> QED BY <1>2, <1>3 DEF SweepInv, Reclaims

\* A stale key that the sweep looks at is one that it will delete.
LEMMA ScanSweeps ==
  ASSUME TypeOK, SweepInv, NEW c \in Callers,
         ScanEnds(c) \/ DeleteEnds(c) \/ \E k \in todo[c] : ScanLooks(c, k)
  PROVE  SweepInv'
<1>1. /\ UNCHANGED <<hits, present, windows, lastSweep, clock, key, crashed>>
      /\ pc[c] \in {"scan", "delete"}
      /\ \A d \in Callers \ {c} : UNCHANGED <<pc[d], todo[d], expired[d]>>
  <2>1. CASE ScanEnds(c) \/ DeleteEnds(c)
    BY <2>1 DEF ScanEnds, DeleteEnds, Goto, TypeOK, shared, sweeping, history
  <2>2. ASSUME NEW k \in todo[c], ScanLooks(c, k)
        PROVE  /\ UNCHANGED <<hits, present, windows, lastSweep, clock, key, crashed>>
               /\ pc[c] \in {"scan", "delete"}
               /\ \A d \in Callers \ {c} : UNCHANGED <<pc[d], todo[d], expired[d]>>
    <3>1. \/ UNCHANGED expired \/ expired' = [expired EXCEPT ![c] = @ \cup {k}]
      BY <2>2 DEF ScanLooks
    <3>2. \A d \in Callers \ {c} : UNCHANGED <<todo[d], expired[d]>>
      BY <2>2, <3>1 DEF ScanLooks, TypeOK
    <3> QED BY <2>2, <3>2 DEF ScanLooks, shared, history
  <2> QED BY <2>1, <2>2
<1>2. ASSUME NEW k \in Keys, Stale(k), Sweeps(c, k) PROVE Sweeps(c, k)'
  <2>1. CASE ScanEnds(c)
    BY <1>2, <2>1 DEF ScanEnds, Sweeps, Goto, TypeOK, sweeping
  <2>2. CASE DeleteEnds(c)
    BY <1>2, <2>2 DEF DeleteEnds, Sweeps
  <2>3. ASSUME NEW x \in todo[c], ScanLooks(c, x) PROVE Sweeps(c, k)'
    <3>1. pc'[c] = "scan" /\ todo'[c] = todo[c] \ {x} /\ (k \in todo[c] \/ k \in expired[c])
      BY <1>2, <2>3 DEF ScanLooks, Sweeps, TypeOK
    <3>2. k \in present /\ Expired(c, k)
      BY <1>2, StaleIsExpired
    <3>3. CASE k \in expired[c]
      <4>1. k \in expired'[c]
        BY <2>3, <3>3 DEF ScanLooks, TypeOK
      <4> QED BY <3>1, <4>1 DEF Sweeps
    <3>4. CASE k \in todo[c] /\ k # x
      BY <3>1, <3>4 DEF Sweeps
    <3>5. CASE k = x
      <4>1. k \in expired'[c]
        BY <2>3, <3>2, <3>5 DEF ScanLooks, TypeOK
      <4> QED BY <3>1, <4>1 DEF Sweeps
    <3> QED BY <3>1, <3>3, <3>4, <3>5
  <2> QED BY <2>1, <2>2, <2>3
<1> QED BY <1>1, <1>2, QuietSweeps

\* A key that is deleted is not stale any more, and the others are still to be deleted.
LEMMA DeleteSweeps ==
  ASSUME TypeOK, SweepInv, NEW c \in Callers, NEW k \in expired[c], DeletesKey(c, k)
  PROVE  SweepInv'
<1>1. /\ UNCHANGED <<lastSweep, clock, key, crashed, pc, todo>> /\ present' = present \ {k}
      /\ k \in Keys /\ hits'[k] = <<>> /\ windows'[k] = 0
      /\ \A x \in Keys \ {k} : hits'[x] = hits[x] /\ windows'[x] = windows[x]
      /\ \A d \in Callers : expired[d] \ {k} \subseteq expired'[d]
      /\ present \subseteq Keys
  BY DEF DeletesKey, TypeOK, history
<1>2. NoneEmpty' /\ Absent'
  BY <1>1 DEF SweepInv, NoneEmpty, Absent
<1>3. WindowsKnown'
  BY <1>1 DEF SweepInv, WindowsKnown
<1>4. Reclaims'
  <2> SUFFICES ASSUME ~ crashed', NEW x \in Keys, Stale(x)' PROVE \E d \in Callers : Sweeps(d, x)'
    BY DEF Reclaims
  <2>1. x # k /\ Stale(x)
    BY <1>1 DEF Stale
  <2>2. PICK d \in Callers : Sweeps(d, x)
    BY <1>1, <2>1 DEF SweepInv, Reclaims
  <2>3. x \in expired[d] => x \in expired'[d]
    BY <1>1, <2>1
  <2> QED BY <1>1, <2>2, <2>3 DEF Sweeps
<1> QED BY <1>2, <1>3, <1>4 DEF SweepInv

\* A call that looks its hits up, stores them, counts them and adds its own.
LEMMA CountSweeps ==
  ASSUME TypeOK, LimitInv, SweepInv, NEW c \in Callers,
         Trim(c) \/ Store(c) \/ Count(c) \/ RecordHit(c)
  PROVE  SweepInv'
<1>0. PICK k \in Keys : k = key[c]
  BY DEF TypeOK
<1>1. /\ UNCHANGED <<windows, lastSweep, clock, key, crashed>> /\ present' = present \cup {k}
      /\ pc[c] \in {"trim", "store", "count", "append"}
      /\ \A d \in Callers \ {c} : UNCHANGED <<pc[d], todo[d], expired[d]>>
      /\ \A x \in Keys \ {k} : hits'[x] = hits[x]
  BY <1>0 DEF Trim, Store, Count, RecordHit, Leave, Goto, TypeOK, sweeping, history
<1>2. hits'[k] = hits[k] \/ ~ Stale(k)'
  <2>1. CASE Trim(c) \/ Count(c)
    BY <2>1 DEF Trim, Count
  <2>2. CASE Store(c)
    <3>1. PICK t \in Seq(Times) : t = kept[c] /\ t = hits'[k]
      BY <1>0, <2>2 DEF Store, TypeOK
    <3>2. t # <<>> => clock - LastOf(t) < Window[k] /\ LastOf(t) \in Int
      <4>1. \A i \in DOMAIN t : clock - t[i] < Window[k]
        BY <1>0, <2>2, <3>1 DEF LimitInv, Trimmed, Store, InWindow
      <4> QED BY <4>1, SweepTypes DEF LastOf
    <3>3. t # <<>> => lastSweep - LastOf(t) < Window[k]
      BY <3>2, SweepTypes DEF SweepInv, WindowsKnown
    <3>4. hits'[k] # <<>> => lastSweep' - LastOf(hits'[k]) < Window[k]
      BY <1>1, <3>1, <3>3
    <3>5. t # <<>> => LastOf(t) \in Int /\ lastSweep \in Int /\ Window[k] \in Int
      BY SweepTypes
    <3> QED BY <1>1, <3>1, <3>3, <3>5 DEF Stale, LastOf
  <2>3. CASE RecordHit(c)
    <3>1. PICK t \in Seq(Times) : t = hits'[k] /\ t # <<>> /\ t[Len(t)] = clock
      <4>1. hits[k] \in Seq(Times) /\ clock \in Times
        BY DEF TypeOK
      <4>2. hits'[k] = Append(hits[k], clock)
        BY <1>0, <2>3 DEF RecordHit, TypeOK
      <4>3. \A s \in Seq(Times), x \in Times :
              /\ Append(s, x) \in Seq(Times) /\ Append(s, x) # <<>>
              /\ Append(s, x)[Len(Append(s, x))] = x
        OBVIOUS
      <4> QED BY ONLY <4>1, <4>2, <4>3
    <3>2. lastSweep - clock < Window[k]
      BY SweepTypes DEF SweepInv, WindowsKnown
    <3>3. lastSweep \in Int /\ Window[k] \in Int /\ clock \in Int
      BY SweepTypes
    <3> QED BY <1>1, <3>1, <3>2, <3>3 DEF Stale, LastOf
  <2> QED BY <2>1, <2>2, <2>3
<1>3. NoneEmpty'
  <2>1. \/ hits'[k] # <<>> \/ pc'[c] \in {"store", "count", "append"}
    <3>1. CASE Trim(c) \/ Store(c)
      BY <3>1 DEF Trim, Store, Goto, TypeOK
    <3>2. CASE Count(c)
      <4>1. CASE AtLimit(k)
        <5>1. Len(hits[k]) >= Limit[k] /\ Limit[k] \in Nat \ {0}
          BY <4>1, LimitAssumption DEF AtLimit
        <5>2. hits[k] # <<>>
          BY <5>1
        <5> QED BY <3>2, <5>2 DEF Count
      <4>2. CASE ~ AtLimit(k)
        BY <1>0, <3>2, <4>2 DEF Count, Goto, TypeOK
      <4> QED BY <4>1, <4>2
    <3>3. CASE RecordHit(c)
      <4>1. hits[k] \in Seq(Times) /\ clock \in Times
        BY DEF TypeOK
      <4>2. hits'[k] = Append(hits[k], clock)
        BY <1>0, <3>3 DEF RecordHit, TypeOK
      <4> QED BY <4>1, <4>2
    <3> QED BY <3>1, <3>2, <3>3
  <2>2. ASSUME NEW x \in present, x # k
        PROVE  \/ hits'[x] # <<>>
               \/ \E d \in Callers : key[d] = x /\ pc'[d] \in {"store", "count", "append"}
    <3>1. x \in Keys /\ hits'[x] = hits[x]
      BY <1>1, <2>2 DEF TypeOK
    <3>2. \A d \in Callers : key[d] = x => d # c /\ pc'[d] = pc[d]
      BY <1>0, <1>1, <2>2
    <3> QED BY <3>1, <3>2 DEF SweepInv, NoneEmpty
  <2> QED BY <1>0, <1>1, <2>1, <2>2 DEF NoneEmpty
<1>4. Absent' /\ WindowsKnown'
  BY <1>1 DEF SweepInv, Absent, WindowsKnown
<1>5. Reclaims'
  <2> SUFFICES ASSUME ~ crashed', NEW x \in Keys, Stale(x)' PROVE \E d \in Callers : Sweeps(d, x)'
    BY DEF Reclaims
  <2>1. Stale(x)
    <3>1. hits'[x] = hits[x]
      BY <1>1, <1>2
    <3> QED BY <1>1, <3>1 DEF Stale
  <2>2. PICK d \in Callers : Sweeps(d, x)
    BY <1>1, <2>1 DEF SweepInv, Reclaims
  <2>3. d # c
    BY <1>1, <2>2 DEF Sweeps
  <2> QED BY <1>1, <2>2, <2>3 DEF Sweeps
<1> QED BY <1>3, <1>4, <1>5 DEF SweepInv

\* The invariant about sweeps is inductive.
LEMMA SweepInductive == TypeOK /\ LimitInv /\ SweepInv /\ [Next]_vars => SweepInv'
<1> SUFFICES ASSUME TypeOK, LimitInv, SweepInv, [Next]_vars PROVE SweepInv'
  OBVIOUS
<1>1. ASSUME NEW c \in Callers, Scan(c) \/ Delete(c) PROVE SweepInv'
  <2>1. pc[c] \in {"scan", "delete"}
    BY <1>1 DEF Scan, Delete
  <2> QED BY <1>1, <2>1, SweepSteps, CrashSweeps, ScanSweeps, DeleteSweeps
<1>2. CASE Tick
  <2>1. /\ UNCHANGED <<hits, present, windows, lastSweep, crashed, pc, key, todo, expired>>
        /\ clock' = clock + 1
    BY <1>2 DEF Tick, shared, sweeping, history
  <2>2. WindowsKnown'
    BY <2>1, SweepTypes DEF SweepInv, WindowsKnown
  <2> QED BY <2>1, <2>2 DEF SweepInv, NoneEmpty, Absent, Reclaims, Stale, Sweeps
<1>3. CASE UNCHANGED vars
  BY <1>3 DEF vars, shared, sweeping, history, SweepInv, NoneEmpty, Absent, WindowsKnown,
     Reclaims, Stale, Sweeps
<1> QED BY <1>1, <1>2, <1>3, AroundSweeps, BeginSweeps, CountSweeps DEF Next, Rest

\* It holds of a process that has just started.
LEMMA InitSweep == Init => SweepInv
BY LimitAssumption DEF Init, SweepInv, NoneEmpty, Absent, WindowsKnown, Reclaims, Stale

\* A key whose hits were all out of its window when a sweep began is gone when nobody is in
\* the middle of a call, unless a call has failed (rate_limit.py:7-10).
THEOREM IdleKeysAreReclaimed == Spec => []IdleKeysReclaimed
<1>1. TypeOK /\ SweepInv => IdleKeysReclaimed
  <2> SUFFICES ASSUME TypeOK, SweepInv, \A c \in Callers : pc[c] = "idle", ~ crashed,
                      NEW k \in present
               PROVE  hits[k] # <<>> /\ lastSweep - LastOf(hits[k]) < Window[k]
    BY DEF IdleKeysReclaimed, Inside
  <2>1. hits[k] # <<>> /\ k \in Keys
    BY DEF SweepInv, NoneEmpty, TypeOK
  <2>2. ~ Stale(k)
    BY <2>1 DEF SweepInv, Reclaims, Sweeps
  <2>3. LastOf(hits[k]) \in Int /\ lastSweep \in Int /\ Window[k] \in Int
    BY <2>1, SweepTypes
  <2> QED BY <2>1, <2>2, <2>3 DEF Stale
<1> QED BY <1>1, InitLone, InitLimit, InitSweep, TypeInductive, LoneInductive, LimitInductive,
        SweepInductive, PTL DEF Spec
=============================================================================
