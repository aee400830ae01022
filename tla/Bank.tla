-------------------------------- MODULE Bank --------------------------------
(***************************************************************************)
(* What the value-moving part of the API promises its cardholders: every   *)
(* request takes effect at most once and in one step, a key pays once, a   *)
(* balance never goes below zero, and sats move between a balance and its  *)
(* owner's pots without being made or lost.                                *)
(*                                                                         *)
(* There are no requests in progress, locks, rows or failures here.        *)
(***************************************************************************)
EXTENDS Integers, FiniteSets

CONSTANTS
  Users, Requests, Keys, NoKey, GoalIds,
  Payments,       \* what one purchase may add to a balance
  Members,        \* users at the start, each with a welcome bonus
  OpeningOwner,   \* the owner of each goal at the start, or NoOwner
  NoOwner,
  WelcomeSats, ReferrerSats

VARIABLES
  member,     \* "none", "open" or "gone"
  balance,    \* what each user can spend
  owner, pot, \* whose each goal is, and what is in it
  spent,      \* the keys that have paid
  settled     \* the requests that have taken effect

bankVars == <<member, balance, owner, pot, spent, settled>>

BankInit ==
  /\ member = [u \in Users |-> IF u \in Members THEN "open" ELSE "none"]
  /\ balance = [u \in Users |-> IF u \in Members THEN WelcomeSats ELSE 0]
  /\ owner = OpeningOwner
  /\ pot = [g \in GoalIds |-> 0]
  /\ spent = {}
  /\ settled = {}

\* A request takes effect.
Settle(r) == r \notin settled /\ settled' = settled \cup {r}

\* A purchase pays, unless its key has paid before.
Pay(u, k, n) ==
  /\ member[u] = "open"
  /\ <<u, k>> \notin spent
  /\ spent' = IF k = NoKey THEN spent ELSE spent \cup {<<u, k>>}
  /\ balance' = [balance EXCEPT ![u] = @ + n]
  /\ UNCHANGED <<member, owner, pot>>

\* Sats move from a balance that has them to a goal of its owner, and back.
Save(u, g, n) ==
  /\ owner[g] = u
  /\ n <= balance[u]
  /\ balance' = [balance EXCEPT ![u] = @ - n]
  /\ pot' = [pot EXCEPT ![g] = @ + n]
  /\ UNCHANGED <<member, owner, spent>>

OpenPot(u, g) ==
  /\ member[u] = "open"
  /\ owner[g] = NoOwner
  /\ owner' = [owner EXCEPT ![g] = u]
  /\ UNCHANGED <<member, balance, pot, spent>>

DropPot(u, g) ==
  /\ owner[g] = u
  /\ balance' = [balance EXCEPT ![u] = @ + pot[g]]
  /\ pot' = [pot EXCEPT ![g] = 0]
  /\ owner' = [owner EXCEPT ![g] = NoOwner]
  /\ UNCHANGED <<member, spent>>

\* A new member, alone or brought by a friend: then both are paid.
Join(u) ==
  /\ member[u] = "none"
  /\ member' = [member EXCEPT ![u] = "open"]
  /\ UNCHANGED <<balance, owner, pot, spent>>

JoinReferred(u, f) ==
  /\ member[u] = "none" /\ member[f] = "open"
  /\ member' = [member EXCEPT ![u] = "open"]
  /\ balance' = [balance EXCEPT ![u] = WelcomeSats, ![f] = @ + ReferrerSats]
  /\ UNCHANGED <<owner, pot, spent>>

\* A member leaves; nothing of theirs stays and nobody else's balance moves.
Leave(u) ==
  /\ member[u] = "open"
  /\ member' = [member EXCEPT ![u] = "gone"]
  /\ balance' = [balance EXCEPT ![u] = 0]
  /\ pot' = [g \in GoalIds |-> IF owner[g] = u THEN 0 ELSE pot[g]]
  /\ owner' = [g \in GoalIds |-> IF owner[g] = u THEN NoOwner ELSE owner[g]]
  /\ spent' = {x \in spent : x[1] # u}
  /\ UNCHANGED settled

BankNext ==
  \/ \E r \in Requests :
       /\ Settle(r)
       /\ \E u \in Users :
            \/ \E k \in Keys \cup {NoKey}, n \in Payments : Pay(u, k, n)
            \/ \E g \in GoalIds : \E n \in 0..balance[u] : Save(u, g, n)
            \/ \E g \in GoalIds : OpenPot(u, g) \/ DropPot(u, g)
            \/ Join(u)
            \/ \E f \in Users : JoinReferred(u, f)
  \/ \E u \in Users : Leave(u)

BankSpec == BankInit /\ [][BankNext]_bankVars
=============================================================================
