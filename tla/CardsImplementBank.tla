------------------------- MODULE CardsImplementBank -------------------------
(***************************************************************************)
(* Cards implements Bank: a request of the Bank takes effect where the     *)
(* handler commits with 200, and every other step of a handler is a        *)
(* stutter.                                                                *)
(***************************************************************************)
EXTENDS Cards

CONSTANTS
  Payments,   \* what one purchase may pay, round-up included
  NoOwner     \* the owner of a goal that does not exist

\* Payments has what the Menu's purchases pay at any level, boosted or rounded up.
ASSUME BankAssumption ==
  /\ NoOwner \notin Users
  /\ \A c \in Menu, i \in 1..5, boosted \in {10, 20} :
       c.op = "purchase" =>
         LET sats == calculate_reward(c.amount, 1, LEVELS[i].multiplier, boosted).total_sats
         IN  {sats, sats + c.spare} \subseteq Payments

\* The requests that the Bank counts: settings and deletions are not among them.
Settling == {"purchase", "create_goal", "allocate", "delete_goal", "register"}

OwnerOf(gs) == [g \in GoalIds |-> IF gs[g].state = "live" THEN gs[g].owner ELSE NoOwner]

B == INSTANCE Bank WITH
       OpeningOwner <- OwnerOf(OpeningGoal),
       member  <- account,
       balance <- wallet,
       owner   <- OwnerOf(goal),
       pot     <- [g \in GoalIds |-> goal[g].current],
       spent   <- {<<t.user, t.key>> : t \in {x \in bought : x.key # NoKey}},
       settled <- {r \in Requests : reply[r] = 200 /\ call[r].op \in Settling}

\* The handlers, interleaved as the server interleaves them, look to their clients
\* like the Bank (services.py, transactions.py, goals.py, routers/auth.py).
ImplementsBank == B!BankSpec
=============================================================================
