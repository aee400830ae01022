----------------------------- MODULE MCSessions -----------------------------
(* Small instances of Sessions for TLC. *)
EXTENDS Sessions, TLC

Symmetry == Permutations(Threads)

\* The password changes, with one second factor and no backup code used.
PasswordScenario == secrets <= 1 /\ used = {}

\* Second factors are set up and used, and the password stays.
CodesScenario == account.hash.salt = 0 /\ \A token \in tokens : token.purpose # "reset"

Scenarios == PasswordScenario \/ CodesScenario
=============================================================================
