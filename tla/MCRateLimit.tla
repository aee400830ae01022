---------------------------- MODULE MCRateLimit ----------------------------
(* Small instances of RateLimit for TLC. *)
EXTENDS RateLimit, TLC

Symmetry == Permutations(Callers)

\* A minute's limit and a longer one, as of purchases and of registrations.
MCLimit == [k \in Keys |-> IF k = "tx" THEN 2 ELSE 1]
MCWindow == [k \in Keys |-> IF k = "tx" THEN 1 ELSE 3]
=============================================================================
