-------------------------------- MODULE Rounding --------------------------------
(***************************************************************************)
(* Python's round, of an exact quotient.                                   *)
(***************************************************************************)
EXTENDS Integers

\* round(n / d): to the nearest integer, ties to the even one.
Rounded(n, d) ==
  LET q == n \div d
      r == n % d
  IN  IF 2 * r < d \/ (2 * r = d /\ q % 2 = 0) THEN q ELSE q + 1
=============================================================================
