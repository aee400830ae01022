------------------------------ MODULE MCAlerts ------------------------------
(* Small instances of Alerts for TLC. *)
EXTENDS Alerts

\* With the prices 1 and 2, each of these is crossed at one of them only.
MCLevels == {[target |-> 2, direction |-> "above"], [target |-> 1, direction |-> "below"]}
=============================================================================
