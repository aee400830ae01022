-------------------------------- MODULE MCSurvey --------------------------------
(***************************************************************************)
(* A small instance of Survey for TLC.                                     *)
(***************************************************************************)
EXTENDS Survey

\* A database that has refused a migration is not followed further, nor are the
\* responses of one on SQLite in which a migration was interrupted.
Explored ==
  /\ "failed" \notin events
  /\ dialect = "sqlite" /\ events # {} => responses = << >>
=============================================================================
