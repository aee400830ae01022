------------------------------- MODULE Migrations -------------------------------
(***************************************************************************)
(* A database that is migrated up and down (migrations/env.py), started on *)
(* (main.py:119-126) and interrupted, and the survey's responses in it,    *)
(* the rows a later revision reinterprets.                                 *)
(*                                                                         *)
(* One step of a script is one action.  Postgres runs all of a command's   *)
(* scripts in one transaction; on SQLite every step is there at once.      *)
(***************************************************************************)
EXTENDS Schema

VARIABLES
  dialect,     \* settings.is_sqlite: "postgres" or "sqlite"
  schema,
  version,     \* alembic_version: the revisions applied
  responses,   \* the rows of survey_responses
  todo,        \* the steps left of the command that runs
  saved,       \* what a rollback restores
  events       \* history: what has happened to the database

database == <<schema, version, responses>>

mvars == <<dialect, schema, version, responses, todo, saved, events>>

MigrationsInit ==
  /\ dialect \in {"postgres", "sqlite"}
  /\ schema = NoTables
  /\ version = 0
  /\ responses = << >>
  /\ todo = << >>
  /\ saved = << >>
  /\ events = {}

Idle == todo = << >>

Command(steps) ==
  /\ Idle /\ steps # << >>
  /\ todo' = steps
  /\ saved' = IF dialect = "postgres" THEN database ELSE << >>
  /\ UNCHANGED <<dialect, database, events>>

Upgrade == Command(UpgradeHead(version))

Downgrade == \E low \in 0..Latest : low < version /\ Command(DowngradeTo(version, low))

RowsAfter_DefaultsTrue(step) ==
  CASE step.do = "add_column" -> [i \in DOMAIN responses |->
                                     [responses[i] EXCEPT !.has_used_app = "yes"]]
    [] step.do = "drop_column" -> [i \in DOMAIN responses |->
                                     [responses[i] EXCEPT !.has_used_app = "null"]]
    [] step.do = "drop_table" -> IF step.table = "survey_responses" THEN << >> ELSE responses
    [] OTHER -> responses

\* A column that is added is null in the rows there are, and one that is dropped takes
\* its values with it.
RowsAfter(step) ==
  CASE step.do \in {"add_column", "drop_column"} ->
         [i \in DOMAIN responses |-> [responses[i] EXCEPT !.has_used_app = "null"]]
    [] step.do = "drop_table" /\ step.table = "survey_responses" -> << >>
    [] OTHER -> responses

\* The last step commits the transaction.
RunStep ==
  /\ ~ Idle
  /\ LET step == Head(todo) IN
       /\ Possible(step, schema)
       /\ schema' = Applied(step, schema)
       /\ version' = IF step.do = "stamp" THEN step.rev ELSE version
       /\ responses' = RowsAfter(step)
  /\ todo' = Tail(todo)
  /\ saved' = IF Tail(todo) = << >> THEN << >> ELSE saved
  /\ UNCHANGED <<dialect, events>>

Abandon ==
  /\ todo' = << >> /\ saved' = << >>
  /\ IF dialect = "postgres"
       THEN schema' = saved[1] /\ version' = saved[2] /\ responses' = saved[3]
       ELSE UNCHANGED database
  /\ UNCHANGED dialect

\* The database refuses a step, and the command ends.
StepFails ==
  /\ ~ Idle /\ ~ Possible(Head(todo), schema)
  /\ Abandon
  /\ events' = events \cup {"failed"}

\* The command is interrupted, on SQLite at most once.
Interrupt ==
  /\ ~ Idle /\ "interrupted" \notin events
  /\ Abandon
  /\ events' = IF dialect = "sqlite" THEN events \cup {"interrupted"} ELSE events

CreatesAll_Always == TRUE

CreatesAll == dialect = "sqlite"

\* The application starts (lifespan).
Start ==
  /\ Idle /\ CreatesAll
  /\ schema' = create_all(schema)
  /\ events' = IF schema' = schema THEN events ELSE events \cup {"create_all"}
  /\ UNCHANGED <<dialect, version, responses, todo, saved>>

Migrate == Upgrade \/ Downgrade \/ RunStep \/ StepFails \/ Interrupt \/ Start
=============================================================================
