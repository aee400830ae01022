--------------------------------- MODULE Survey ---------------------------------
(***************************************************************************)
(* The usability survey: routers/survey.py over a database that is         *)
(* migrated.                                                               *)
(*                                                                         *)
(* An answer that is missing is 0.  The free-text answers, stored and      *)
(* dropped with the others and never summarised, are left out, and so is   *)
(* the limit on submissions, which RateLimit models.                       *)
(***************************************************************************)
EXTENDS Migrations, FiniteSets, Sums

CONSTANTS
  Sources,                  \* "app" and "web"
  CONCEPT_LIKERT_FIELDS,    \* the items any respondent can answer
  APP_EXPERIENCE_FIELDS,    \* the items about screens of the application
  Q8_OPTIONS,
  Scale,                    \* the answers to an item, of 1..5
  MaxResponses              \* bounds the rows

ASSUME SurveyAssumption ==
  /\ Scale \subseteq 1..5
  /\ CONCEPT_LIKERT_FIELDS \cap APP_EXPERIENCE_FIELDS = {}
  /\ IsFiniteSet(Sources) /\ IsFiniteSet(Q8_OPTIONS)
  /\ "null" \notin Q8_OPTIONS

Fields == CONCEPT_LIKERT_FIELDS \cup APP_EXPERIENCE_FIELDS

Missing == 0
NotAnswered == "null"

Answers == [Fields -> {Missing} \cup Scale]

Response == [source : Sources, screened_out : BOOLEAN, has_used_app : {"yes", "no", "null"},
             answers : Answers, q8 : Q8_OPTIONS \cup {NotAnswered}, grounded : BOOLEAN]

\* What the API accepts: every field but the first two may be missing.
SurveyResponseCreate ==
  [source : Sources, screen_active_trader : BOOLEAN, has_used_app : {"yes", "no", "null"},
   answers : Answers, q8 : Q8_OPTIONS \cup {NotAnswered}]

-----------------------------------------------------------------------------
(* Submitting. *)

Unanswered(body, fields) == \E f \in fields : body.answers[f] = Missing

\* A respondent who is an active trader need not answer anything.
Complete(body) ==
  \/ body.screen_active_trader
  \/ /\ ~ Unanswered(body, CONCEPT_LIKERT_FIELDS)
     /\ body.q8 # NotAnswered
     /\ body.has_used_app # "null"
     /\ body.has_used_app = "yes" => ~ Unanswered(body, APP_EXPERIENCE_FIELDS)

\* The fields whose answers are stored.
Kept(body) ==
  IF body.screen_active_trader THEN {}
  ELSE IF body.has_used_app = "yes" THEN Fields
  ELSE CONCEPT_LIKERT_FIELDS

Stored(body) ==
  [source       |-> body.source,
   screened_out |-> body.screen_active_trader,
   has_used_app |-> IF body.screen_active_trader THEN "null" ELSE body.has_used_app,
   answers      |-> [f \in Fields |-> IF f \in Kept(body) THEN body.answers[f] ELSE Missing],
   q8           |-> IF body.screen_active_trader THEN NotAnswered ELSE body.q8,
   grounded     |-> body.has_used_app = "yes"]

HasColumn(c) ==
  "survey_responses" \in Tables(schema) /\ c \in schema["survey_responses"].columns

\* submit_response: refused, or stored by a database that has the column.
submit_response(body) ==
  /\ Idle /\ HasColumn("has_used_app")
  /\ Len(responses) < MaxResponses
  /\ Complete(body)
  /\ responses' = Append(responses, Stored(body))
  /\ UNCHANGED <<dialect, schema, version, todo, saved, events>>

\* The release before c4e2a1f6b8d3 asked every item of everyone, and not whether they
\* had used the application.
EarlierRelease(body) ==
  /\ Idle /\ "survey_responses" \in Tables(schema)
  /\ ~ HasColumn("has_used_app")
  /\ Len(responses) < MaxResponses
  /\ \A f \in Fields : body.answers[f] # Missing
  /\ body.q8 # NotAnswered
  /\ body.has_used_app = "null" /\ ~ body.screen_active_trader
  /\ responses' = Append(responses, [source |-> body.source, screened_out |-> FALSE,
                                     has_used_app |-> "null", answers |-> body.answers,
                                     q8 |-> body.q8, grounded |-> FALSE])
  /\ UNCHANGED <<dialect, schema, version, todo, saved, events>>

-----------------------------------------------------------------------------
(* The summary. *)

\* The k-th of the sorted values: the least that has as many up to it.
Nth(values, k) ==
  Min({x \in 1..5 : Cardinality({i \in DOMAIN values : values[i] <= x}) >= k})

\* The k-th of the quartiles of statistics.quantiles(n=4, method="inclusive"), in
\* quarters; those of a single value are that value.
Quartile(values, k) ==
  LET m    == Cardinality(DOMAIN values) - 1
      j    == (k * m) \div 4 + 1
      rest == (k * m) % 4
  IN  IF rest = 0 THEN 4 * Nth(values, j)
      ELSE Nth(values, j) * (4 - rest) + Nth(values, j + 1) * rest

\* In quarters too.
Median(values) ==
  LET n == Cardinality(DOMAIN values)
      h == n \div 2
  IN  IF n % 2 = 1 THEN 4 * Nth(values, h + 1) ELSE 2 * (Nth(values, h) + Nth(values, h + 1))

Count(values, x) == Cardinality({i \in DOMAIN values : values[i] = x})

\* The mean, a rounded quotient of the sum and n, is left out.
likert_stats(values) ==
  IF DOMAIN values = {} THEN [n |-> 0, distribution |-> [x \in 1..5 |-> 0]]
  ELSE [n |-> Cardinality(DOMAIN values), median |-> Median(values),
        q1 |-> Quartile(values, 1), q3 |-> Quartile(values, 3),
        distribution |-> [x \in 1..5 |-> Count(values, x)]]

cohort_LegacyUsedApp(r) ==
  IF r.screened_out THEN "screened_out"
  ELSE IF r.has_used_app = "no" THEN "concept_only" ELSE "used_app"

cohort(r) ==
  IF r.screened_out THEN "screened_out"
  ELSE IF r.has_used_app = "null" THEN "legacy"
  ELSE IF r.has_used_app = "yes" THEN "used_app" ELSE "concept_only"

\* A group of responses, by their places.
Group(cohorts) == {i \in DOMAIN responses : cohort(responses[i]) \in cohorts}

Included == Group({"legacy", "used_app", "concept_only"})

values(group, f) ==
  [i \in {j \in group : responses[j].answers[f] # Missing} |-> responses[i].answers[f]]

summary_PoolsIncluded ==
  [total_responses |-> Len(responses),
   screened_out    |-> Cardinality(Group({"screened_out"})),
   included        |-> Cardinality(Included),
   used_app_count  |-> Cardinality(Group({"used_app"})),
   legacy_count    |-> Cardinality(Group({"legacy"})),
   by_source       |-> [s \in Sources |->
                         Cardinality({i \in DOMAIN responses : responses[i].source = s})],
   likert          |-> [f \in Fields |-> likert_stats(values(Included, f))],
   legacy_app_items |-> [f \in APP_EXPERIENCE_FIELDS |->
                          likert_stats(values(Group({"legacy"}), f))],
   q8_distribution |-> [o \in Q8_OPTIONS |->
                         Cardinality({i \in Included : responses[i].q8 = o})]]

summary ==
  [total_responses |-> Len(responses),
   screened_out    |-> Cardinality(Group({"screened_out"})),
   included        |-> Cardinality(Included),
   used_app_count  |-> Cardinality(Group({"used_app"})),
   legacy_count    |-> Cardinality(Group({"legacy"})),
   by_source       |-> [s \in Sources |->
                         Cardinality({i \in DOMAIN responses : responses[i].source = s})],
   likert          |-> [f \in Fields |->
                          likert_stats(values(IF f \in CONCEPT_LIKERT_FIELDS
                                                THEN Included ELSE Group({"used_app"}), f))],
   legacy_app_items |-> [f \in APP_EXPERIENCE_FIELDS |->
                          likert_stats(values(Group({"legacy"}), f))],
   q8_distribution |-> [o \in Q8_OPTIONS |->
                         Cardinality({i \in Included : responses[i].q8 = o})]]

-----------------------------------------------------------------------------
Bodies == SurveyResponseCreate

SurveyNext ==
  \/ Migrate
  \/ \E body \in Bodies : submit_response(body) \/ EarlierRelease(body)

SurveySpec == MigrationsInit /\ [][SurveyNext]_mvars

-----------------------------------------------------------------------------
\* A migration is refused by the database only on SQLite, and there only after
\* create_all has made tables no revision knows of or a command was interrupted: on
\* Postgres any interruption can be followed by any other command. And a database at the
\* last revision has the tables, keys and indexes the models declare, however it got
\* there, but for an interruption on SQLite (main.py:120-123).
SchemaStraysOnlyLocally ==
  /\ "failed" \in events => /\ dialect = "sqlite"
                             /\ events \cap {"create_all", "interrupted"} # {}
  /\ Idle /\ version = Latest /\ (dialect = "postgres" \/ "interrupted" \notin events)
       => schema = Metadata

Grounded(r) ==
  /\ cohort(r) = "used_app" => r.grounded
  /\ cohort(r) \in {"concept_only", "screened_out"}
       => \A f \in APP_EXPERIENCE_FIELDS : r.answers[f] = Missing

Consistent(stats) ==
  /\ SumOf(stats.distribution, 1..5) = stats.n
  /\ stats.n > 0 => stats.q1 <= stats.median /\ stats.median <= stats.q3

\* The app items are summarised over respondents who said that they had used the
\* application, and over no others, through migrations too: those make legacy rows of
\* all others. Every count is over the group it is reported beside: concept items and
\* question 8 over the included, app items over those who used the application, or
\* apart, over legacy rows, some of which a downgrade has left without answers; the
\* groups make up all the responses, as the sources do; and a distribution adds up to
\* its n, about a median between its quartiles (survey.py:89-176).
SummaryKeepsGroupsApart ==
  LET s == summary
  IN  /\ \A i \in DOMAIN responses : Grounded(responses[i])
      /\ s.total_responses = s.screened_out + s.included
      /\ s.total_responses = SumOf(s.by_source, Sources)
      /\ s.included = SumOf(s.q8_distribution, Q8_OPTIONS)
      /\ \A f \in Fields :
           /\ Consistent(s.likert[f])
           /\ s.likert[f].n = IF f \in CONCEPT_LIKERT_FIELDS THEN s.included
                                                            ELSE s.used_app_count
      /\ \A f \in APP_EXPERIENCE_FIELDS :
           /\ Consistent(s.legacy_app_items[f])
           /\ s.legacy_app_items[f].n <= s.legacy_count
=============================================================================
