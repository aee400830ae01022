--------------------------------- MODULE Schema ---------------------------------
(***************************************************************************)
(* The database's schema: what app/models.py declares, and what each       *)
(* revision under migrations/versions creates and drops.                   *)
(*                                                                         *)
(* A schema maps its tables to their foreign keys, unique columns, indexes *)
(* and columns.  Of the columns only those a revision adds to a table that *)
(* is already there are kept.                                              *)
(***************************************************************************)
EXTENDS Integers, Sequences, SequencesExt, TLC

Table(refs, unique, indexes) ==
  [refs |-> refs, unique |-> unique, indexes |-> indexes, columns |-> {}]

OfUser == {<<"user_id", "users">>}
OfPurchase == {<<"transaction_id", "transactions">>}

\* Tables that hold one row for each user.
OnePerUser == Table(OfUser, {"user_id"}, {})

-----------------------------------------------------------------------------
(* The declarations of models.py. *)

AccountModels ==
  ("users"                :> Table({}, {"email"}, {"email"})) @@
  ("user_totp"            :> OnePerUser) @@
  ("user_streaks"         :> OnePerUser) @@
  ("user_badges"          :> Table(OfUser, {"user_id, badge_key"}, {"user_id", "unique"})) @@
  ("user_active_boosts"   :> OnePerUser) @@
  ("savings_goals"        :> Table(OfUser, {}, {"user_id"})) @@
  ("roundup_configs"      :> OnePerUser) @@
  ("auto_withdraw_configs" :> OnePerUser) @@
  ("referral_codes"       :> Table(OfUser, {"user_id", "code"}, {"code"})) @@
  ("referrals"            :> Table({<<"referrer_id", "users">>, <<"referee_id", "users">>},
                                   {"referee_id"}, {"referrer_id"})) @@
  ("price_alerts"         :> Table(OfUser, {}, {"user_id", "pending"})) @@
  ("notifications"        :> Table(OfUser, {}, {"user_id", "created_at", "user_created", "unread"}))

MoneyModels ==
  ("transactions"         :> Table(OfUser, {"user_id, idempotency_key"},
                                   {"user_id", "category", "created_at", "user_created"})) @@
  ("reward_events"        :> Table(OfUser \cup OfPurchase, {},
                                   {"user_id", "transaction_id", "created_at", "user_created"})) @@
  ("wallet_balances"      :> OnePerUser) @@
  ("wallet_transactions"  :> Table(OfUser, {}, {"user_id", "created_at", "user_created"})) @@
  ("category_cashback"    :> Table({}, {"category"}, {})) @@
  ("transaction_risk_scores" :> Table(OfUser \cup OfPurchase, {"transaction_id"},
                                      {"user_id", "flagged"}))

SurveyModel ==
  "survey_responses" :> [Table({}, {}, {"created_at"}) EXCEPT !.columns = {"has_used_app"}]

Metadata == AccountModels @@ MoneyModels @@ SurveyModel

-----------------------------------------------------------------------------
(* The scripts: sequences of steps, of which the last stamps the revision. *)

create_table(t, refs, unique) ==
  << [do |-> "create_table", table |-> t, def |-> Table(refs, unique, {})] >>
drop_table(t)      == << [do |-> "drop_table", table |-> t] >>
create_index(t, i) == << [do |-> "create_index", table |-> t, index |-> i] >>
drop_index(t, i)   == << [do |-> "drop_index", table |-> t, index |-> i] >>
add_column(t, c)   == << [do |-> "add_column", table |-> t, column |-> c] >>
drop_column(t, c)  == << [do |-> "drop_column", table |-> t, column |-> c] >>
stamp(r)           == << [do |-> "stamp", rev |-> r] >>

\* The baseline's tables in the order it creates them, each with its indexes.
BaselineAccounts ==
  << <<"category_cashback", {}, {"category"}, << >> >>,
     <<"users", {}, {"email"}, <<"email">> >>,
     <<"auto_withdraw_configs", OfUser, {"user_id"}, << >> >>,
     <<"notifications", OfUser, {}, <<"user_created", "created_at", "user_id">> >>,
     <<"price_alerts", OfUser, {}, <<"user_id">> >>,
     <<"referral_codes", OfUser, {"user_id", "code"}, <<"code">> >>,
     <<"referrals", {<<"referee_id", "users">>, <<"referrer_id", "users">>},
                    {"referee_id"}, <<"referrer_id">> >>,
     <<"roundup_configs", OfUser, {"user_id"}, << >> >>,
     <<"savings_goals", OfUser, {}, <<"user_id">> >> >>

BaselineMoney ==
  << <<"transactions", OfUser, {"user_id, idempotency_key"},
                       <<"user_created", "category", "created_at", "user_id">> >>,
     <<"user_active_boosts", OfUser, {"user_id"}, << >> >>,
     <<"user_badges", OfUser, {"user_id, badge_key"}, <<"unique", "user_id">> >>,
     <<"user_streaks", OfUser, {"user_id"}, << >> >>,
     <<"user_totp", OfUser, {"user_id"}, << >> >>,
     <<"wallet_balances", OfUser, {"user_id"}, << >> >>,
     <<"wallet_transactions", OfUser, {}, <<"created_at", "user_id", "user_created">> >>,
     <<"reward_events", OfUser \cup OfPurchase, {}, <<"created_at", "user_id", "user_created">> >>,
     <<"transaction_risk_scores", OfUser \cup OfPurchase, {"transaction_id"}, <<"user_id">> >> >>

Baseline == BaselineAccounts \o BaselineMoney

Script(pieces, f(_)) == FlattenSeq([i \in DOMAIN pieces |-> f(pieces[i])])

CreateWithIndexes(b) ==
  create_table(b[1], b[2], b[3]) \o Script(b[4], LAMBDA i : create_index(b[1], i))

DropWithIndexes(b) ==
  Script(Reverse(b[4]), LAMBDA i : drop_index(b[1], i)) \o drop_table(b[1])

\* The indexes of d7a3e9b1c5f2.
QueryIndexes ==
  << <<"reward_events", "transaction_id">>, <<"price_alerts", "pending">>,
     <<"notifications", "unread">>, <<"transaction_risk_scores", "flagged">> >>

Latest == 4

upgrade(r) ==
  CASE r = 1 -> Script(Baseline, CreateWithIndexes)
    [] r = 2 -> create_table("survey_responses", {}, {}) \o
                create_index("survey_responses", "created_at")
    [] r = 3 -> add_column("survey_responses", "has_used_app")
    [] r = 4 -> Script(QueryIndexes, LAMBDA q : create_index(q[1], q[2]))

downgrade_SameOrder(r) ==
  CASE r = 1 -> Script(Baseline, DropWithIndexes)
    [] r = 2 -> drop_index("survey_responses", "created_at") \o drop_table("survey_responses")
    [] r = 3 -> drop_column("survey_responses", "has_used_app")
    [] r = 4 -> Script(Reverse(QueryIndexes), LAMBDA q : drop_index(q[1], q[2]))

downgrade(r) ==
  CASE r = 1 -> Script(Reverse(Baseline), DropWithIndexes)
    [] r = 2 -> drop_index("survey_responses", "created_at") \o drop_table("survey_responses")
    [] r = 3 -> drop_column("survey_responses", "has_used_app")
    [] r = 4 -> Script(Reverse(QueryIndexes), LAMBDA q : drop_index(q[1], q[2]))

\* What `alembic upgrade head` and `alembic downgrade` run, from revision v.
UpgradeHead(v) == Script([i \in 1..(Latest - v) |-> v + i], LAMBDA r : upgrade(r) \o stamp(r))

DowngradeTo(v, low) ==
  Script([i \in 1..(v - low) |-> v - i + 1], LAMBDA r : downgrade(r) \o stamp(r - 1))

-----------------------------------------------------------------------------
(* What the database does with a step. *)

Tables(schema) == DOMAIN schema

RefersTo(schema, t, u) == \E ref \in schema[t].refs : ref[2] = u

\* A table may be created once, after those it refers to; dropped after those that
\* refer to it; and altered while it is there.
Possible(step, schema) ==
  LET t == step.table
  IN  CASE step.do = "create_table" ->
             t \notin Tables(schema) /\ \A ref \in step.def.refs : ref[2] \in Tables(schema)
        [] step.do = "drop_table" ->
             t \in Tables(schema) /\ \A u \in Tables(schema) \ {t} : ~ RefersTo(schema, u, t)
        [] step.do = "create_index" -> t \in Tables(schema) /\ step.index \notin schema[t].indexes
        [] step.do = "drop_index"   -> t \in Tables(schema) /\ step.index \in schema[t].indexes
        [] step.do = "add_column"   -> t \in Tables(schema) /\ step.column \notin schema[t].columns
        [] step.do = "drop_column"  -> t \in Tables(schema) /\ step.column \in schema[t].columns
        [] step.do = "stamp"        -> TRUE

Applied(step, schema) ==
  LET t == step.table
  IN  CASE step.do = "create_table" -> schema @@ (t :> step.def)
        [] step.do = "drop_table"   -> [u \in Tables(schema) \ {t} |-> schema[u]]
        [] step.do = "create_index" -> [schema EXCEPT ![t].indexes = @ \cup {step.index}]
        [] step.do = "drop_index"   -> [schema EXCEPT ![t].indexes = @ \ {step.index}]
        [] step.do = "add_column"   -> [schema EXCEPT ![t].columns = @ \cup {step.column}]
        [] step.do = "drop_column"  -> [schema EXCEPT ![t].columns = @ \ {step.column}]
        [] step.do = "stamp"        -> schema

NoTables == [t \in {} |-> Table({}, {}, {})]

\* Base.metadata.create_all: the tables that are missing, with their indexes; a table
\* that is there is left as it is.
create_all(schema) == schema @@ Metadata
=============================================================================
