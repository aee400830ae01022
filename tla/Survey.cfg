\* Migrations up, down and interrupted, under responses of two releases.
SPECIFICATION SurveySpec
CONSTANTS
  Sources = {"app"}
  CONCEPT_LIKERT_FIELDS = {"q1"}
  APP_EXPERIENCE_FIELDS = {"q4"}
  Q8_OPTIONS = {"more"}
  Scale = {1, 5}
  MaxResponses = 3
CONSTRAINT Explored
INVARIANTS SchemaStraysOnlyLocally SummaryKeepsGroupsApart
