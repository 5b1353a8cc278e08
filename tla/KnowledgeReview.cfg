\* A pipeline, a reviewer and an ingestion run at once; each may die between two
\* statements.
SPECIFICATION KnowledgeSpec
CONSTANTS
  Rules <- Renderings
  Value <- Values
  Source <- Sites
  Strong <- Museum
  Reports <- Disputed
  Corpus <- Latter
  Handbook <- Book
  Operator = {o1, o2}
  Pipelines = {o1}
  Reviewers = {o2}
  Edited <- Second
  Worker = {w1}
  MaxVersion = 1
INVARIANTS
  KnowledgeTypeOK
PROPERTIES
  ProductionStaysStable
  FactsSurviveMerging
CHECK_DEADLOCK FALSE
