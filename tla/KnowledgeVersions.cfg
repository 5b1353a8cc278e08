\* The same callers with a second version to publish, and no edits.
SPECIFICATION KnowledgeSpec
CONSTANTS
  Rules <- Renderings
  Value <- Values
  Source <- Sites
  Strong <- Museum
  Reports <- Disputed
  Corpus <- Third
  Handbook <- Book
  Operator = {o1, o2}
  Pipelines = {o1}
  Reviewers = {o2}
  Edited = {}
  Worker = {w1}
  MaxVersion = 2
INVARIANTS
  KnowledgeTypeOK
PROPERTIES
  ProductionStaysStable
  FactsSurviveMerging
CHECK_DEADLOCK FALSE
