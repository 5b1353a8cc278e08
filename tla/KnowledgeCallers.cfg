\* Two callers that may each make every call, on two renderings of one value.
SPECIFICATION KnowledgeSpec
CONSTANTS
  Rules <- Pair
  Value <- OneValue
  Source <- Sites
  Strong <- Museum
  Reports <- Disputed
  Corpus <- Second
  Handbook <- Book
  Operator = {o1, o2}
  Pipelines = {o1, o2}
  Reviewers = {o1, o2}
  Edited <- Pair
  Worker = {w1}
  MaxVersion = 1
SYMMETRY Callers
INVARIANTS
  KnowledgeTypeOK
PROPERTIES
  ProductionStaysStable
  FactsSurviveMerging
CHECK_DEADLOCK FALSE
