\* The reviewer approves while the pipeline works from an older list.
SPECIFICATION KnowledgeSpec
CONSTANTS
  Rules <- Pair
  Value <- TwoValues
  Source <- Sites
  Strong <- Museum
  Reports <- OneReport
  Corpus <- Second
  Handbook <- Book
  Operator = {o1, o2}
  Pipelines = {o1, o2}
  Reviewers = {o1, o2}
  Edited <- Pair
  Worker = {w1}
  MaxVersion = 1
PROPERTIES
  ApprovedStaysInProduction
CHECK_DEADLOCK FALSE
