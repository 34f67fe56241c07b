SPECIFICATION FairPipelineSpec
CONSTANTS
  c1 = c1
  c2 = c2
  Clients = {c1, c2}
  Wants <- FewOrMoreOrOther
  NumCategories = 1
  MaxParts = 2
  MaxCrashes = 1
  Overlap = "never"
  Absent = Absent
  Logic = 1
  Home <- TwoShards
  NumObjects = 1
  NodeId <- OneNode
PROPERTY EveryRunEnds
PROPERTY EveryObjectReturns
\* Every client ends and every handler ends.
CHECK_DEADLOCK FALSE
