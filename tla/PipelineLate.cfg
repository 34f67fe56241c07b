SPECIFICATION PipelineSpec
CONSTANTS
  c1 = c1
  c2 = c2
  Clients = {c1, c2}
  Wants <- OnePart
  NumCategories = 1
  MaxParts = 2
  MaxCrashes = 0
  Overlap = "never"
  Absent = Absent
  Logic = 2
  Home <- TwoShards
  NumObjects = 1
  NodeId <- OneNode
INVARIANT ReportsItsOwnObjects
\* Every client ends and every handler ends.
CHECK_DEADLOCK FALSE
