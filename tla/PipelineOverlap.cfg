SPECIFICATION PipelineSpec
CONSTANTS
  c1 = c1
  c2 = c2
  Clients = {c1, c2}
  Wants <- FewOrMoreOrOther
  NumCategories = 2
  MaxParts = 2
  MaxCrashes = 0
  Overlap = "configured"
  Absent = Absent
  Logic = 1
  Home <- TwoShards
  NumObjects = 1
  NodeId <- TwoNodes
SYMMETRY SomeClient
INVARIANT PipelineTypeOK
INVARIANT PartsComplete
INVARIANT NoHandlerCrashes
INVARIANT ReportsItsOwnObjects
INVARIANT ReportsNodeWithData
INVARIANT ReadsAreLocal
PROPERTY MissesOnlyDuringSetup
\* Every client ends and every handler ends.
CHECK_DEADLOCK FALSE
