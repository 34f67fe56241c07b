SPECIFICATION FairSpec
CONSTANTS
  NumShards = 3
  Tests = {"multishard_tx", "multiple_object"}
  Orders = {TRUE, FALSE}
  FirstVersions = {0, 1}
INVARIANTS
  TypeOK
  AnnouncedOutcomes
  OneOfEachPair
  OnlyWrongUpdateFails
PROPERTIES
  EveryTestEnds
  ImplementsSerialStore
\* The test ends.
CHECK_DEADLOCK FALSE
