SPECIFICATION Spec
CONSTANTS
  Programs = {"cache_test", "shortcut_test", "udl_get_debug", "udl_microbenchmark", "p2p_send_debug"}
  NumWorkers <- MCNumWorkers
  MaxCommands <- MCMaxCommands
  Keys = {"a", "b"}
  Total = 2
INVARIANTS
  TypeOK
  LocalGetCorrect
  MeansAreTrue
  AloneIsMeasuredRight
PROPERTIES
  MissesOnlyWhileCaching
\* A client ends.
CHECK_DEADLOCK FALSE
