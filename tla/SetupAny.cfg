SPECIFICATION Spec
CONSTANTS
  Clients = {c1, c2}
  Wants <- MixedWants
  NumCategories = 2
  MaxParts = 2
  MaxCrashes = 1
  Overlap = "always"
  Absent = Absent
SYMMETRY SomeClient
INVARIANT TypeOK
INVARIANT MissingPartHasPutter
\* Every client ends.
CHECK_DEADLOCK FALSE
