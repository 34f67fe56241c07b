SPECIFICATION Spec
CONSTANTS
  Clients = {c1, c2, c3}
  Wants <- AllWants
  NumCategories = 2
  MaxParts = 2
  MaxCrashes = 0
  Overlap = "never"
  Absent = Absent
SYMMETRY SomeClient
INVARIANT ReadyToServe
INVARIANT OneSizeServed
PROPERTY NumbersGrow
\* Every client ends.
CHECK_DEADLOCK FALSE
