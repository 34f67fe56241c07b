SPECIFICATION Spec
CONSTANTS
  Clients = {c1, c2}
  Wants <- MixedWants
  NumCategories = 2
  MaxParts = 2
  MaxCrashes = 0
  Overlap = "never"
  Absent = Absent
SYMMETRY SomeClient
INVARIANT MeasuresWhatItReports
\* Every client ends.
CHECK_DEADLOCK FALSE
