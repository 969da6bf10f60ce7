SPECIFICATION Spec

CONSTANTS
  Branches <- Releases
  Keep = 2
  IgnoreOpenPRs = FALSE
  ReleaseMode = TRUE
  Faults = FALSE
  MaxChanges = 1

INVARIANTS
  KeepsN
