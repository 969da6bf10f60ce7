SPECIFICATION Spec

CONSTANTS
  Branches <- Various
  Keep = 1
  IgnoreOpenPRs = FALSE
  ReleaseMode = TRUE
  Faults = TRUE
  MaxChanges = 2

INVARIANTS
  TypeOK
  KeepsNewest
  HeldPRsKept
  ReleasedOnly
  CleanedUp
  StrippedDeleted
