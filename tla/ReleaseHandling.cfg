SPECIFICATION Spec

CONSTANTS
  Versions <- MCVersions
  MaxCommits = 4
  MaxPush = 2
  MaxEvents = 2
  CheckoutFails = FALSE

INVARIANTS
  TypeOK
  BranchPoint
  GreenMeansBranched

PROPERTIES
  KeepsCommits

CHECK_DEADLOCK FALSE
