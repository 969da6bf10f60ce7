SPECIFICATION FairSpec

CONSTANTS
  Repos = {gardener, druid}
  Forking = {gardener}
  Branches = {v1, v2}
  Prefix = {}
  MaxEvents = 2
  MaxFaults = 1
  Unprotecting = FALSE

INVARIANTS
  TypeOK
  RunComplete
  SomethingToCommit

PROPERTIES
  Converges
