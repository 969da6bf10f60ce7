SPECIFICATION FairSpec

CONSTANTS
  Files = {"config", "plugins"}
  Original <- MCOriginal
  Titles = {"v1", "v2"}
  MaxEvents = 2
  MaxFaults = 1

INVARIANTS
  TypeOK
  TextKept
  SomethingToCommit
  StaysUpdatable

PROPERTIES
  Converges
