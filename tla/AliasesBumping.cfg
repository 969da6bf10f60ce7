SPECIFICATION FairSpec

CONSTANTS
  Norm <- MCNorm
  MinAdmins = 1
  RequiredAdmins = {"alice"}
  Bumpers = {"hourly", "postsubmit"}
  Periodic = "hourly"
  Configs <- MCConfigs
  Aliases <- MCAliases
  Logins = {"alice", "bob"}
  MaxEvents = 2
  MaxFaults = 1

INVARIANTS
  TypeOK
  ProposalsJustified
  NewestKept

PROPERTIES
  Proposed
