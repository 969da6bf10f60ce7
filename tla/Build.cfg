SPECIFICATION FairSpec

CONSTANTS
  NVariants = 1
  NTargets = 3
  CacheEnabled = TRUE
  MaxErrors = 2
  MaxLag = 2
  ForeignPVC = FALSE
  Interruptible = FALSE
  Faults = TRUE
  Deletable = {"Pending", "Running", "Succeeded"}

INVARIANTS
  TypeOK
  StageOrder
  StopSound
  LogsComplete
  ErrorBudget
  VolumeExists
  IndInv

PROPERTIES
  FirstStopWins
  Terminates
  FailureReported
  ImplementsPipeline
