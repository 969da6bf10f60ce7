SPECIFICATION FairSpec

CONSTANTS
  NVariants = 1
  NTargets = 2
  CacheEnabled = TRUE
  MaxErrors = 1
  MaxLag = 2
  ForeignPVC = TRUE
  Interruptible = FALSE
  Faults = FALSE
  Deletable = {}

PROPERTIES
  Terminates
