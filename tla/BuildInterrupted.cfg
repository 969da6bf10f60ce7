SPECIFICATION Spec

CONSTANTS
  NVariants = 1
  NTargets = 2
  CacheEnabled = TRUE
  MaxErrors = 1
  MaxLag = 2
  ForeignPVC = FALSE
  Interruptible = TRUE
  Faults = FALSE
  Deletable = {}

INVARIANTS
  VerdictSound
