SPECIFICATION Spec

CONSTANTS
  gardener = gardener
  extension = extension
  Repos = {gardener, extension}
  Forking = {gardener, extension}
  Branches = {v1}
  Prefix <- PrefixPairs
  MaxEvents = 0
  MaxFaults = 0
  Unprotecting = FALSE

INVARIANTS
  OrphansOnly
