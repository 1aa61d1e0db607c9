SPECIFICATION Spec
CONSTANTS
  Context <- MCContext
  InputLabel <- MCInput
  OutputLabel <- MCOutput
  SeqLimit = 1
  MaxWriters = 1
  Ids <- MCIds
  Master <- MCMaster
INVARIANT LockedForAReason
PROPERTY StoredByItsLink
