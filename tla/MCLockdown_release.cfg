SPECIFICATION Spec

CONSTANTS
  NDEBUG = TRUE
  MaxRuns = 2

INVARIANTS
  NeverLockedOut
  ReturnReleases
  SuccessMeansSecure
PROPERTIES
  AllReadBeforeFirstWrite
  KeysAreFinal
