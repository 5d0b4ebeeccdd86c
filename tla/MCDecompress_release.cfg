SPECIFICATION Spec

CONSTANTS
  NDEBUG = TRUE
  USE_LZ4 = TRUE
  USE_ZSTD = TRUE
  MaxBlocks = 3
  Sections <- MCSections

INVARIANTS
  ErrorReleases
  WholeKernel
  DamageSeen
PROPERTIES
  Terminates
