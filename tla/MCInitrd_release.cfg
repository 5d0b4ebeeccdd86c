SPECIFICATION Spec

CONSTANTS
  NDEBUG = TRUE
  MaxEpoch = 2
  Lengths = {0, 1, 3}

INVARIANTS
  HandleIffRegistered
  DeliveredWhole
PROPERTIES
  RetrySucceeds
