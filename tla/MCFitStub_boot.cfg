SPECIFICATION Spec

CONSTANTS
  NDEBUG = TRUE
  Entries = {1, 2}
  U32 = 256
  Options <- MCOptions
  Orders <- MCOrders

INVARIANTS
  BootCurrentIsTrue
  StartedInOrder
  PoolReleased
PROPERTIES
  StubComesThrough
