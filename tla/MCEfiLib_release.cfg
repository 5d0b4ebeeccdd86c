SPECIFICATION Spec
CONSTANTS
  NDEBUG = TRUE
  Handles = {1, 2, 3}
  Sizes = {1, 2, 3}
  Chain <- BootChain
  MaxCalls = 1
  MaxChanges = 2
  Frequencies = {0, 2}
  Ticks = {1, 3}
  Factor = 2
  Wrap = 5
INVARIANTS PoolBalance AnswersTrue
PROPERTIES EarlierImageWins CallsEnd
