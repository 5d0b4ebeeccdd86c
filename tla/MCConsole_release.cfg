SPECIFICATION PrintSpec
CONSTANTS
  Capacities = {1, 3}
  Chars = {"x", "y"}
  MultiByte = {"y"}
  Lengths = {0, 1, 3}
  Widths = {2, 4}
  Attributes = {0, 23}
  FixedWidth = 3
  MaxElements = 5
  MaxPrints = 2
INVARIANTS OutputAsMeant
CHECK_DEADLOCK FALSE
