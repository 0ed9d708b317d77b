SPECIFICATION Spec
CONSTANTS
  Versions = {70015}
  Counts = {1, 130}
  Following = {0}
  Bytes = {0, 3}
  CountMax = 2097151
  MaxAdded = 130
INVARIANT
  AddrsGenuine
CHECK_DEADLOCK FALSE
