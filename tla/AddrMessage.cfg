SPECIFICATION Spec
CONSTANTS
  Versions = {31401, 70015}
  Counts = {0, 1, 2, 127, 130, 300}
  Following = {0, 1, 30}
  Bytes = {0, 3, 127, 128, 255}
  CountMax = 2097151
  MaxAdded = 132
INVARIANTS
  TypeOK
  CountDocumented
  AddrsSent
\* The message is handled once; and of a number that was misread, MaxAdded
\* addresses are read.
CHECK_DEADLOCK FALSE
