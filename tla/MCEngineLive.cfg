SPECIFICATION LiveSpec
CONSTANTS
  Ips = {i1, i2, i3}
  Ports = {p1}
  Fds = {1, 2, 3}
  NoFile = 11
  DrainSize = 2
  Kqueue = FALSE
  FailOps = {}
  MaxHeld = 1
PROPERTIES
  SeedsDrained
  HandshakeDone
\* With no event to report, sp_wait blocks for ever.
CHECK_DEADLOCK FALSE
