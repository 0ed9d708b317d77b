SPECIFICATION Spec
CONSTANTS
  Ips = {i1, i2, i3}
  Ports = {p1}
  Fds = {1, 2, 3}
  NoFile = 12
  DrainSize = 2
  Kqueue = TRUE
  FailOps = {"socket", "add"}
  MaxHeld = 1
INVARIANTS
  CallbacksAlive
  OutputArmed
  DescriptorsOwned
PROPERTIES
  ForeignKept
SYMMETRY IpSymmetry
\* With no event to report, sp_wait blocks for ever.
CHECK_DEADLOCK FALSE
