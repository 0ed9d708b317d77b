SPECIFICATION Spec
CONSTANTS
  Ips = {i1, i2, i3, i4}
  Ports = {p1}
  Fds = {1, 2, 3, 4}
  NoFile = 12
  DrainSize = 2
  Kqueue = FALSE
  FailOps = {"init", "socket", "setup"}
  MaxHeld = 1
INVARIANTS
  TypeOK
  InterestMirrored
  HandshakeArmed
  Reclaimable
  EventSlots
  ConnectionBound
  NeverStranded
SYMMETRY IpSymmetry
\* With no event to report, sp_wait blocks for ever.
CHECK_DEADLOCK FALSE
