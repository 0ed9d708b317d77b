SPECIFICATION LiveSpec
CONSTANTS
  Ips = {i1, i2, i3}
  Ports = {p1, p2}
  DrainSize = 2
  MaxVersions = 1
INVARIANTS
  TypeOK
  ReportedOnce
  OneCycleLate
PROPERTIES
  AllPosted
