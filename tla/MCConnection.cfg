SPECIFICATION LiveSpec
CONSTANTS
  Versions = {31401, 70015}
  Nonces = {n1, n2}
  Sizes <- MCSizes
  Seeds <- MCSeeds
  Leftovers <- MCLeftovers
  Garbage <- MCGarbage
  MaxRequests = 3
INVARIANTS
  TypeOK
  ReportedPeer
PROPERTIES
  DialogueKept
  AllSent
\* A connection that is closed does nothing more.
CHECK_DEADLOCK FALSE
