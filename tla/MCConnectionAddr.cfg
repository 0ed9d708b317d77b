SPECIFICATION Spec
CONSTANTS
  Versions = {31401, 70015}
  Nonces = {n1}
  Sizes <- MCSizes
  Seeds <- MCSeeds
  Leftovers <- MCLeftovers
  Garbage <- MCGarbage
  MaxRequests = 1
INVARIANT
  AddrsTimed
CHECK_DEADLOCK FALSE
