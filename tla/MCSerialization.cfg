SPECIFICATION Spec
CONSTANTS
  Payloads <- MCPayloads
  Names <- MCNames
  Magic <- MCMagic
  Hash <- MCHash
  Leftovers <- MCLeftovers
  Followings <- MCFollowings
  OtherSizes <- MCOtherSizes
INVARIANTS
  TypeOK
  WireFormat
  RoundTrip
\* One message is written and read.
CHECK_DEADLOCK FALSE
