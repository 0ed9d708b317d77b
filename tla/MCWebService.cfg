SPECIFICATION LiveServiceSpec
CONSTANTS
  i1 = i1
  i2 = i2
  Ips <- MCIps
  Country <- MCCountry
  Region <- MCRegion
  Asked = {"c"}
  Timeout = 1
  MaxTryCount = 2
  MaxReports = 4
  MaxRestarts = 1
INVARIANTS
  TypeOK
  OneLookUp
  VersionKept
  WorkCommitted
  AnswerRecent
PROPERTY
  LookUpsEnd
