SPECIFICATION LivePipelineSpec
CONSTANTS
  Ips = {i1, i2}
  Ports = {p1}
  DrainSize = 2
  MaxVersions = 1
  MaxTryCount = 1
  MaxReports = 3
  MaxRestarts = 1
  MaxCrawlerRestarts = 1
PROPERTIES
  SeenStored
  VersionsFindRows
