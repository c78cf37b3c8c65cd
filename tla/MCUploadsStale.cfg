CONSTANTS
  k1 = k1
  k2 = k2
  ApiKey = ApiKey
  LicenseKey <- MCLicenseKey
  FlagChoices <- AllFlagChoices
  LicenseResults <- KeysFound
  LogResults <- NoLogs
  EarlierFiles = TRUE
  DiskFaults = TRUE
SPECIFICATION Spec
INVARIANTS
  ReportIsOfThisRun

