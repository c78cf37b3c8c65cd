CONSTANTS
  k1 = k1
  k2 = k2
  ApiKey = ApiKey
  LicenseKey <- MCLicenseKey
  FlagChoices <- AllFlagChoices
  LicenseResults <- MCLicenseResults
  LogResults <- MCLogResults
  EarlierFiles = TRUE
  DiskFaults = TRUE
SPECIFICATION Spec
INVARIANTS
  UploadsAccounted
  OnlyAllowedUploads
PROPERTIES
  UploadsEnd
