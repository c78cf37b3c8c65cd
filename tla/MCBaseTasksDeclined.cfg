CONSTANTS
  None = None
  Blank = Blank
  Failed = Failed
  ConfigPath <- MCConfigPath
  ConfigExtension <- MCConfigExtension
  ConfigKind <- MCConfigKind
  ConfigModules <- MCConfigModules
  ConfigFragile <- MCConfigFragile
  ConfigHost <- MCConfigHost
  ConfigDisk <- MCConfigDisk
  ConfigName <- MCConfigName
  ConfigDefaultName <- MCConfigDefaultName
  LogDir <- MCLogDir
  LogCwd <- MCLogCwd
  LogStandard <- MCLogStandard
  LogBelow <- MCLogBelow
  LogName <- MCLogName
  LogKind <- MCLogKind
  LogLike <- MCLogLike
  LogInvalid <- MCLogInvalid
  LogHost <- MCLogHost
  LogEmpty <- MCLogEmpty
  EnvHost <- MCEnvHost
SPECIFICATION Spec
INVARIANT
  DeclinedNotCollected
