CONSTANTS
  collect = collect
  logs = logs
  hsm = hsm
  s1 = s1
  s2 = s2
  NoTask = NoTask
  NoStream = NoStream
  NoReport = NoReport
  JsonPath = "json"
  FilelistPath = "filelist"
  HsmTask = hsm
  Task <- MCTask
  DefaultTasks <- MCTask
  Ref <- MCRef
  Wildcards = {}
  Matches <- MCMatches
  Key <- MCKey
  Dependencies <- MCDependencies
  Requests <- MCAllRequests
  Path <- MCPath
  BaseName <- MCBaseName
  FileKind <- MCFileKind
  Folder <- MCFolder
  FolderOf <- MCFolderOf
  Stream = {s1, s2}
  Chunks <- MCChunks
  Outcomes <- MCOutcomes
  Trusts <- MCTrusts
  OverrideChoices <- MCOverrideChoices
  FlagChoices <- MCFlagChoices
  MaxTries = 3
  Capacity = 2
  DiskFaults = FALSE
SPECIFICATION Spec
INVARIANTS
  TypeOK
  DependencyResultsPassed
  ReportComplete
  OneZipUser
  ArchiveComplete
  SharedNamesHaveCause
  UploadIsFinal
PROPERTIES
  StreamsAfterTasks
