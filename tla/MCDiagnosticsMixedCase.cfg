CONSTANTS
  collect = collect
  logs = logs
  hsm = hsm
  s1 = s1
  s2 = s2
  NoTask = NoTask
  NoStream = NoStream
  NoReport = NoReport
  JsonPath = "json"
  FilelistPath = "filelist"
  HsmTask = hsm
  Task <- MCTask
  DefaultTasks <- MCTask
  Ref <- MCRef
  Wildcards = {}
  Matches <- MCMatches
  Key <- MCKey
  Dependencies <- MixedCaseDependencies
  Requests <- MCRequests
  Path <- MCPath
  BaseName <- MCBaseName
  FileKind <- MCFileKind
  Folder <- MCFolder
  FolderOf <- MCFolderOf
  Stream = {s1, s2}
  Chunks <- MCChunks
  Outcomes <- FewOutcomes
  Trusts <- MCTrusts
  OverrideChoices <- MCOverrideChoices
  FlagChoices <- MCFlagChoices
  MaxTries = 3
  Capacity = 2
  DiskFaults = FALSE
SPECIFICATION Spec
INVARIANTS
  DependencyResultsPassed
