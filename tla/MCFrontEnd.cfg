CONSTANTS
  None = None
  Suite <- MCSuite
  Key <- MCKey
  Task <- MCTask
  TasksOf <- MCTasksOf
  Invocation <- MCInvocation
SPECIFICATION Spec
INVARIANTS
  RequestsAsAsked
  MisplacedSuitesTold
  PanicHasCause
  FilesAccounted
PROPERTIES
  RunEnds
