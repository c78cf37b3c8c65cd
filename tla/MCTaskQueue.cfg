CONSTANTS
  collect = collect
  validate = validate
  key = key
  agent = agent
  special = special
  NoTask = NoTask
  Task <- MCTask
  DefaultTasks <- MCDefaultTasks
  Ref <- MCRef
  Wildcards <- MCWildcards
  Matches <- MCMatches
  Dependencies <- MCDependencies
  Requests <- MCRequests
SPECIFICATION QueueSpec
INVARIANTS
  DependenciesFirst
  DeliveredOnce
  QueueIsClosure
PROPERTIES
  QueueCloses
