CONSTANTS
  c1 = c1
  c2 = c2
  c3 = c3
  NoContainer = NoContainer
  Container = {c1, c2, c3}
  Order <- ThreeContainers
  Outputs <- SmallOutputs
  Failing = {c1, c2}
  PipeSize = 1
SPECIFICATION Spec
INVARIANTS
  ErrorsAccounted
  LogsComplete
PROPERTIES
  LogsEnd
CHECK_DEADLOCK FALSE
