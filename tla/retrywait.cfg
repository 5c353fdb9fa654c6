SPECIFICATION Spec
CONSTANTS
  Waits = 3
  Deadlined <- MCDeadlined
  Timeout = 3
  Second = 2
INVARIANTS
  ChecksBounded
  NotGivenUpEarly
  ReadinessNoticed
