SPECIFICATION DriftFairSpec
CONSTANTS
  HostAddress <- MCAddress
  Password <- MCPassword
  a1 = a1
  a2 = a2
  p1 = p1
  p2 = p2
  None = None
  MaxFaults = 3
  MaxChanges = 3
INVARIANTS
  FailureExplained
PROPERTIES
  PasswordFollows
  Completes
