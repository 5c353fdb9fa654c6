SPECIFICATION FairSpec
CONSTANTS
  Value <- MCValue
  Places = 2
  MaxEdits = 1
  MaxFaults = 2
INVARIANTS
  OperatorsTextKept
  RestrictionKept
  LaunchedAsWanted
  RenewalScheduled
PROPERTIES
  ImplementsAtomicFile
  GetsThrough
