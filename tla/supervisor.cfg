SPECIFICATION FairSpec
CONSTANTS
  Server <- MCServer
  Attempts = 2
  MaxFaults = 2
INVARIANTS
  InitAtMostTwice
  WaitsForRegistration
PROPERTIES
  Settles
