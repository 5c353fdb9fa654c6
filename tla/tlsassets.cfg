SPECIFICATION FairSpec
CONSTANTS
  Generation <- MCGeneration
  MaxRotations = 2
  MaxFaults = 2
INVARIANTS
  InstalledIsProvided
  LaunchedTogether
PROPERTIES
  Installs
