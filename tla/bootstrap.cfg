SPECIFICATION FairSpec
CONSTANTS
  LongHostname = TRUE
  NonIdempotent <- MCNonIdempotent
  MaxFaults = 4
INVARIANTS
  CoreSentinelSound
  AgentReadsCredentials
  SuccessMeansReady
  OnlyMissingStepsRun
PROPERTIES
  WedgeIsPermanent
  ImplementsJournal
  CoreConverges
  StorkConverges
