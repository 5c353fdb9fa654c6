SPECIFICATION DatabaseFairSpec
CONSTANTS
  Name <- MCName
  Number <- MCNumber
  MaxChanges = 2
  MaxFailures = 2
INVARIANTS
  GreatestServes
PROPERTIES
  Serves
