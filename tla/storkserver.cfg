SPECIFICATION FairSpec
CONSTANTS
  Password <- MCPassword
  MaxOperations = 3
  MaxFaults = 2
INVARIANTS
  ServesConfigured
  PasswordsAgree
PROPERTIES
  StaysAmiss
  ServerComesUp
