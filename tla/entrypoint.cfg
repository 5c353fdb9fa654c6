SPECIFICATION FairSpec
CONSTANTS
  old = old
  new = new
  Setting <- MCSetting
  NameLength <- MCNameOrNone
  MaxFaults = 2
INVARIANTS
  ProvisionedSound
  LaunchedComplete
  SettingsReconciled
PROPERTIES
  DamageIsPermanent
  ConfigurationPreserved
  Launches
