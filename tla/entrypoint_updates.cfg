SPECIFICATION Spec
CONSTANTS
  old = old
  new = new
  Setting <- MCSetting
  NameLength <- MCNameLength
  MaxFaults = 1
INVARIANT UpdatesApplied
