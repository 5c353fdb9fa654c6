SPECIFICATION Spec
CONSTANTS
  clusterDNS = clusterDNS
  self = self
  other = other
  Address <- MCAddress
  Server <- MCServer
  MaxBoots = 2
INVARIANT
  ForwardingKept
