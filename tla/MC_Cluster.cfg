SPECIFICATION ClusterPartsSpec
CONSTANTS
  Peers = {1, 2}
  Namespaces = {"x", "y"}
  Ifaces = {"a", "b"}
  MaxFaults = 1
  ClusterNodes = {1, 2}
  Command <- PlaceIt
  MaxUpsets = 1
  MaxCycles = 6
  MaxCycleNodes = 3
  Topologies <- SomeTopologies
  Memories = {1, 3}
  Models <- TwoModels
INVARIANTS
  LinksHold
  PlacedRight
PROPERTIES
  PeersConnect
  BrokenInstancesGo
CHECK_DEADLOCK FALSE
