CONSTANTS
  Width = 4
  Height = 2
  Player = {0, 1}
  Seatings <- MCSeatings
  MaxClients = 2
  Units = 2
  Start <- MCStart
  Radius <- MCRadius
  Place <- MCPlace
  Tree = {"tree"}
  Footprint <- MCFootprint
  Modifier = {"own", "shared"}
  Effect <- MCEffect
  MaxModifiers = 2
  Chunk = 9
  RunMax = 3
  MaxLosses = 1
  MaxChanges = 2
SPECIFICATION FogSpec
INVARIANTS SightIsCurrent ClientInSync
PROPERTY ExploredStays
