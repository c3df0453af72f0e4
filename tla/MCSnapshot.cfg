CONSTANTS
  NumClients = 2
  max_clients = 2
  MaxNum = 3
  UPDATE_BACKUP = 2
  MAX_PACKET_ENTITIES = 2
  HIGH_NUMBER = 4
  DWORD = 16
  Field = {"model", "renderfx"}
  WireField = {"model", "renderfx"}
  Value = {0, 1, 2}
  Zero = 0
  State <- MCState
  Hidden = {}
  Shown <- MCState
  Selected <- MCSelected
  Wire <- MCWire
  Loaded <- MCLoaded
  Owned <- MCOwned
  Counted = {15}
  Absent = Absent
  Removed = Removed
  Same = Same
  MaxFrames = 3
  Mobile = {1}
  MaxInFlight = 1
SPECIFICATION SnapshotSpec
PROPERTY ImplementsDeltaView
CHECK_DEADLOCK FALSE
