CONSTANTS
  Client = {c1}
  Num = {1, 2}
  Field = {"model", "origin", "renderfx", "svflags"}
  WireField = {"model", "origin", "renderfx"}
  Value = {0, 1, 2}
  Zero = 0
  State <- MCState
  Loaded <- MCLoaded
  Hidden <- MCHidden
  Shown <- MCShown
  Selected <- MCSelected
  Wire <- MCWire
  Absent = Absent
  Removed = Removed
  Same = Same
  MaxInFlight = 2
SPECIFICATION Spec
INVARIANTS TypeOK FollowsFrame NoGhosts
