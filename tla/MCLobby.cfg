CONSTANTS
  Remote = {r1, r2}
  Loopback = Loopback
  NoAddr = NoAddr
  Map = {m1, m2}
  NoMap = NoMap
  MAX_PLAYERS = 2
  MAX_CLIENTS = 3
  max_clients = 3
  Config <- MCConfig
SPECIFICATION Spec
SYMMETRY Symmetry
INVARIANTS TypeOK SeatOwned OccupantSeated
PROPERTY SeatKept
