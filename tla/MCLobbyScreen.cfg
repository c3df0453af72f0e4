CONSTANTS
  Remote = {r1, r2}
  Loopback = Loopback
  NoAddr = NoAddr
  MAX_PLAYERS = 2
  MAX_CLIENTS = 3
  max_clients = 3
  ThisMap = ThisMap
  Map = {ThisMap}
  Config = {}
  NoMap = NoMap
  MapSlots <- MCMapSlots
  Click = {"open", "type", "look", "start", "cancel"}
  MaxCommands = 1
SPECIFICATION ScreenSpec
INVARIANTS OneSeatEach ScreenCurrent
PROPERTY StartLeadsToGame
