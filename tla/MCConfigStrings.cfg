SPECIFICATION StringsSpec
CONSTANTS
  Name <- MCName
  Theme <- MCTheme
  MaxIndex = 3
  MaxClients = 3
  MaxSize = 4
INVARIANTS StringsTypeOK LastToldKnowsAll
PROPERTIES UnsentReachesAll
