SPECIFICATION Spec
CONSTANTS
  NumUnits = 3
  Player <- MCPlayer
  Armed = {1, 2, 3}
  Ranged = {3}
  Invulnerable = {}
  Hero = {2}
  MaxHealth = 2
  Damages = {1, 2}
  DamagePoint = 1
  Cooldown = 2
  DecayTime = 2
  Interval = 3
  FrameTime = 1
  MaxEdicts = 5
  MaxOrders = 1
INVARIANTS TypeOK CrashNeedsRemoval
PROPERTIES CorpseGoes
CHECK_DEADLOCK FALSE
