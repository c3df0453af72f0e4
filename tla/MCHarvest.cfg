CONSTANTS
  NumWorkers = 3
  Tree = {t1, t2}
  Mine = Mine
  MiningCapacity = 2
  GoldLoad = 1
  LumberLoad = 2
  TreeDamage = 2
  TreeHealth = 3
  USHORT = 5
  MaxOrders = 3
CHECK_DEADLOCK FALSE
SPECIFICATION Spec
INVARIANTS TypeOK NothingLost
PROPERTY MiningGoesOn
