CONSTANTS
  Unit = {u1, u2}
  PoolSize = 3
  Cell = {c1, c2, c3}
  Corner = c1
  SlotCount = 2
  Budget = 3
  DWORD = 8
  None = None
  MaxBakes = 1
  MaxOrders = 2
SPECIFICATION Spec
SYMMETRY Interchangeable
CHECK_DEADLOCK FALSE
INVARIANT TypeOK CacheCoherent OwnFieldUntilBake
