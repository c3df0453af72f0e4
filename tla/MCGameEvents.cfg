SPECIFICATION FairSpec
CONSTANTS
  u1 = u1
  t1 = t1
  t2 = t2
  Nobody = Nobody
  Units = {u1}
  UnitOrder <- MCUnitOrder
  MAX_PLAYERS = 2
  FirstOwner <- MCFirstOwner
  Triggers = {t1, t2}
  handlers <- MCHandlers
  MAX_EVENT_QUEUE = 2
  MaxPublished = 2
  MaxCoroutines = 2
  MaxStarted = 1
  MaxSleep = 1
INVARIANTS TypeOK RingFaithful UnitHandlersOwn PassComplete
PROPERTIES ResumedOnce EveryEventHandled
