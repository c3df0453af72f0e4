CONSTANTS
  MaxMap = 2
  MaxConnects = 2
  MaxFaults = 1
SPECIFICATION Spec
CHECK_DEADLOCK FALSE
INVARIANT TypeOK
PROPERTIES NoWayBack AdmittedPlays AnsweredIsSettled ServerLossNoticed
