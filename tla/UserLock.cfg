SPECIFICATION FairSpec
CONSTANTS
  x1 = x1
  a1 = a1
  Persons = {x1}
  Admins = {a1}
  MaxRows = 2
  MaxFaults = 1
INVARIANTS TypeOK LocksDisable NummerEndsKopersLock
PROPERTY ExpiredLifted
CHECK_DEADLOCK FALSE
