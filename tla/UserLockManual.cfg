SPECIFICATION Spec
CONSTANTS
  x1 = x1
  a1 = a1
  Persons = {x1}
  Admins = {a1}
  MaxRows = 3
  MaxFaults = 0
PROPERTY ManualLockStays
CHECK_DEADLOCK FALSE
