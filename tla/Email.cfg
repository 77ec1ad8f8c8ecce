SPECIFICATION Spec
CONSTANTS
  Sessions = {q1, q2}
  Schools = {s1, s2}
  MaxAddresses = 3
  MaxNames = 2
  MaxFaults = 1
  MaxOverlaps = 0
SYMMETRY Symmetry
CHECK_DEADLOCK FALSE
INVARIANTS TypeOK  EnabledIsPrimary
