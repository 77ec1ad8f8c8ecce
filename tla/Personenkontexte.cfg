SPECIFICATION Spec
CONSTANTS
  o1 = o1
  o2 = o2
  lehrer = lehrer
  lernender = lernender
  none = none
  abgelaufen = abgelaufen
  e1 = e1
  e2 = e2
  k1 = k1
  Rollen <- MCRollen
  RollenartOf <- MCRollenartOf
  Befristungen = {none, abgelaufen}
  Unbefristet = none
  Abgelaufen = {abgelaufen}
  BefristungPflicht = {lernender}
  Orgs = {o1}
  EditCalls = {e1, e2}
  CronCalls = {k1}
  MaxBody = 2
  MaxTrouble = 1
  MinTick = 1
SYMMETRY Symmetry
INVARIANTS TypeOK  ResultAsRequested EventsTellState
PROPERTY RefinesRegister
CHECK_DEADLOCK FALSE
