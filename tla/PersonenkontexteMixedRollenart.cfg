SPECIFICATION Spec
CONSTANTS
  o1 = o1
  o2 = o2
  lehrer = lehrer
  lernender = lernender
  none = none
  abgelaufen = abgelaufen
  e1 = e1
  e2 = e2
  k1 = k1
  Rollen <- MCRollen
  RollenartOf <- MCRollenartOf
  Befristungen = {none, abgelaufen}
  Unbefristet = none
  Abgelaufen = {abgelaufen}
  BefristungPflicht = {}
  Orgs = {o1}
  EditCalls = {e1, e2}
  CronCalls = {}
  MaxBody = 1
  MaxTrouble = 1
  MinTick = 1
CHECK_DEADLOCK FALSE
INVARIANT SameRollenartAlways
