SPECIFICATION Spec
CONSTANTS
  v1 = v1
  v2 = v2
  i1 = i1
  i2 = i2
  i3 = i3
  r1 = r1
  r2 = r2
  c1 = c1
  c2 = c2
  none = none
  Vorgaenge = {v1, v2}
  Items <- MCItems
  VorgangOf <- MCVorgangOf
  Fehlerhaft = {i2}
  Zuordenbar = {i1, i3}
  Runs = {r1, r2}
  Closings = {}
  ChunkSize = 1
  MaxFaults = 0
  NoVorgang = none
INVARIANT KlasseAtOwnSchule
CHECK_DEADLOCK FALSE
