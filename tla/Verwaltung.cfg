SPECIFICATION Spec
CONSTANTS
  root = root
  oe = oe
  er = er
  o1 = o1
  o2 = o2
  o3 = o3
  o4 = o4
  new1 = new1
  new2 = new2
  r1 = r1
  r2 = r2
  sp1 = sp1
  sp2 = sp2
  v1 = v1
  c1 = c1
  c2 = c2
  Clients = {c1, c2}
  Ids = {root, oe, er, o1, o2, o3, o4, new1, new2}
  NewIds = {new1, new2}
  Root = root
  Oeffentlich = oe
  Ersatz = er
  None = None
  NewOrgas <- MCNewOrgas
  Bodies <- MCBodies
  Names = {"A", "B"}
  Services = {sp1, sp2}
  Angebote = {v1}
  Responses <- MCResponses
  RolleIds = {r1, r2}
  RollenNamen = {"lern", "gast"}
  Merkmale = {BEFRISTUNG_PFLICHT}
  BEFRISTUNG_PFLICHT = BEFRISTUNG_PFLICHT
  Systemrechte = {"ROLLEN_VERWALTEN", "PERSONEN_VERWALTEN"}
  PERSONEN_VERWALTEN = "PERSONEN_VERWALTEN"
  admin = admin
  anna = anna
  Personen = {admin, anna}
  Starts <- MCStarts
  MaxRequests = 2
  MaxFaults = 1
INVARIANTS TypeOK NothingOverwritten StructureHolds RechteAgree KlassenFollow
SYMMETRY Symmetry
CHECK_DEADLOCK FALSE
