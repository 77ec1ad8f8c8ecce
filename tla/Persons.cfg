SPECIFICATION FairSpec
CONSTANTS
  p1 = p1
  p2 = p2
  c1 = c1
  c2 = c2
  nr1 = nr1
  NoNummer = NoNummer
  Persons = {p1, p2}
  Clients = {c1, c2}
  Nummern = {nr1}
  Names <- MCNames
  Blacklist <- MCBlacklist
  Starts <- MCStarts
  MaxRequests = 2
  MaxFaults = 1
INVARIANTS TypeOK UserOfPerson
PROPERTIES DeletionAnnounced WithoutOrgDeleted
CHECK_DEADLOCK FALSE
