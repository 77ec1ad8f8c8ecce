SPECIFICATION ReplicasSpec
CONSTANTS
  s1 = s1
  s2 = s2
  k1 = k1
  lehrer = lehrer
  leitung = leitung
  g1 = g1
  g2 = g2
  n1 = n1
  n2 = n2
  n3 = n3
  soft = soft
  hard = hard
  c1 = c1
  c2 = c2
  Rollen = {lehrer, leitung}
  KeycloakGroup <- MCGroups
  Groups = {g1, g2}
  Orgas = {s1, s2, k1}
  Schulen = {s1, s2}
  administriertVon <- MCParent
  ItslearningOrga = {s1}
  Rollenart <- MCRollenart
  ItslearningRolle = {lehrer, leitung}
  Usernames = {n1, n2, n3}
  Root = Root
  Serials = {soft, hard}
  Hardware = {hard}
  PiNames = {n1, n2, n3}
  Nobody = Nobody
  Kennungen = {s1, s2}
  LehrRollen = {lehrer}
  LdapNames = {n1, n2, n3}
  Clients = {c1, c2}
  Slots <- MCSlots
  Starts <- MCStarts
  MaxRequests = 2
  MaxFailures = 1
INVARIANTS ReplicasTypeOK GroupsFollowRollen ItslearningFollows TokensFollowName
SYMMETRY Symmetry
CHECK_DEADLOCK FALSE
