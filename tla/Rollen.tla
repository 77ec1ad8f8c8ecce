-------------------------------- MODULE Rollen --------------------------------
(***************************************************************************)
(* Rollen (RolleController, RolleRepo) and the Kontexte that refer to them *)
(* and to organisations.  The database ties a Kontext to its Rolle, but    *)
(* not to its organisation.                                                *)
(***************************************************************************)
EXTENDS ServiceProviders

CONSTANTS
  Personen,
  RolleIds,
  RollenNamen,
  Merkmale,     \* RollenMerkmal; one of them is
  BEFRISTUNG_PFLICHT,
  Systemrechte

ASSUME RollenAssumption == BEFRISTUNG_PFLICHT \in Merkmale /\ "none" \notin RollenNamen

VARIABLES
  rollen,       \* [RolleIds -> row]; version 0: not created yet
  kontexte      \* Personenkontexte: person, organisation, Rolle, and is there a Befristung

rollenVars == <<rollen, kontexte>>

RollenArten == {"LERN", "LEIT", "SYSADMIN"}
NoRolle == [name |-> "none", rollenart |-> "LERN", ssk |-> None, merkmale |-> {}, systemrechte |-> {},
            serviceProvider |-> {}, version |-> 0]
HasRolle(r) == rollen[r].name # "none"
Attached == UNION {rollen[r].serviceProvider : r \in RolleIds}
Assigned == {k.orga : k \in kontexte}
IsRolleAlreadyAssigned(r) == \E k \in kontexte : k.rolle = r

RolleRows == [name : RollenNamen \union {"none"}, rollenart : RollenArten, ssk : Ids \union {None},
              merkmale : SUBSET Merkmale, systemrechte : SUBSET Systemrechte,
              serviceProvider : SUBSET Services, version : Nat]
KontextRows == [person : Personen, orga : Ids, rolle : RolleIds, befristet : BOOLEAN]
RollenTypeOK ==
  /\ rollen \in [RolleIds -> RolleRows]
  /\ kontexte \subseteq KontextRows

\* RolleNameUniqueOnSsk
RolleNameUniqueOnSsk(r, row) ==
  \A other \in RolleIds \ {r} :
    HasRolle(other) /\ rollen[other].ssk = row.ssk => rollen[other].name # row.name

Exist(sps) == \A s \in sps : services[s] # "none"

\* RolleRepo.save: the name is looked for, and the row is written later.
\* The administrator saw some version of the row.
SaveBegins(c, op, r, row, version, touches) ==
  /\ RolleNameUniqueOnSsk(r, row)
  /\ Begin(c, [op |-> op, id |-> r, row |-> row, read |-> rollen[r].version, version |-> version,
               seen |-> IF version = rollen[r].version THEN rollen[r] ELSE NoRolle,
               touches |-> touches])
  /\ UNCHANGED rollenVars

CreateRolle(c) ==
  \E r \in RolleIds, name \in RollenNamen, ssk \in Ids, merkmale \in SUBSET Merkmale :
    LET row == [NoRolle EXCEPT !.name = name, !.ssk = ssk, !.merkmale = merkmale, !.version = 1] IN
    /\ rollen[r].version = 0 /\ \A d \in Clients : req[d].op = "createRolle" => req[d].id # r
    /\ IsThere(ssk)
    /\ SaveBegins(c, "createRolle", r, row, 0, {<<"rollenname", ssk>>, <<"orga", ssk>>})

\* The version is that which the request itself read.
AddSystemRecht(c) ==
  \E r \in RolleIds, recht \in Systemrechte :
    /\ HasRolle(r)
    /\ SaveBegins(c, "updateRolle", r, [rollen[r] EXCEPT !.systemrechte = @ \union {recht}],
                  rollen[r].version, {})

\* updateServiceProvidersById, and removeServiceProviderById with some of them left:
\* no RolleUpdated is published.
SetServiceProviders(c) ==
  \E r \in RolleIds, sps \in SUBSET Services :
    /\ HasRolle(r)
    /\ Exist(sps)
    /\ \E version \in 1..rollen[r].version :
         SaveBegins(c, "updateRolle", r, [rollen[r] EXCEPT !.serviceProvider = sps], version, {Resource})

\* updateRolleAuthorized.  The merkmale of a Rolle that someone has may only be none, as before.
MerkmaleMayChange(r, merkmale) ==
  IsRolleAlreadyAssigned(r) => merkmale = {} /\ rollen[r].merkmale = {}

\* Mutant: any merkmale may be removed or added.
UpdateRolle_MerkmaleFree(c) ==
  \E r \in RolleIds, name \in RollenNamen, merkmale \in SUBSET Merkmale, sps \in SUBSET Services :
    /\ HasRolle(r) /\ Exist(sps)
    /\ SaveBegins(c, "updateRolle", r,
         [rollen[r] EXCEPT !.name = name, !.merkmale = merkmale, !.serviceProvider = sps],
         rollen[r].version, {<<"rollenname", rollen[r].ssk>>, <<"zuweisung", r>>, Resource})
UpdateRolle(c) ==
  \E r \in RolleIds, name \in RollenNamen, merkmale \in SUBSET Merkmale, sps \in SUBSET Services :
    /\ HasRolle(r) /\ MerkmaleMayChange(r, merkmale) /\ Exist(sps)
    /\ \E version \in 1..rollen[r].version :
         SaveBegins(c, "updateRolle", r,
           [rollen[r] EXCEPT !.name = name, !.merkmale = merkmale, !.serviceProvider = sps],
           version, {<<"rollenname", rollen[r].ssk>>, <<"zuweisung", r>>, Resource})

InsertRolle(c) ==
  /\ req[c].op = "createRolle"
  /\ rollen' = [rollen EXCEPT ![req[c].id] = req[c].row]
  /\ End(c, TRUE, {}, {})
  /\ UNCHANGED kontexte

\* Foreign keys: the service providers must still be there.
\* Mutant: the version that the administrator saw is not compared.
RolleIsCurrent_AnySeen(q) == rollen[q.id].version = q.read /\ HasRolle(q.id) /\ Exist(q.row.serviceProvider)
RolleIsCurrent(q) ==
  q.version = q.read /\ rollen[q.id].version = q.read /\ HasRolle(q.id) /\ Exist(q.row.serviceProvider)

WriteRolle(c) ==
  LET q == req[c] IN
  /\ q.op = "updateRolle" /\ RolleIsCurrent(q)
  /\ rollen' = [rollen EXCEPT ![q.id] = [q.row EXCEPT !.version = q.read + 1]]
  /\ End(c, rollen[q.id] = q.seen, {}, {})
  /\ UNCHANGED kontexte

\* RolleUpdateOutdatedError and the errors of the database
WriteRolleFails(c) ==
  /\ req[c].op = "updateRolle" /\ ~RolleIsCurrent(req[c]) /\ GiveUp(c)
  /\ UNCHANGED rollenVars

\* deleteAuthorized: with the merkmale, Systemrechte and service providers that were read.
DeleteRolleBegins(c) ==
  \E r \in RolleIds :
    /\ HasRolle(r)
    /\ Begin(c, [op |-> "deleteRolle", id |-> r, seen |-> rollen[r], touches |-> {Resource}])
    /\ UNCHANGED rollenVars

\* Refused by the database when something else refers to it by then.
DeleteRolle(c) ==
  LET q == req[c] row == rollen[q.id] IN
  /\ q.op = "deleteRolle" /\ GiveUp(c)
  /\ rollen' = IF /\ ~IsRolleAlreadyAssigned(q.id)
                  /\ row.merkmale \subseteq q.seen.merkmale
                  /\ row.systemrechte \subseteq q.seen.systemrechte
                  /\ row.serviceProvider \subseteq q.seen.serviceProvider
               THEN [rollen EXCEPT ![q.id] = [NoRolle EXCEPT !.version = row.version]]
               ELSE rollen
  /\ UNCHANGED kontexte

-----------------------------------------------------------------------------
(* Kontexte: PersonenkontexteUpdate has them in detail                     *)

OrganisationMatchesRollenart(orga, r) ==
  CASE rollen[r].rollenart = "SYSADMIN" -> Typ(orga) \in {"LAND", "ROOT"}
    [] rollen[r].rollenart = "LEIT" -> Typ(orga) = "SCHULE"
    [] OTHER -> Typ(orga) \in {"SCHULE", "KLASSE"}

\* Personenkontext.checkReferences, with Rolle.canBeAssignedToOrga
CheckReferences(orga, r) ==
  IsThere(orga) /\ HasRolle(r) /\ rollen[r].ssk \in Way(orga) /\ OrganisationMatchesRollenart(orga, r)

\* With CheckBefristungSpecification.
AssignKontext(c) ==
  \E p \in Personen, orga \in Ids, r \in RolleIds, befristet \in BOOLEAN :
    /\ Ends(orgas, "administriertVon", orga) /\ CheckReferences(orga, r)
    /\ BEFRISTUNG_PFLICHT \in rollen[r].merkmale => befristet
    /\ Begin(c, [op |-> "assign", row |-> [person |-> p, orga |-> orga, rolle |-> r, befristet |-> befristet],
                 touches |-> {<<"zuweisung", r>>, <<"orga", orga>>}])
    /\ UNCHANGED rollenVars

\* The Rolle must still be there; the organisation need not.
InsertKontext(c) ==
  /\ req[c].op = "assign" /\ GiveUp(c)
  /\ kontexte' = IF HasRolle(req[c].row.rolle) THEN kontexte \union {req[c].row} ELSE kontexte
  /\ UNCHANGED rollen

\* A Kontext goes, in one step.
DeleteKontext ==
  /\ requests < MaxRequests /\ requests' = requests + 1
  /\ \E k \in kontexte : kontexte' = kontexte \ {k}
  /\ UNCHANGED <<req, tasks, faults, disturbed, overwritten, rollen>>

RollenNext ==
  \/ DeleteKontext
  \/ \E c \in Clients :
       \/ /\ CanBegin(c)
          /\ \/ CreateRolle(c) \/ AddSystemRecht(c) \/ SetServiceProviders(c) \/ UpdateRolle(c)
             \/ DeleteRolleBegins(c) \/ AssignKontext(c)
       \/ InsertRolle(c) \/ WriteRolle(c) \/ WriteRolleFails(c) \/ DeleteRolle(c) \/ InsertKontext(c)
=============================================================================
