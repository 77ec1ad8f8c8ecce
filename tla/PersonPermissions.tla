-------------------------- MODULE PersonPermissions ---------------------------
(***************************************************************************)
(* What a person may do, by the Rollen of their Kontexte: a Systemrecht of *)
(* a Rolle is valid at the organisation of the Kontext and below it.  Two  *)
(* ways to find out are in the code.  For one organisation, or the Kontexte*)
(* of one person, a query walks up the tree (hasSystemrechtAtOrganisation, *)
(* canModifyPerson); for lists, the Rollen are read and the tree is walked *)
(* down (getOrgIdsWithSystemrecht).  The steps in which Kontexte are       *)
(* created take their offers from both (PersonenkontextWorkflowAggregate). *)
(***************************************************************************)
EXTENDS Rollen

CONSTANT PERSONEN_VERWALTEN
ASSUME RechtAssumption == PERSONEN_VERWALTEN \in Systemrechte

KontexteOf(p) == {k \in kontexte : k.person = p}

-----------------------------------------------------------------------------
(* Up                                                                      *)

\* Mutant: the Rolle counts at its own organisation only.
HasSystemrechtAtOrganisation_Here(p, orga, recht) ==
  \E k \in KontexteOf(p) : recht \in rollen[k.rolle].systemrechte /\ k.orga = orga /\ IsThere(orga)
HasSystemrechtAtOrganisation(p, orga, recht) ==
  \E k \in KontexteOf(p) : recht \in rollen[k.rolle].systemrechte /\ k.orga \in Way(orga)

\* The rights may come from different Rollen.
HasSystemrechteAtOrganisation(p, orga, rechte, matchAll) ==
  IF matchAll THEN \A recht \in rechte : HasSystemrechtAtOrganisation(p, orga, recht)
              ELSE \E recht \in rechte : HasSystemrechtAtOrganisation(p, orga, recht)

\* hasPersonASystemrechtAtAnyKontextOfPersonB
HasSystemrechtAtAnyKontextOf(a, b, recht) ==
  \E k \in KontexteOf(b) : HasSystemrechtAtOrganisation(a, k.orga, recht)

CanModifyPerson(a, b) ==
  \/ HasSystemrechtAtOrganisation(a, Root, PERSONEN_VERWALTEN)
  \/ HasSystemrechtAtAnyKontextOf(a, b, PERSONEN_VERWALTEN)

-----------------------------------------------------------------------------
(* Down                                                                    *)

\* One Rolle must have all the rights.
GetOrgIdsWithSystemrecht(p, rechte, matchAll) ==
  LET Fits(r) == IF matchAll THEN rechte \subseteq rollen[r].systemrechte
                             ELSE rechte \intersect rollen[r].systemrechte # {}
      own == {k.orga : k \in {x \in KontexteOf(p) : Fits(x.rolle)}}
  IN IF HasSystemrechteAtOrganisation(p, Root, rechte, matchAll) THEN [all |-> TRUE, orgaIds |-> Ids]
     ELSE [all |-> FALSE, orgaIds |-> own \union FindChildOrgasForIds(own)]

PermittedOrgas(p) == GetOrgIdsWithSystemrecht(p, {PERSONEN_VERWALTEN}, TRUE)

\* getPersonScopeWithPermissions: the persons someone finds, changes and deletes
InPersonScope(a, b) ==
  PermittedOrgas(a).all \/ \E k \in KontexteOf(b) : k.orga \in PermittedOrgas(a).orgaIds

-----------------------------------------------------------------------------
(* The steps of creating a Kontext                                         *)

\* 1. The organisations, ...
FindAllSchulstrukturknoten(p) ==
  {o \in PermittedOrgas(p).orgaIds : IsThere(o) /\ Typ(o) # "KLASSE"}

\* 2. ... the Rollen at the one selected, ...
FindRollenForOrganisation(p, o) ==
  {r \in RolleIds : HasSystemrechtAtOrganisation(p, o, PERSONEN_VERWALTEN) /\ CheckReferences(o, r)}

\* 3. ... and whether both are accepted.
CanCommit(p, o, r) ==
  HasSystemrechteAtOrganisation(p, o, {PERSONEN_VERWALTEN}, TRUE) /\ CheckReferences(o, r)

\* Or the Rolle first, then the organisations where it can be assigned.
FindSchulstrukturknoten(r) ==
  LET ssk == rollen[r].ssk
      available == IF IsThere(ssk) THEN {ssk} \union FindChildOrgasForIds({ssk}) ELSE {}
  IN {o \in available : Typ(o) # "KLASSE" /\ OrganisationMatchesRollenart(o, r)}
=============================================================================
