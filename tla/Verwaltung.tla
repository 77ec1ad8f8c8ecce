------------------------------ MODULE Verwaltung ------------------------------
(***************************************************************************)
(* What administrators do to organisations, Rollen, service providers and  *)
(* Kontexte while others do the same: two requests of any kind that        *)
(* overlap, and the handlers they start.                                   *)
(***************************************************************************)
EXTENDS PersonPermissions

CONSTANT Starts   \* to begin with: orgas, groups, services, rollen and kontexte

\* The tables are sound to begin with.
ASSUME StartsAssumption ==
  \A start \in Starts :
    /\ start.orgas \in [Ids -> Rows \union NoRows]
    /\ \A i \in Ids : start.orgas[i].version = 0 => start.orgas[i] = NoOrga
    /\ \A i \in Ids, kind \in Kinds :
         LET parent == start.orgas[i][kind] IN parent # None => start.orgas[parent].version > 0
    /\ start.groups \in [Ids -> [name : Names \union {None}, parentId : Ids \union {None}]]
    /\ start.services \in [Services -> Angebote \union {"none", "other"}]
    /\ start.mappings \subseteq {m \in [orga : Ids, service : Services] : start.services[m.service] # "none"}
    /\ start.rollen \in [RolleIds -> RolleRows]
    /\ \A r \in RolleIds : start.rollen[r].version = 0 => start.rollen[r] = NoRolle
    /\ start.kontexte \subseteq KontextRows

vars == <<requestVars, treeVars, serviceVars, rollenVars>>

Init ==
  /\ \E start \in Starts :
       /\ orgas = start.orgas /\ groups = start.groups
       /\ services = start.services /\ mappings = start.mappings
       /\ rollen = start.rollen /\ kontexte = start.kontexte
  /\ putUsed = FALSE
  /\ NothingBegun

Next ==
  \/ TreeNext(Assigned, Mapped) /\ UNCHANGED <<serviceVars, rollenVars>>
  \/ ServicesNext(Attached) /\ UNCHANGED <<treeVars, rollenVars>>
  \/ RollenNext /\ UNCHANGED <<treeVars, serviceVars>>

Spec == Init /\ [][Next]_vars
-----------------------------------------------------------------------------
(* Properties                                                              *)

TypeOK ==
  /\ overwritten \in BOOLEAN /\ requests \in 0..MaxRequests /\ faults \in 0..MaxFaults
  /\ TreeTypeOK /\ ServicesTypeOK /\ RollenTypeOK

(* Nobody writes over what someone else has changed: whoever changes an     *)
(* organisation or a Rolle has seen it as it is, whatever attributes the    *)
(* two changes are about (the version in the rows, which some operations    *)
(* take from the client and some count up on their own).                    *)
NothingOverwritten == ~overwritten

Undisturbed(kind, x) == <<kind, x>> \notin disturbed

(* What the checks promise, where the database promises nothing: it holds   *)
(* as long as no two requests overlap that rely on the same name, parents   *)
(* or assignment, and a PUT of an organisation may break what concerns the  *)
(* shape of the tree.                                                       *)
SchulenSound ==
  \A i, j \in {x \in Ids : Typ(x) = "SCHULE"} :
    i # j /\ Undisturbed("kennung", orgas[i].kennung) => orgas[i].kennung # orgas[j].kennung
KlassenSound ==
  \A i, j \in {x \in Ids \ {Root} : Typ(x) = "KLASSE"} :
    LET schule == orgas[i].administriertVon IN
    /\ i # j /\ orgas[j].administriertVon = schule /\ Undisturbed("names", schule) => orgas[i].name # orgas[j].name
    /\ ~putUsed => ParentsAre(orgas[i], {"SCHULE"})
TreeSound ==
  ~putUsed => \A kind \in Kinds, i \in Ids : Undisturbed("parents", kind) => Ends(orgas, kind, i)
RollenSound ==
  /\ \A r \in RolleIds : HasRolle(r) /\ Undisturbed("rollenname", rollen[r].ssk) => RolleNameUniqueOnSsk(r, rollen[r])
  /\ \A k \in kontexte :
       /\ HasRolle(k.rolle)
       /\ Undisturbed("orga", k.orga) => IsThere(k.orga)
       /\ BEFRISTUNG_PFLICHT \in rollen[k.rolle].merkmale /\ Undisturbed("zuweisung", k.rolle) => k.befristet
VidisSound ==
  \A c \in Clients : VidisDone(c) /\ Undisturbed("vidis", None) =>
    /\ \A m \in mappings : \E a \in req[c].response :
         services[m.service] = a.angebot /\ orgas[m.orga].kennung \in a.schulen
    /\ \A a \in req[c].response, i \in Ids : orgas[i].kennung \in a.schulen =>
         \E m \in mappings : services[m.service] = a.angebot /\ orgas[m.orga].kennung = orgas[i].kennung
    /\ \A s \in Services : IsVidis(s) => s \in Attached \/ \E a \in req[c].response : a.angebot = services[s]

StructureHolds == SchulenSound /\ KlassenSound /\ TreeSound /\ RollenSound /\ VidisSound

(* The two ways to find out what someone may do come to the same result, at *)
(* every organisation that hangs below the root by a way without cycles.    *)
(* Whoever is in someone's list of persons may be changed by them, and the  *)
(* other way round; what is offered to create a Kontext is accepted in the  *)
(* end, and nothing else.  With several rights to have, the list is the     *)
(* stricter one, as one Rolle must have them all.                           *)
Connected(o) == IsThere(o) /\ Root \in Way(o)
ListIsCheck(p, rechte, orte) ==
  LET any == GetOrgIdsWithSystemrecht(p, rechte, FALSE).orgaIds
      all == GetOrgIdsWithSystemrecht(p, rechte, TRUE).orgaIds
  IN \A o \in orte :
       /\ o \in any <=> HasSystemrechteAtOrganisation(p, o, rechte, FALSE)
       /\ o \in all => HasSystemrechteAtOrganisation(p, o, rechte, TRUE)
OfferIsAccepted(p, r, orte) ==
  LET offered == FindAllSchulstrukturknoten(p) \intersect FindSchulstrukturknoten(r)
  IN \A o \in orte : CanCommit(p, o, r) <=> o \in offered /\ r \in FindRollenForOrganisation(p, o)
RechteAgree ==
  LET orte == {o \in Ids : Connected(o)} IN
  orgas[Root].administriertVon = None /\ (\A i \in Ids : Ends(orgas, "administriertVon", i)) =>
    /\ \A p \in Personen :
         /\ \A rechte \in (SUBSET Systemrechte) \ {{}} : ListIsCheck(p, rechte, orte)
         /\ \A r \in RolleIds : OfferIsAccepted(p, r, {o \in orte : Typ(o) # "KLASSE"})
    /\ \A a, b \in Personen :
         {k.orga : k \in KontexteOf(b)} \subseteq orte => (InPersonScope(a, b) <=> CanModifyPerson(a, b))

(* itslearning has the Klassen of the Schulen it is enabled for, by their   *)
(* names, and no others; whether they were there before or came later, and  *)
(* whatever goes on at other Klassen.  It is not so for a Klasse that was   *)
(* touched twice at a time (one that is created while its Schule is being   *)
(* enabled may be left out), that was moved or changed by a PUT, whose call *)
(* failed, or whose Schule is gone or was below another one being enabled.  *)
KlassenFollow ==
  Quiet => \A k \in Ids : Undisturbed("group", k) =>
    LET o == orgas[k] schule == o.administriertVon IN
    /\ o.typ # "KLASSE" => groups[k] = NoGroup
    /\ o.typ = "KLASSE" /\ IsThere(schule) =>
         groups[k] = IF orgas[schule].itslearningEnabled THEN [name |-> o.name, parentId |-> schule] ELSE NoGroup
=============================================================================
