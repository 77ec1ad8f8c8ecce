--------------------------- MODULE OrganisationTree ---------------------------
(***************************************************************************)
(* The tree of organisations: Land, Träger, Schulen and their Klassen, and *)
(* the groups itslearning has of the Klassen (OrganisationService,         *)
(* OrganisationRepository, ItsLearningOrganisationsEventHandler).          *)
(*                                                                         *)
(* An organisation has two parents, administriertVon and zugehoerigZu, and *)
(* nothing in the database ties it to them.  The checks of one request are *)
(* one step here.  Names of Klassen, Kennungen and types are kept; other   *)
(* attributes, the required ones and the form of names are left out.  The  *)
(* queries that walk the tree do not end on a cycle (Ends).                *)
(***************************************************************************)
EXTENDS AdminRequests

CONSTANTS
  Ids, NewIds,               \* organisations; those that may be created
  Root, Oeffentlich, Ersatz, \* the root and the two branches below it
  None,
  NewOrgas,                  \* bodies of POST organisationen
  Bodies,                    \* bodies of PUT organisationen/:id
  Names                      \* names of Klassen

Kinds == {"administriertVon", "zugehoerigZu"}
Typen == {"ROOT", "LAND", "TRAEGER", "SCHULE", "KLASSE", "SONSTIGE"}
Rows == [typ : Typen, administriertVon : Ids \union {None}, zugehoerigZu : Ids \union {None},
         name : Names \union {None}, kennung : {None, "1", "2"}, itslearningEnabled : BOOLEAN, version : Nat]

ASSUME TreeAssumption ==
  /\ IsFiniteSet(Ids) /\ {Root, Oeffentlich, Ersatz} \subseteq Ids /\ NewIds \subseteq Ids /\ None \notin Ids
  /\ NewOrgas \subseteq Rows /\ Bodies \subseteq Rows

VARIABLES
  orgas,        \* [Ids -> row]; version 0: not created yet
  groups,       \* itslearning: [Ids -> name and parent of the Klasse's group]
  putUsed       \* history: PUT organisationen/:id was used

treeVars == <<orgas, groups, putUsed>>

NoOrga == [typ |-> "none", administriertVon |-> None, zugehoerigZu |-> None, name |-> None,
           kennung |-> None, itslearningEnabled |-> FALSE, version |-> 0]
NoGroup == [name |-> None, parentId |-> None]
\* Rows that are not there, or no longer.
NoRows == [typ : {"none"}, administriertVon : {None}, zugehoerigZu : {None}, name : {None},
           kennung : {None}, itslearningEnabled : {FALSE}, version : Nat]

TreeTypeOK ==
  /\ orgas \in [Ids -> Rows \union NoRows]
  /\ groups \in [Ids -> [name : Names \union {None}, parentId : Ids \union {None}]]
  /\ putUsed \in BOOLEAN
IsThere(i) == i # None /\ orgas[i].typ # "none"
Typ(i) == IF i = None THEN "none" ELSE orgas[i].typ

-----------------------------------------------------------------------------
(* Walks                                                                   *)

\* Organisations above i in the tree t, by one kind of parent.
Above(t, kind, i) ==
  LET Parents(s) == {t[x][kind] : x \in s} \ {None}
      above[n \in Nat] == IF n = 0 THEN Parents({i})
                          ELSE LET lower == above[n - 1] IN lower \union Parents(lower)
  IN above[Cardinality(Ids)]

\* The way up from i has an end.
Ends(t, kind, i) ==
  LET way[n \in Nat] == IF n = 0 THEN i
                        ELSE LET lower == way[n - 1] IN IF lower = None THEN None ELSE t[lower][kind]
  IN way[Cardinality(Ids)] = None

\* The organisation and those above it that are there: where the queries that
\* walk up the tree come along.
Way(i) == {x \in {i} \union Above(orgas, "administriertVon", i) : IsThere(x)}

\* findChildOrgasForIds, downwards; below the root are all others, orphans too.
\* Mutant: the walk ends with the direct children.
FindChildOrgasForIds_Children(s) ==
  IF Root \in s THEN {x \in Ids \ {Root} : IsThere(x)}
  ELSE {x \in Ids : IsThere(x) /\ orgas[x].administriertVon \in s}
FindChildOrgasForIds(s) ==
  LET Children(of) == {x \in Ids : IsThere(x) /\ orgas[x].administriertVon \in of}
      below[n \in Nat] == IF n = 0 THEN Children(s)
                          ELSE LET upper == below[n - 1] IN upper \union Children(upper)
  IN CASE s = {} -> {}
       [] Root \in s -> {x \in Ids \ {Root} : IsThere(x)}
       [] OTHER -> below[Cardinality(Ids)]
Below(i) == FindChildOrgasForIds({i})

\* findOrganisationZuordnungErsatzOderOeffentlich: the branch met first on the way up.
IsErsatz(i) ==
  LET way == {i} \union Above(orgas, "administriertVon", i)
      Branch(b) == b \in way /\ orgas[b].administriertVon = Root
  IN Branch(Ersatz) /\ (Branch(Oeffentlich) => Oeffentlich \in Above(orgas, "administriertVon", Ersatz))

-----------------------------------------------------------------------------
(* Specifications                                                          *)

ParentsAre(o, typen) == \A kind \in Kinds : Typ(o[kind]) \in typen

SchuleUnterTraeger(o) == o.typ = "SCHULE" => ParentsAre(o, {"TRAEGER", "LAND"})
TraegerInTraeger(o) == o.typ = "TRAEGER" => ParentsAre(o, {"TRAEGER"})
NurKlasseKursUnterSchule(o) ==
  o.typ \in {"TRAEGER", "SCHULE", "SONSTIGE"} => \A kind \in Kinds : Typ(o[kind]) # "SCHULE"
ZyklusInOrganisationen(i, o) == \E kind \in Kinds : ~Ends([orgas EXCEPT ![i] = o], kind, i)

KlasseNurVonSchuleAdministriert(o) == o.typ = "KLASSE" => ParentsAre(o, {"SCHULE"})

\* It does not leave out the Klasse itself.
KlassenNameAnSchuleEindeutig(o) ==
  o.typ = "KLASSE" =>
    /\ IsThere(o.administriertVon)
    /\ o.administriertVon \notin Below(o.administriertVon)   \* else the query does not end
    /\ \A x \in Below(o.administriertVon) : orgas[x].typ = "KLASSE" => orgas[x].name # o.name

\* Nor does it leave out the Schule itself.
SchuleKennungEindeutig(o) ==
  o.typ = "SCHULE" => \A x \in Ids : IsThere(x) => orgas[x].kennung # o.kennung
KennungRequiredForSchule(o) == o.typ = "SCHULE" => o.kennung # None

KlassenSpecifications(o) == KlasseNurVonSchuleAdministriert(o) /\ KlassenNameAnSchuleEindeutig(o)

\* Mutant: a move may close a cycle.
StructureSpecifications_Cycle(i, o) ==
  SchuleUnterTraeger(o) /\ TraegerInTraeger(o) /\ NurKlasseKursUnterSchule(o)
StructureSpecifications(i, o) ==
  /\ SchuleUnterTraeger(o) /\ TraegerInTraeger(o) /\ NurKlasseKursUnterSchule(o)
  /\ ~ZyklusInOrganisationen(i, o)

-----------------------------------------------------------------------------
(* Requests: each reads and checks, then writes                            *)

\* What a request with the row o relies on or changes elsewhere.
Touches(i, o) ==
  {<<"orga", o[kind]>> : kind \in Kinds} \union {<<"kennung", o.kennung>>, <<"vidis", None>>}
  \union (IF o.typ = "KLASSE" THEN {<<"names", o.administriertVon>>, <<"group", i>>} ELSE {})

\* A write of the row o: with the version that was read, and the one that the
\* administrator saw.  enabled: the Schule as the request read it.
Write(op, i, o, version, touches) ==
  [op |-> op, id |-> i, row |-> o, read |-> orgas[i].version, version |-> version,
   seen |-> IF version = orgas[i].version THEN orgas[i] ELSE NoOrga,
   enabled |-> o.administriertVon # None /\ orgas[o.administriertVon].itslearningEnabled,
   touches |-> touches]

\* createOrganisation
CreateOrganisation(c) ==
  \E i \in NewIds, b \in NewOrgas :
    LET o == [b EXCEPT !.version = 1] IN
    /\ orgas[i].version = 0 /\ \A d \in Clients : req[d].op = "create" => req[d].id # i
    /\ \A kind \in Kinds : IsThere(o[kind])
    /\ KennungRequiredForSchule(o) /\ SchuleKennungEindeutig(o) /\ KlassenSpecifications(o)
    /\ Begin(c, Write("create", i, o, 0, Touches(i, o)))
    /\ UNCHANGED treeVars

\* updateOrganisation: the parents in the body need not exist, and the structure is not checked.
PutOrganisation(c) ==
  \E i \in Ids, b \in Bodies :
    LET o == [b EXCEPT !.version = orgas[i].version, !.itslearningEnabled = orgas[i].itslearningEnabled] IN
    /\ IsThere(i)
    /\ KennungRequiredForSchule(o) /\ SchuleKennungEindeutig(o) /\ KlassenSpecifications(o)
    /\ Begin(c, Write("put", i, o, orgas[i].version, Touches(i, o) \union Touches(i, orgas[i])))
    /\ UNCHANGED treeVars

\* setAdministriertVon, setZugehoerigZu
SetParent(c, kind) ==
  \E i \in Ids, parent \in Ids :
    LET o == [orgas[i] EXCEPT ![kind] = parent] IN
    /\ IsThere(i) /\ IsThere(parent) /\ orgas[i][kind] # None
    /\ StructureSpecifications(i, o) /\ KlassenSpecifications(o)
    /\ Begin(c, Write("move", i, o, orgas[i].version,
                      {<<"parents", kind>>} \union (Touches(i, o) \ {<<"kennung", o.kennung>>, <<"vidis", None>>})))
    /\ UNCHANGED treeVars

\* updateKlassenname; the administrator saw some version of the row.
UpdateKlassenname(c) ==
  \E i \in Ids, name \in Names :
    LET o == [orgas[i] EXCEPT !.name = name] IN
    /\ Typ(i) = "KLASSE" /\ IsThere(o.administriertVon)
    /\ name # orgas[i].name => KlassenNameAnSchuleEindeutig(o)
    /\ \E version \in 1..orgas[i].version :
         Begin(c, Write("rename", i, o, version, {<<"names", o.administriertVon>>, <<"group", i>>}))
    /\ UNCHANGED treeVars

\* setEnabledForitslearning
SetEnabledForitslearning(c) ==
  \E i \in Ids :
    /\ Typ(i) = "SCHULE"
    /\ Begin(c, Write("enable", i, [orgas[i] EXCEPT !.itslearningEnabled = TRUE], orgas[i].version,
                      {<<"group", x>> : x \in NewIds \union Below(i)}))
    /\ UNCHANGED treeVars

\* deleteKlasse, first half; assigned: organisations someone has a Kontext at.
DeleteKlasse(c, assigned) ==
  \E i \in Ids \ assigned :
    /\ Typ(i) = "KLASSE" /\ IsThere(orgas[i].administriertVon)
    /\ Begin(c, Write("delete", i, NoOrga, orgas[i].version, {<<"orga", i>>, <<"group", i>>}))
    /\ UNCHANGED treeVars

-----------------------------------------------------------------------------
(* Writing and publishing                                                  *)

GroupTask(op, r) ==
  [op |-> op, id |-> r.id, name |-> r.row.name, parentId |-> r.row.administriertVon,
   touches |-> {t \in r.touches : t[1] = "group"}]

\* Handlers of the events; that of a Klasse ends at once when the Schule, as the
\* request read it, is not enabled.
\* Mutant: the deletion of a Klasse is not told.
Started_DeletionSilent(r) ==
  CASE r.op = "create" /\ r.row.typ = "KLASSE" /\ r.enabled -> {GroupTask("group", r)}
    [] r.op = "rename" /\ r.enabled -> {GroupTask("group", r)}
    [] r.op = "enable" -> {GroupTask("enabled", r)}
    [] OTHER -> {}
Started(r) ==
  CASE r.op = "create" /\ r.row.typ = "KLASSE" /\ r.enabled -> {GroupTask("group", r)}
    [] r.op = "rename" /\ r.enabled -> {GroupTask("group", r)}
    [] r.op = "enable" -> {GroupTask("enabled", r)}
    [] r.op = "delete" -> {GroupTask("deleted", r)}
    [] OTHER -> {}

Insert(c) ==
  /\ req[c].op = "create"
  /\ orgas' = [orgas EXCEPT ![req[c].id] = req[c].row]
  /\ End(c, TRUE, Started(req[c]), {})
  /\ UNCHANGED <<groups, putUsed>>

\* Neither has the row changed since the request read it, nor since the
\* administrator saw it.  Only then is it written, and every write has its version.
IsCurrent(r) == r.version = r.read /\ orgas[r.id].version = r.read /\ IsThere(r.id)
\* Mutant: enabling itslearning does not count.
NextVersion_EnabledKeeps(r) == IF r.op = "enable" THEN r.read ELSE r.read + 1
NextVersion(r) == r.read + 1

\* Moves and PUT publish nothing: itslearning is not told.
Update(c) ==
  LET r == req[c] IN
  /\ r.op \in {"put", "move", "rename", "enable"} /\ IsCurrent(r)
  /\ orgas' = [orgas EXCEPT ![r.id] = [r.row EXCEPT !.version = NextVersion(r)]]
  /\ putUsed' = (putUsed \/ r.op = "put")
  /\ End(c, orgas[r.id] = r.seen, Started(r),
         IF r.op \in {"put", "move"} THEN {<<"group", r.id>>} ELSE {})
  /\ UNCHANGED groups

\* OrganisationUpdateOutdatedError, OptimisticLockError
UpdateOutdated(c) ==
  /\ req[c].op \in {"put", "move", "rename", "enable"} /\ ~IsCurrent(req[c])
  /\ GiveUp(c)
  /\ UNCHANGED treeVars

\* deleteKlasse, second half: without regard to the version, or to children.  Refused by
\* the database when a service provider is mapped to the Klasse.
Remove(c, mapped) ==
  LET r == req[c] kept == r.id \in mapped IN
  /\ r.op = "delete"
  /\ orgas' = IF kept THEN orgas ELSE [orgas EXCEPT ![r.id] = [NoOrga EXCEPT !.version = orgas[r.id].version]]
  /\ End(c, TRUE, IF kept THEN {} ELSE Started(r), {})
  /\ UNCHANGED <<groups, putUsed>>

-----------------------------------------------------------------------------
(* itslearning                                                             *)

\* createOrUpdateGroup
StoreGroup(t) ==
  /\ t.op = "group" /\ EndTask(t)
  /\ groups' = [groups EXCEPT ![t.id] = [name |-> t.name, parentId |-> t.parentId]]
  /\ UNCHANGED <<orgas, putUsed>>

DeleteGroup(t) ==
  /\ t.op = "deleted" /\ EndTask(t)
  /\ groups' = [groups EXCEPT ![t.id] = NoGroup]
  /\ UNCHANGED <<orgas, putUsed>>

\* schuleItslearningEnabledEventHandler: the Schule and all Klassen below it are read, also
\* those of a Schule below it, which will get the wrong parent, ...
ReadKlassen(t) ==
  LET klassen == {x \in Below(t.id) : orgas[x].typ = "KLASSE"}
      nested == {x \in klassen : orgas[x].administriertVon # t.id}
  IN
  /\ t.op = "enabled" /\ Ends(orgas, "administriertVon", t.id)
  /\ IF IsErsatz(t.id)
     THEN tasks' = tasks \ {t} /\ disturbed' = disturbed \union t.touches
     ELSE /\ tasks' = (tasks \ {t}) \union
               {[op |-> "store", id |-> t.id, touches |-> t.touches, parentId |-> t.id,
                 names |-> [k \in klassen |-> orgas[k].name]]}
          /\ disturbed' = disturbed \union {<<"group", k>> : k \in nested}
  /\ UNCHANGED <<req, requests, faults, overwritten, treeVars>>

\* ... and sent.
StoreGroups(t) ==
  /\ t.op = "store" /\ EndTask(t)
  /\ groups' = [k \in Ids |-> IF k \in DOMAIN t.names THEN [name |-> t.names[k], parentId |-> t.id]
                              ELSE groups[k]]
  /\ UNCHANGED <<orgas, putUsed>>

GroupCallFails(t) ==
  /\ t.op # "enabled" /\ TaskFails(t)
  /\ UNCHANGED treeVars

TreeNext(assigned, mapped) ==
  \/ \E c \in Clients :
       \/ /\ CanBegin(c)
          /\ \/ CreateOrganisation(c) \/ PutOrganisation(c) \/ UpdateKlassenname(c)
             \/ SetEnabledForitslearning(c) \/ DeleteKlasse(c, assigned)
             \/ \E kind \in Kinds : SetParent(c, kind)
       \/ Insert(c) \/ Update(c) \/ UpdateOutdated(c) \/ Remove(c, mapped)
  \/ \E t \in tasks : StoreGroup(t) \/ DeleteGroup(t) \/ ReadKlassen(t) \/ StoreGroups(t) \/ GroupCallFails(t)
=============================================================================
