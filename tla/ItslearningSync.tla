---------------------------- MODULE ItslearningSync ----------------------------
(***************************************************************************)
(* One person in itslearning.  ItsLearningPersonsEventHandler follows the  *)
(* events about the person, one at a time under personUpdateMutex, which   *)
(* serves them in the order in which they were published; what it writes   *)
(* is in the event.  ItsLearningSyncEventHandler reads the database        *)
(* instead, on request, and takes no mutex.                                *)
(*                                                                         *)
(* itslearning itself is external: it creates or updates a person or a     *)
(* membership under its id, and puts a new person into the root group.     *)
(***************************************************************************)
EXTENDS Naturals, Sequences, FiniteSets, FiniteSetsExt

CONSTANTS
  Orgas,           \* Schulen and Klassen
  Schulen,
  administriertVon,\* [Orgas \ Schulen -> Schulen]
  ItslearningOrga, \* Schulen that are enabled for itslearning
  Rollenart,       \* [Rollen -> 0..5], ordered as in role-utils
  ItslearningRolle,\* Rollen with a service provider of itslearning
  Usernames,
  Root             \* the group all persons of a tree are in

VARIABLES
  person,       \* what itslearning has of the person
  memberships,  \* group -> its role; the person's memberships
  queue,        \* the handlers that hold or wait for the mutex
  syncs         \* handlers of PersonExternalSystemsSync in progress

itslearningVars == <<person, memberships, queue, syncs>>

EXTERN == 0
LERN == 1
LEHR == 2
SYSADMIN == 5
Rollenarten == EXTERN..SYSADMIN

\* A group is an organisation or the root.
InstitutionRole(art) ==
  <<"GUEST", "STUDENT", "STAFF", "ADMINISTRATOR", "ADMINISTRATOR", "SYSTEM_ADMINISTRATOR">>[art + 1]
IMSESRole(art) ==
  <<"MEMBER", "LEARNER", "INSTRUCTOR", "ADMINISTRATOR", "ADMINISTRATOR", "ADMINISTRATOR">>[art + 1]

NoPerson == [name |-> "", role |-> "GUEST"]
NoMemberships == [g \in {} |-> ""]

HighestRollenart(arten, limit) == Min({limit, Max({EXTERN} \union arten)})

\* filterRelevantKontexte: at an itslearning Schule, or in a Klasse of one at
\* which the person has a Kontext too.
Relevant(kontexte) ==
  LET schools == {k.orga : k \in kontexte} \intersect ItslearningOrga IN
  {k \in kontexte : k.rolle \in ItslearningRolle /\
     (k.orga \in schools \/ (k.orga \notin Schulen /\ administriertVon[k.orga] \in schools))}

ArtenAt(kontexte, orga) == {Rollenart[k.rolle] : k \in {x \in kontexte : x.orga = orga}}
Arten(kontexte) == {Rollenart[k.rolle] : k \in kontexte}

\* The memberships that setMemberships writes, where the current ones are in has.
Target(kontexte, has) ==
  [g \in {k.orga : k \in kontexte} \union (has \intersect {Root}) |->
     IMSESRole(IF g = Root THEN HighestRollenart(Arten(kontexte), LEHR)
               ELSE HighestRollenart(ArtenAt(kontexte, g), SYSADMIN))]

-----------------------------------------------------------------------------
(* A handler is a record: what it does (op), the next call (at), what it   *)
(* will write; has is the set of groups that was read.                     *)

Renamed(name) == [op |-> "renamed", at |-> "read", name |-> name, role |-> "GUEST"]
OxUserChanged == [op |-> "email", at |-> "read", name |-> "", role |-> "GUEST"]

Replication(op, name, relevant, role) ==
  [op |-> op, at |-> IF relevant = {} THEN "delete" ELSE "person",
   name |-> name, role |-> role, kontexte |-> relevant, has |-> {}]

\* updatePersonenkontexteEventHandler
KontexteUpdated(name, current) ==
  LET relevant == Relevant(current) IN
  Replication("updated", name, relevant, InstitutionRole(HighestRollenart(Arten(relevant), SYSADMIN)))

\* personExternalSystemSyncEventHandler, when it has read the Kontexte: here all
\* Rollen of itslearning make up the institution role, wherever they are held.
SyncRead(name, kontexte) ==
  LET rollen == {k \in kontexte : k.rolle \in ItslearningRolle} IN
  Replication("sync", name, Relevant(kontexte), InstitutionRole(HighestRollenart(Arten(rollen), SYSADMIN)))

Done == [at |-> "done"]

\* createOrUpdatePerson
StorePerson(name, role) ==
  /\ person' = [name |-> name, role |-> role]
  /\ memberships' = IF person = NoPerson THEN [g \in {Root} |-> IMSESRole(EXTERN)] ELSE memberships

\* Mutant: memberships that are no longer due stay.
RemoveMemberships_None(h) == UNCHANGED memberships

\* "Find memberships in itslearning that we don't know about"
RemoveMemberships(h) ==
  LET due == DOMAIN Target(h.kontexte, h.has) IN
  memberships' = [g \in {x \in DOMAIN memberships : x \in due \/ x \notin h.has} |-> memberships[g]]

\* A membership of a person who is not there is refused.
CreateMemberships(h) ==
  LET target == Target(h.kontexte, h.has) IN
  memberships' = IF person = NoPerson THEN memberships
                 ELSE [g \in DOMAIN memberships \union DOMAIN target |->
                         IF g \in DOMAIN target THEN target[g] ELSE memberships[g]]

DeletePerson == person' = NoPerson /\ memberships' = NoMemberships

\* What the call that handler h makes next changes in itslearning, ...
Effect(h) ==
  \/ h.at \in {"read", "memberships"} /\ UNCHANGED <<person, memberships>>
  \/ h.at = "person" /\ StorePerson(h.name, h.role)
  \/ h.at = "remove" /\ RemoveMemberships(h) /\ UNCHANGED person
  \/ h.at = "create" /\ CreateMemberships(h) /\ UNCHANGED person
  \/ h.at = "delete" /\ DeletePerson

\* ... and what remains of h after its answer.  Only a person who is there is
\* renamed or gets an address, with the rest as it was read.
After(h) ==
  CASE h.at = "read" /\ person # NoPerson ->
         [h EXCEPT !.at = "person", !.role = person.role, !.name = IF h.op = "email" THEN person.name ELSE @]
    [] h.at = "person" /\ h.op \in {"updated", "sync"} -> [h EXCEPT !.at = "memberships"]
    [] h.at = "memberships" ->
         [h EXCEPT !.has = DOMAIN memberships,
                   !.at = IF DOMAIN memberships \subseteq {k.orga : k \in h.kontexte} \union {Root}
                          THEN "create" ELSE "remove"]
    [] h.at = "remove" -> [h EXCEPT !.at = "create"]
    [] OTHER -> Done

\* ... or after an error.  Errors of updatePerson and of the removal are logged,
\* and the handler goes on; a sync stops at the person.
AfterError(h) ==
  CASE h.at = "person" /\ h.op = "updated" -> [h EXCEPT !.at = "memberships"]
    [] h.at = "remove" -> [h EXCEPT !.at = "create"]
    [] OTHER -> Done

Handlers ==
  [op : {"renamed", "email"}, at : {"read", "person"}, name : Usernames \union {""},
   role : {InstitutionRole(a) : a \in Rollenarten}]
  \union
  [op : {"updated", "sync"}, at : {"person", "memberships", "remove", "create", "delete"},
   name : Usernames, role : {InstitutionRole(a) : a \in Rollenarten},
   kontexte : SUBSET [orga : Orgas, rolle : DOMAIN Rollenart], has : SUBSET (Orgas \union {Root})]

ItslearningTypeOK ==
  /\ person \in {NoPerson} \union [name : Usernames, role : {InstitutionRole(a) : a \in Rollenarten}]
  /\ DOMAIN memberships \subseteq Orgas \union {Root}
  /\ \A g \in DOMAIN memberships : memberships[g] \in {IMSESRole(a) : a \in Rollenarten}
  /\ person = NoPerson => memberships = NoMemberships
=============================================================================
