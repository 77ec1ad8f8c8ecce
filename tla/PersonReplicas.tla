---------------------------- MODULE PersonReplicas ----------------------------
(***************************************************************************)
(* What the other systems have of one person, and the database it comes    *)
(* from: Keycloak groups, LDAP, itslearning and PrivacyIDEA follow the     *)
(* events PersonenkontextUpdated, PersonRenamed, PersonDeleted,            *)
(* OxUserChanged and PersonExternalSystemsSync.  An event has what its     *)
(* publisher read; its handlers run when the publisher and other requests  *)
(* go on.                                                                  *)
(*                                                                         *)
(* PersonenkontexteUpdate and PersonLifecycle model the publishers in      *)
(* detail, EmailAddresses OX and the addresses.  The systems know nothing  *)
(* of each other, and a behaviour shows one of them.                       *)
(***************************************************************************)
EXTENDS KeycloakGroups, ItslearningSync, PrivacyIdeaTokens, LdapGroups

CONSTANTS
  Clients,       \* requests that may be in progress at a time
  Slots,         \* the Kontexte the person may have: records with orga and rolle
  Starts,        \* Kontexte and tokens to begin with
  MaxRequests,   \* bound: requests
  MaxFailures      \* bound: calls that fail

ASSUME ReplicasAssumption ==
  /\ Slots \subseteq [orga : Orgas, rolle : Rollen] /\ Usernames = PiNames /\ Usernames = LdapNames
  /\ Kennungen = Schulen /\ LehrRollen = {r \in Rollen : Rollenart[r] = LEHR}
  /\ Rollenart \in [Rollen -> Rollenarten] /\ "" \notin Usernames /\ Nobody \notin PiNames
  /\ Hardware \subseteq Serials /\ MaxRequests \in Nat /\ MaxFailures \in Nat

\* Whoever has a token has one of those there are, and at most one that waits to be
\* verified, which is a software token; nobody's tokens do not wait.
ASSUME StartsAssumption ==
  \A start \in Starts :
    /\ start.kontexte \subseteq Slots /\ start.theirs \subseteq Serials
    /\ start.rollout \in [Serials -> {"none", "verify", "enrolled"}]
    /\ \A s \in start.theirs : start.rollout[s] # "none"
    /\ \A s \in Serials : start.rollout[s] = "verify" => s \in start.theirs \ Hardware
    /\ \A s, t \in start.theirs : start.rollout[s] = "verify" /\ start.rollout[t] = "verify" => s = t

VARIABLES
  (* The database. *)
  present,     \* the person's row is there
  name,        \* referrer
  kontexte,
  used,        \* usernames that were given (bound: each is given once)
  (* Requests. *)
  req,         \* [Clients -> the request in progress]
  published,   \* number of events PersonenkontextUpdated
  requests, failures,
  observed,    \* the system whose handlers this behaviour shows
  inOrder      \* history: see Properties

database == <<present, name, kontexte, used>>
counters == <<published, requests, failures>>
history == <<observed, inOrder>>
replicaVars == <<database, req, counters, history, groupVars, itslearningVars, tokenVars, ldapVars>>

Systems == {"keycloak", "itslearning", "privacyidea", "ldap"}
Idle == [op |-> "none", at |-> "idle"]
RollenOf(ks) == {k.rolle : k \in ks}

Requested == \E c \in Clients : req[c] # Idle
ItslearningQuiet == queue = <<>> /\ syncs = {}

\* Everything follows the database.
ReplicasInit ==
  /\ observed \in Systems
  /\ \E start \in Starts, u \in Usernames :
       /\ kontexte = start.kontexte /\ name = u /\ used = {u}
       /\ groups = ServiceProviderGroups(RollenOf(start.kontexte))
       /\ LET relevant == Relevant(start.kontexte) IN
          /\ person = IF relevant = {} THEN NoPerson
                      ELSE [name |-> u, role |-> InstitutionRole(HighestRollenart(Arten(relevant), SYSADMIN))]
          /\ memberships = IF relevant = {} THEN NoMemberships ELSE Target(relevant, {Root})
       /\ rollout = start.rollout /\ theirs = start.theirs
       /\ owner = [s \in Serials |-> IF s \in start.theirs THEN u ELSE Nobody]
       /\ piUsers = IF start.theirs = {} THEN {} ELSE {u}
       /\ entries = IF LehrerAt(start.kontexte) = {} THEN {} ELSE {u}
       /\ members = [s \in Kennungen |-> IF s \in LehrerAt(start.kontexte) THEN {u} ELSE {}]
  /\ present = TRUE
  /\ updates = {} /\ queue = <<>> /\ syncs = {} /\ piTasks = {} /\ ldapTasks = {} /\ lingering = {} /\ leftOut = {}
  /\ req = [c \in Clients |-> Idle]
  /\ published = 0 /\ requests = 0 /\ failures = 0
  /\ inOrder = TRUE

Fault == failures < MaxFailures /\ failures' = failures + 1

\* An event is for the handlers of the system that is observed.
Shown(system, handlers) == IF observed = system THEN handlers ELSE {}
Enqueue(h) == queue' = queue \o (IF observed = "itslearning" THEN <<h>> ELSE <<>>)
StartTokenTask(t) ==
  /\ t \notin piTasks /\ piTasks' = piTasks \union Shown("privacyidea", {t})
  /\ UNCHANGED <<piUsers, owner, rollout, theirs>>

\* A request begins.  Those that overlap others may publish in another order than
\* they read, of which PrivacyIDEA sees two renamings only; a synchronisation
\* takes no mutex.
Begin(c, r) ==
  /\ req[c] = Idle /\ requests < MaxRequests /\ requests' = requests + 1
  /\ req' = [req EXCEPT ![c] = r]
  /\ inOrder' = (inOrder /\ IF observed = "privacyidea"
                           THEN r.op = "rename" => \A d \in Clients : req[d].op # "rename"
                           ELSE ~Requested /\ syncs = {})
  /\ syncs' = {[s EXCEPT !.alone = FALSE] : s \in syncs}
  /\ UNCHANGED <<published, failures, observed, person, memberships, queue, groupVars, tokenVars, ldapVars>>

Goto(c, at) == req' = [req EXCEPT ![c].at = at]
EndRequest(c) == req' = [req EXCEPT ![c] = Idle]
At(c, op, at) == req[c].op = op /\ req[c].at = at

-----------------------------------------------------------------------------
(* Publishers                                                              *)

\* PersonenkontexteUpdate.update: the rows are changed, ...
UpdateBegins(c) ==
  \E target \in SUBSET Slots :
    /\ present /\ target # kontexte /\ kontexte' = target
    /\ Begin(c, [op |-> "update", at |-> "read", new |-> target \ kontexte,
                 removed |-> kontexte \ target, current |-> {}, name |-> name])
    /\ UNCHANGED <<present, name, used>>

\* ... read again, ...
UpdateReads(c) ==
  /\ At(c, "update", "read")
  /\ req' = [req EXCEPT ![c].at = "load", ![c].current = kontexte]
  /\ UNCHANGED <<database, counters, history, groupVars, itslearningVars, tokenVars, ldapVars>>

\* ... and published with the person as it is then.
UpdateLoadsPerson(c) ==
  /\ At(c, "update", "load")
  /\ IF present THEN req' = [req EXCEPT ![c].at = "publish", ![c].name = name] ELSE EndRequest(c)
  /\ UNCHANGED <<database, counters, history, groupVars, itslearningVars, tokenVars, ldapVars>>

\* Two Rollen, one removed and one new, that share a group.
Shared(r) ==
  LET new == RollenOf(r.new) removed == RollenOf(r.removed) IN
  \E x \in new, y \in removed \ new : KeycloakGroup[x] \intersect KeycloakGroup[y] # {}

PublishKontextUpdated(c) ==
  /\ At(c, "update", "publish") /\ EndRequest(c)
  /\ LET r == req[c] IN
     /\ updates' = updates \union
           Shown("keycloak", UpdatesOf(published, RollenOf(r.new), RollenOf(r.removed), RollenOf(r.current)))
     /\ Enqueue(KontexteUpdated(r.name, r.current))
     /\ StartLdap(Shown("ldap", LdapUpdate(published, r.name, r.new, r.removed, r.current)),
                  Shown("ldap", (LehrerAt(r.removed) \ LehrerAt(r.current)) \intersect {k.orga : k \in r.current}))
     /\ inOrder' = (inOrder /\ updates = {} /\ syncs = {} /\ ldapTasks = {} /\ (observed = "keycloak" => ~Shared(r)))
  /\ published' = published + 1
  /\ UNCHANGED <<database, requests, failures, observed, groups, person, memberships, syncs, tokenVars>>

\* createPersonenkontextMigration: a Kontext the person has is refused, ...
MigrationBegins(c) ==
  /\ observed = "ldap" /\ present
  /\ \E k \in Slots \ kontexte, standard \in BOOLEAN :
       Begin(c, [op |-> "migration", at |-> "save", kontext |-> k, standard |-> standard, name |-> name])
  /\ UNCHANGED database

\* ... a new one saved and told to LDAP.  Of the others in Systems none handles
\* this event, so they would be behind.
MigrationSaves(c) ==
  LET r == req[c] IN
  /\ At(c, "migration", "save") /\ EndRequest(c)
  /\ IF present /\ r.kontext \notin kontexte
     THEN /\ kontexte' = kontexte \union {r.kontext}
          /\ StartLdapMigration(published, r.name, r.kontext, r.standard)
          /\ published' = published + 1 /\ inOrder' = (inOrder /\ ldapTasks = {})
     ELSE UNCHANGED <<kontexte, published, inOrder, ldapVars>>
  /\ UNCHANGED <<present, name, used, requests, failures, observed, groupVars, itslearningVars, tokenVars>>

\* updatePersonMetadata with a new name: saved, then published.
RenameBegins(c) ==
  \E u \in Usernames \ used :
    /\ present /\ name' = u /\ used' = used \union {u}
    /\ Begin(c, [op |-> "rename", at |-> "publish", old |-> name, name |-> u])
    /\ UNCHANGED <<present, kontexte>>

PublishRenamed(c) ==
  /\ At(c, "rename", "publish") /\ EndRequest(c)
  /\ Enqueue(Renamed(req[c].name))
  /\ StartTokenTask(UpdateUsername(req[c].old, req[c].name))
  /\ StartLdap(Shown("ldap", {LdapRenamed(req[c].old, req[c].name)}), {})
  /\ inOrder' = (inOrder /\ syncs = {} /\ piTasks = {} /\ ldapTasks = {})
  /\ UNCHANGED <<database, counters, observed, groupVars, person, memberships, syncs>>

\* deletePerson: the events are published, without Kontexte, ...
DeleteBegins(c) ==
  /\ present
  /\ Begin(c, [op |-> "delete", at |-> "publish", name |-> name])
  /\ UNCHANGED database

PublishDeleted(c) ==
  /\ At(c, "delete", "publish") /\ Goto(c, "remove")
  /\ Enqueue(KontexteUpdated(req[c].name, {}))
  /\ StartTokenTask(PersonDeleted(req[c].name))
  /\ StartLdap(Shown("ldap", {LdapDeleted(req[c].name)} \union LdapUpdate(published, req[c].name, {}, kontexte, {})), {})
  /\ published' = published + 1
  /\ inOrder' = (inOrder /\ syncs = {} /\ piTasks = {} /\ ldapTasks = {})
  /\ UNCHANGED <<database, requests, failures, observed, groupVars, person, memberships, syncs>>

\* Mutant: the Kontexte are not deleted with the row.
RemovePerson_KontexteStay(c) ==
  /\ At(c, "delete", "remove") /\ EndRequest(c)
  /\ present' = FALSE
  /\ UNCHANGED <<kontexte, name, used, counters, history, groupVars, itslearningVars, tokenVars, ldapVars>>

\* ... before the row goes.
RemovePerson(c) ==
  /\ At(c, "delete", "remove") /\ EndRequest(c)
  /\ present' = FALSE /\ kontexte' = {}
  /\ UNCHANGED <<name, used, counters, history, groupVars, itslearningVars, tokenVars, ldapVars>>

\* OxUserChanged, at the end of what EmailAddresses models.
PublishOxUserChanged(c) ==
  /\ observed = "itslearning" /\ present
  /\ req[c] = Idle /\ requests < MaxRequests /\ requests' = requests + 1
  /\ Enqueue(OxUserChanged)
  /\ inOrder' = (inOrder /\ syncs = {})
  /\ syncs' = {[s EXCEPT !.alone = FALSE] : s \in syncs}
  /\ UNCHANGED <<database, req, published, failures, observed, groupVars, person, memberships, tokenVars, ldapVars>>

\* syncPerson: its handler begins.
SyncBegins(c) ==
  /\ observed = "itslearning" /\ present
  /\ req[c] = Idle /\ requests < MaxRequests /\ requests' = requests + 1
  /\ syncs' = {[s EXCEPT !.alone = FALSE] : s \in syncs} \union
              {[id |-> requests, alone |-> ~Requested /\ ItslearningQuiet,
                handler |-> [op |-> "sync", at |-> "findPerson"]]}
  /\ inOrder' = (inOrder /\ ~Requested /\ ItslearningQuiet)
  /\ UNCHANGED <<database, req, published, failures, observed, groupVars, person, memberships, queue, tokenVars, ldapVars>>

\* A request for a second factor, by the referrer as it is then.  The request may
\* come before the event that tells of a renaming.
TokenRequest ==
  /\ observed = "privacyidea" /\ present /\ requests < MaxRequests /\ requests' = requests + 1
  /\ \/ Cardinality({s \in Serials \ Hardware : rollout[s] = "none"})
          > Cardinality({t \in piTasks : t.op = "init"})      \* bound
        /\ StartTokenTask(InitializeSoftwareToken(name))
     \/ \E s \in Hardware : StartTokenTask(AssignHardwareToken(name, s))
     \/ StartTokenTask(ResetToken(name))
     \/ StartTokenTask(VerifyTokenEnrollment(name))
  /\ inOrder' = (inOrder /\ piTasks = {} /\ ~Requested)
  /\ UNCHANGED <<database, req, published, failures, observed, groupVars, itslearningVars, ldapVars>>

-----------------------------------------------------------------------------
(* Consumers                                                               *)

StepGroups ==
  /\ \E u \in updates :
       \/ (ListGroups(u) \/ ModifyGroup(u)) /\ UNCHANGED <<failures, inOrder>>
       \/ Fault /\ UpdateFails(u) /\ inOrder' = FALSE
  /\ UNCHANGED <<database, req, published, requests, observed, itslearningVars, tokenVars, ldapVars>>

Remaining(h) == IF h = Done THEN <<>> ELSE <<h>>

\* runExclusive: first come, first served.
ServeQueue ==
  /\ queue # <<>>
  /\ LET h == Head(queue)
         Rest(next) == Remaining(next) \o Tail(queue)
     IN \/ Effect(h) /\ queue' = Rest(After(h)) /\ UNCHANGED <<failures, inOrder>>
        \/ /\ Fault /\ inOrder' = FALSE
           /\ Effect(h) \/ UNCHANGED <<person, memberships>>
           /\ queue' = Rest(AfterError(h))
  /\ UNCHANGED <<database, req, published, requests, observed, groupVars, syncs, tokenVars, ldapVars>>

\* A synchronisation that ends alone has put itslearning in order.
SyncOnward(s, next) ==
  /\ syncs' = (syncs \ {s}) \union (IF next = Done THEN {} ELSE {[s EXCEPT !.handler = next]})
  /\ inOrder' = (inOrder \/ (next = Done /\ s.alone))

SyncReadsPerson(s) ==
  /\ s.handler.at = "findPerson"
  /\ SyncOnward(s, IF present THEN [op |-> "sync", at |-> "findKontexte", name |-> name] ELSE Done)
  /\ UNCHANGED <<failures, person, memberships>>

SyncReadsKontexte(s) ==
  /\ s.handler.at = "findKontexte"
  /\ SyncOnward(s, SyncRead(s.handler.name, kontexte))
  /\ UNCHANGED <<failures, person, memberships>>

SyncWrites(s) ==
  /\ s.handler.at \notin {"findPerson", "findKontexte"}
  /\ Effect(s.handler)
  /\ SyncOnward(s, After(s.handler))
  /\ UNCHANGED failures

SyncFails(s) ==
  /\ s.handler.at \notin {"findPerson", "findKontexte"} /\ Fault
  /\ Effect(s.handler) \/ UNCHANGED <<person, memberships>>
  /\ LET next == AfterError(s.handler) IN
     syncs' = (syncs \ {s}) \union (IF next = Done THEN {} ELSE {[s EXCEPT !.handler = next, !.alone = FALSE]})
  /\ inOrder' = FALSE

StepSync ==
  /\ \E s \in syncs : SyncReadsPerson(s) \/ SyncReadsKontexte(s) \/ SyncWrites(s) \/ SyncFails(s)
  /\ UNCHANGED <<database, req, published, requests, observed, groupVars, queue, tokenVars, ldapVars>>

StepTokens ==
  /\ \E t \in piTasks :
       \/ TokenStep(t) /\ UNCHANGED <<failures, inOrder>>
       \/ Fault /\ TokenCallFails(t) /\ inOrder' = FALSE
  /\ UNCHANGED <<database, req, published, requests, observed, groupVars, itslearningVars, ldapVars>>

StepLdap ==
  /\ \E t \in ldapTasks :
       \/ LdapStep(t) /\ UNCHANGED <<failures, inOrder>>
       \/ Fault /\ LdapCallFails(t) /\ inOrder' = FALSE
  /\ UNCHANGED <<database, req, published, requests, observed, groupVars, itslearningVars, tokenVars>>

ReplicasNext ==
  \/ \E c \in Clients :
       \/ UpdateBegins(c) \/ UpdateReads(c) \/ UpdateLoadsPerson(c) \/ PublishKontextUpdated(c)
       \/ MigrationBegins(c) \/ MigrationSaves(c) \/ RenameBegins(c) \/ PublishRenamed(c)
       \/ DeleteBegins(c) \/ PublishDeleted(c) \/ RemovePerson(c)
       \/ PublishOxUserChanged(c) \/ SyncBegins(c)
  \/ TokenRequest
  \/ StepGroups \/ ServeQueue \/ StepSync \/ StepTokens \/ StepLdap

ReplicasSpec == ReplicasInit /\ [][ReplicasNext]_replicaVars
-----------------------------------------------------------------------------
(* Properties                                                              *)

(* inOrder: no call has failed, no requests have overlapped where that      *)
(* matters to the system, and it was done with an event when the next one   *)
(* came, except that handlers in the queue for the mutex, and updates of    *)
(* groups while a person is renamed or deleted, may wait.                   *)

ReplicasTypeOK ==
  /\ observed \in Systems /\ inOrder \in BOOLEAN
  /\ present \in BOOLEAN /\ name \in used /\ used \subseteq Usernames
  /\ kontexte \subseteq Slots /\ (~present => kontexte = {})
  /\ published \in Nat /\ requests \in 0..MaxRequests /\ failures \in 0..MaxFailures
  /\ GroupsTypeOK /\ ItslearningTypeOK /\ TokensTypeOK /\ LdapTypeOK
  /\ \A i \in 1..Len(queue) : queue[i] \in Handlers

KeycloakFollows ==
  observed = "keycloak" /\ present /\ updates = {}
    => groups = ServiceProviderGroups(RollenOf(kontexte))

LdapFollows ==
  observed = "ldap" /\ ldapTasks = {} =>
    /\ LehrerAt(kontexte) \ leftOut \subseteq GroupsOf(name)
    /\ GroupsOf(name) \subseteq LehrerAt(kontexte) \union lingering
    /\ LehrerAt(kontexte) \ leftOut # {} => name \in entries
    /\ entries \subseteq (IF present THEN {name} ELSE {})
    /\ \A u \in used \ {name} : GroupsOf(u) = {}

(* In Keycloak the user is in the groups of the person's Rollen and in no    *)
(* other, once all updates are done: also those of a Kontext that has gone   *)
(* while another one with a Rolle of the same group stays.  In LDAP a        *)
(* teacher has an entry and is in the group of each Schule, always under     *)
(* the name as it is now, and a deleted person has no entry; someone who is  *)
(* no teacher there any more stays in a group only where another Kontext at  *)
(* the Schule outlived the one as a teacher.  It is not so when requests or  *)
(* events overlap, when an event has a removed and a new Rolle with a common *)
(* group, or when a call failed.                                             *)
GroupsFollowRollen == inOrder /\ ~Requested => KeycloakFollows /\ LdapFollows

(* itslearning has the person, the name and the memberships that follow     *)
(* from the database, however events queue up for the mutex while requests  *)
(* go on.  It is not so when requests overlap, a synchronisation overlaps   *)
(* anything, or a call failed; a synchronisation without these puts it      *)
(* right again.  Synchronisation and events may differ in the role.         *)
ItslearningFollows ==
  observed = "itslearning" /\ ~Requested /\ ItslearningQuiet /\ inOrder =>
    LET relevant == Relevant(kontexte)
        other == {k \in kontexte : k.rolle \in ItslearningRolle}
    IN IF relevant = {} THEN person = NoPerson
       ELSE /\ person.name = name
            /\ person.role \in {InstitutionRole(HighestRollenart(Arten(ks), SYSADMIN)) : ks \in {relevant, other}}
            /\ memberships = Target(relevant, {Root})

(* A person's tokens follow a renaming, all of them, no token is the user's *)
(* that the person was not given, and at most one waits to be verified;     *)
(* once the operations are done that follow each other without a failure.   *)
TokensFollowName ==
  observed = "privacyidea" /\ inOrder /\ ~Requested /\ piTasks = {} =>
    /\ present => TokensOf(name) = theirs /\ Cardinality(ToVerify(name)) <= 1
    /\ \A u \in used \ {name} : u \notin piUsers
=============================================================================
