--------------------------- MODULE PersonLifecycle ---------------------------
(***************************************************************************)
(* A person from creation to deletion.  A person is a row of table person  *)
(* and a user in Keycloak, linked by the row's keycloakUserId; the user's  *)
(* name and the row's referrer are meant to be the same.  PersonRepository *)
(* changes both stores one after the other, without a transaction that     *)
(* spans them, and tells the other systems by events.                      *)
(*                                                                         *)
(* Requests interleave at every call of Keycloak and of the database; a    *)
(* call may fail, and the process may end at any point (Restart).  The     *)
(* Kontexte of a person are modelled in PersonenkontexteUpdate: here a     *)
(* person has some or none.                                                *)
(***************************************************************************)
EXTENDS Naturals, FiniteSets

CONSTANTS
  Persons,     \* ids of persons
  Clients,     \* requests that may be in progress at a time, besides cron's
  Names,       \* names of persons: records with fields lower, search, base
  Nummern,     \* Personalnummern
  Blacklist,   \* names of OX that must not be given
  NoNummer,
  Starts,      \* what there may be to begin with: rows, and users in Keycloak
  MaxRequests, \* bound: requests besides cron's, changes of Kontexte included
  MaxFaults    \* bound: failed calls and restarts

ASSUME PersonAssumption ==
  /\ Clients \intersect Persons = {} /\ NoNummer \notin Nummern
  /\ MaxRequests \in Nat /\ MaxFaults \in Nat
  (* Spelling says less than lower, lower less than search, search less than base. *)
  /\ \A n, m \in Names : /\ n.lower = m.lower => n.search = m.search
                         /\ n.search = m.search => n.base = m.base

\* The first letter of the Vorname and the Familienname, and perhaps a number.
Usernames == {n.base : n \in Names} \X Nat

\* Each client has its place, and so has cron's deletion of each person.
Callers == Clients \union Persons

VARIABLES
  db,         \* table person
  assigned,   \* persons with a Kontext
  kc,         \* users in Keycloak
  events,     \* events published, as a set
  req,        \* [Callers -> the request in progress]
  requests, faults, created,  \* counters; created is the newest id of a Keycloak user
  (* History. *)
  stranded,   \* ids of Keycloak users left over by a failure that was met
  severed     \* persons whose two records may differ, and why is known

vars == <<db, assigned, kc, events, req, requests, faults, created, stranded, severed>>
stores == <<db, assigned, kc, events, created>>

\* unassigned: org_unassignment_date is not set, set, or over the 84 days.
Rows == [id : Persons, name : Names, user : Usernames, kc : Nat \ {0},
         nummer : Nummern \union {NoNummer}, unassigned : {"no", "recent", "due"}]

\* The names of rows and users may have come apart before.
ASSUME StartsAssumption ==
  \A start \in Starts :
    LET rows == start.rows
        users == start.users
    IN /\ rows \subseteq Rows /\ IsFiniteSet(rows)
       /\ users \subseteq [id : {r.kc : r \in rows}, user : Usernames]
       /\ \A r, s \in rows : r = s \/ (r.id # s.id /\ r.kc # s.kc
                                     /\ (r.nummer = s.nummer => r.nummer = NoNummer))
       /\ \A x, y \in users : x = y \/ (x.id # y.id /\ x.user # y.user)
       /\ \A r \in rows : r.kc \in 1..Cardinality(rows)

RowsOf(p) == {r \in db : r.id = p}
UsersNamed(u) == {x \in kc : x.user = u}
HasNummer(n) == n # NoNummer /\ \E r \in db : r.nummer = n

Idle == [op |-> "none", at |-> "idle"]

Init ==
  /\ \E start \in Starts :
       /\ db = start.rows /\ kc = start.users /\ created = Cardinality(start.rows)
       /\ assigned = {r.id : r \in {x \in db : x.unassigned = "no"}}
       /\ severed = {r.id : r \in {x \in db : [id |-> x.kc, user |-> x.user] \notin kc}}
  /\ req = [c \in Callers |-> Idle]
  /\ requests = 0 /\ faults = 0
  /\ events = {} /\ stranded = {}

At(c, op, at) == req[c].op = op /\ req[c].at = at
Continue(c, r) == req' = [req EXCEPT ![c] = r]
To(c, at) == Continue(c, [req[c] EXCEPT !.at = at])
End(c) == Continue(c, Idle)
Fault == faults < MaxFaults /\ faults' = faults + 1
On(p) == {c \in Callers : req[c] # Idle /\ req[c].id = p}

Begin(c, r) ==
  /\ c \in Clients /\ req[c] = Idle
  /\ requests < MaxRequests /\ requests' = requests + 1
  /\ Continue(c, r)
  /\ UNCHANGED <<stores, faults, stranded>>

-----------------------------------------------------------------------------
(* UsernameGeneratorService: the next free name is searched and used later *)

UsernameExists(u) == UsersNamed(u) # {} \/ u \in Blacklist

\* One turn of getNextAvailableUsername.
Search(c) ==
  /\ req[c].at = "search"
  /\ LET r == req[c] IN
     \/ UsernameExists(r.user) /\ Continue(c, [r EXCEPT !.user = <<r.user[1], r.user[2] + 1>>])
     \/ ~UsernameExists(r.user) /\ To(c, IF r.op = "create" THEN "nummer" ELSE "find")
  /\ UNCHANGED <<stores, requests, faults, stranded, severed>>

-----------------------------------------------------------------------------
(* Creation                                                                *)

\* Person.createNew: a request to create a person who is not there and was not
\* deleted (bound).
NewPerson(p, n, nr, at, migrated) ==
  [op |-> "create", at |-> at, id |-> p, name |-> n, nummer |-> nr,
   user |-> <<n.base, 0>>, kc |-> 0, hashed |-> migrated]
IsNew(p) == RowsOf(p) = {} /\ \A e \in events : e.id # p

\* createPersonWithPersonenkontexte: the username is searched, the id is drawn.
CreateBegins(c) ==
  \E p \in Persons, n \in Names, nr \in Nummern \union {NoNummer} :
    /\ IsNew(p) /\ On(p) = {}
    /\ Begin(c, NewPerson(p, n, nr, "search", FALSE))
    /\ UNCHANGED severed

\* createPersonMigration brings username, hashed password and id; two may
\* bring the same id.
MigrationBegins(c) ==
  \E p \in Persons, n \in Names, nr \in Nummern \union {NoNummer} :
    /\ IsNew(p) /\ \A d \in On(p) : req[d].op = "create"
    /\ Begin(c, NewPerson(p, n, nr, "nummer", TRUE))
    /\ UNCHANGED severed

\* "Check if personalnummer already exists".
CreateChecksNummer(c) ==
  /\ At(c, "create", "nummer")
  /\ IF HasNummer(req[c].nummer) THEN End(c) ELSE To(c, "user")
  /\ UNCHANGED <<stores, requests, faults, stranded, severed>>

\* KeycloakUserService.create; Keycloak refuses a name that is taken.  The
\* answer may be lost when the user is there already.
UserCreated(c, next) ==
  /\ LET r == req[c] IN
     \/ UsersNamed(r.user) # {} /\ End(c) /\ UNCHANGED <<kc, created, faults, stranded>>
     \/ /\ UsersNamed(r.user) = {}
        /\ created' = created + 1
        /\ kc' = kc \union {[id |-> created + 1, user |-> r.user]}
        /\ \/ /\ Continue(c, [r EXCEPT !.kc = created + 1, !.at = next])
              /\ UNCHANGED <<faults, stranded>>
           \/ Fault /\ End(c) /\ stranded' = stranded \union {created + 1}
  /\ UNCHANGED <<db, assigned, events, requests, severed>>

\* createKeycloakUser: a password is set afterwards.
CreateUser(c) == At(c, "create", "user") /\ ~req[c].hashed /\ UserCreated(c, "password")

\* createWithHashedPassword: the user comes with it.
CreateUserHashed(c) == At(c, "create", "user") /\ req[c].hashed /\ UserCreated(c, "commit")

\* Mutant: a failing password leaves the user behind.
SetPassword_Kept(c) ==
  /\ At(c, "create", "password")
  /\ \/ To(c, "commit") /\ UNCHANGED faults
     \/ Fault /\ End(c)
  /\ UNCHANGED <<stores, requests, stranded, severed>>

SetPassword(c) ==
  /\ At(c, "create", "password")
  /\ \/ To(c, "commit") /\ UNCHANGED faults
     \/ Fault /\ To(c, "undo")
  /\ UNCHANGED <<stores, requests, stranded, severed>>

\* The new user is deleted again; what becomes of it is not looked at.
UndoUser(c) ==
  /\ At(c, "create", "undo") /\ End(c)
  /\ \/ kc' = {x \in kc : x.id # req[c].kc} /\ UNCHANGED <<faults, stranded>>
     \/ Fault /\ stranded' = stranded \union {req[c].kc} /\ UNCHANGED kc
  /\ UNCHANGED <<db, assigned, events, created, requests, severed>>

\* The row is inserted with the commit, under the unique constraints.
CommitPerson(c) ==
  /\ At(c, "create", "commit")
  /\ LET r == req[c] IN
     \/ /\ RowsOf(r.id) = {} /\ ~HasNummer(r.nummer)
        /\ db' = db \union {[id |-> r.id, name |-> r.name, user |-> r.user, kc |-> r.kc,
                             nummer |-> r.nummer, unassigned |-> "no"]}
        /\ IF r.hashed THEN End(c) ELSE To(c, "kontexte")
        /\ UNCHANGED <<faults, stranded>>
     \/ /\ \/ Fault
           \/ (RowsOf(r.id) # {} \/ HasNummer(r.nummer)) /\ UNCHANGED faults
        /\ End(c) /\ stranded' = stranded \union {r.kc}
        /\ UNCHANGED db
  /\ UNCHANGED <<assigned, kc, events, created, requests, severed>>

\* PersonenkontexteUpdate.update for the new person, which may be refused.
CreateKontexte(c) ==
  /\ At(c, "create", "kontexte") /\ End(c)
  /\ \/ RowsOf(req[c].id) # {} /\ assigned' = assigned \union {req[c].id}
     \/ UNCHANGED assigned
  /\ UNCHANGED <<db, kc, events, created, requests, faults, stranded, severed>>

-----------------------------------------------------------------------------
(* Deletion                                                                *)

\* The request of an administrator; PersonDeleteService has read the Kontexte.
DeleteBegins(c) ==
  \E p \in Persons :
    /\ RowsOf(p) # {}
    /\ Begin(c, [op |-> "delete", at |-> "load", id |-> p])
    /\ UNCHANGED severed

\* Mutant: the date is compared the wrong way round.
WithoutOrgList_Recent == {r.id : r \in {x \in db : x.id \notin assigned /\ x.unassigned = "recent"}}

\* getPersonWithoutOrgDeleteList.
WithoutOrgList == {r.id : r \in {x \in db : x.id \notin assigned /\ x.unassigned = "due"}}

\* cron person-without-org: all persons of the list at a time.
CronDeletes ==
  /\ \A p \in Persons : req[p] = Idle
  /\ WithoutOrgList # {}
  /\ req' = [c \in Callers |-> IF c \in WithoutOrgList
                               THEN [op |-> "delete", at |-> "load", id |-> c] ELSE req[c]]
  /\ UNCHANGED <<stores, requests, faults, stranded, severed>>

\* The person is read, with the rights of the caller.
DeleteLoads(c) ==
  /\ At(c, "delete", "load")
  /\ \/ RowsOf(req[c].id) = {} /\ End(c)
     \/ \E r \in RowsOf(req[c].id) :
          Continue(c, [op |-> "delete", at |-> "user", id |-> r.id, kc |-> r.kc, user |-> r.user])
  /\ UNCHANGED <<stores, requests, faults, stranded, severed>>

\* Mutant: an error of Keycloak skips the events.
DeleteUser_Silent(c) ==
  /\ At(c, "delete", "user")
  /\ severed' = severed \union {req[c].id}
  /\ \/ kc' = {x \in kc : x.id # req[c].kc} /\ UNCHANGED <<faults, stranded>> /\ To(c, "publish")
     \/ Fault /\ stranded' = stranded \union {req[c].kc} /\ UNCHANGED kc /\ To(c, "remove")
  /\ UNCHANGED <<db, assigned, events, created, requests>>

\* "Delete the person from Keycloak"; the answer is not looked at.
DeleteUser(c) ==
  /\ At(c, "delete", "user") /\ To(c, "publish")
  /\ severed' = severed \union {req[c].id}
  /\ \/ kc' = {x \in kc : x.id # req[c].kc} /\ UNCHANGED <<faults, stranded>>
     \/ Fault /\ stranded' = stranded \union {req[c].kc} /\ UNCHANGED kc
  /\ UNCHANGED <<db, assigned, events, created, requests>>

DeletePublishes(c) ==
  /\ At(c, "delete", "publish") /\ To(c, "remove")
  /\ events' = events \union {[kind |-> "PersonDeleted", id |-> req[c].id, user |-> req[c].user]}
  /\ UNCHANGED <<db, assigned, kc, created, requests, faults, stranded, severed>>

\* The row may be another one than was read, if two migrations brought the id.
NewUsers(c) == {r.kc : r \in {s \in RowsOf(req[c].id) : s.kc # req[c].kc}}

\* Mutant: the Kontexte stay.
DeleteRow_KontexteStay(c) ==
  /\ At(c, "delete", "remove") /\ End(c)
  /\ \/ /\ db' = {r \in db : r.id # req[c].id}
        /\ stranded' = stranded \union NewUsers(c) /\ UNCHANGED faults
     \/ Fault /\ UNCHANGED <<db, stranded>>
  /\ UNCHANGED <<assigned, kc, events, created, requests, severed>>

\* "with all their kontexte".
DeleteRow(c) ==
  /\ At(c, "delete", "remove") /\ End(c)
  /\ \/ /\ db' = {r \in db : r.id # req[c].id}
        /\ assigned' = assigned \ {req[c].id}
        /\ stranded' = stranded \union NewUsers(c) /\ UNCHANGED faults
     \/ Fault /\ UNCHANGED <<db, assigned, stranded>>
  /\ UNCHANGED <<kc, events, created, requests, severed>>

-----------------------------------------------------------------------------
(* Changes                                                                 *)

HasNameChanged(o, n) == o # n
HasUsernameChanged(o, n) == o.search # n.search
HasChangedNames(o, n) == o.lower # n.lower    \* decides on PersonRenamedEvent

\* Two changes of a person overlap: each goes by the row it has read.
Overlaps(p) == severed' = severed \union {q \in {p} : \E d \in On(q) : req[d].op = "update"}

\* updatePersonMetadata, with a row that is not outdated (bound: a new name or
\* a Personalnummer, not both).
UpdateBegins(c) ==
  \E o \in db, n \in Names, nr \in Nummern \union {NoNummer} :
    /\ HasNameChanged(o.name, n) \/ nr # NoNummer
    /\ HasNameChanged(o.name, n) => nr = NoNummer
    /\ Begin(c, [op |-> "update", at |-> "nummer", id |-> o.id, old |-> o, name |-> n,
                 nummer |-> nr, user |-> o.user, kc |-> 0, put |-> FALSE])
    /\ Overlaps(o.id)

\* A Personalnummer that anyone has is refused; the lock for want of one is
\* lifted (KeycloakUserLock).
UpdateChecksNummer(c) ==
  /\ At(c, "update", "nummer")
  /\ LET r == req[c] IN
     IF HasNummer(r.nummer) THEN End(c)
     ELSE IF HasUsernameChanged(r.old.name, r.name)
     THEN Continue(c, [r EXCEPT !.at = "search", !.user = <<r.name.base, 0>>])
     ELSE To(c, "save")
  /\ UNCHANGED <<stores, requests, faults, stranded, severed>>

\* KeycloakUserService.updateUsername looks for the user by the old name ...
FindUser(c) ==
  /\ At(c, "update", "find")
  /\ \/ UsersNamed(req[c].old.user) = {} /\ End(c)
     \/ \E x \in UsersNamed(req[c].old.user) : Continue(c, [req[c] EXCEPT !.at = "rename", !.kc = x.id])
  /\ UNCHANGED <<stores, requests, faults, stranded, severed>>

\* Persons whose user has the id k.
Holders(k) == {r.id : r \in {x \in db : x.kc = k}}
                \union {req[c].id : c \in {d \in Callers : req[d].op = "create" /\ req[d].kc = k}}

\* Mutant: the answer of Keycloak is not looked at.
RenameUser_Unchecked(c) ==
  /\ At(c, "update", "rename") /\ To(c, "save")
  /\ LET r == req[c]
         mine == {x \in kc : x.id = r.kc}
     IN IF mine = {} \/ UsersNamed(r.user) # {} THEN UNCHANGED <<kc, severed>>
        ELSE /\ kc' = (kc \ mine) \union {[id |-> r.kc, user |-> r.user]}
             /\ UNCHANGED severed
  /\ UNCHANGED <<db, assigned, events, created, requests, faults, stranded>>

\* ... and renames it by id, if it is still there and the new name is free.
RenameUser(c) ==
  /\ At(c, "update", "rename")
  /\ LET r == req[c]
         mine == {x \in kc : x.id = r.kc}
         others == IF r.id \in severed THEN Holders(r.kc) ELSE {}
     IN \/ (mine = {} \/ UsersNamed(r.user) # {}) /\ End(c) /\ UNCHANGED <<kc, faults, severed>>
        \/ /\ mine # {} /\ UsersNamed(r.user) = {}
           /\ kc' = (kc \ mine) \union {[id |-> r.kc, user |-> r.user]}
           /\ \/ To(c, "save") /\ severed' = severed \union others /\ UNCHANGED faults
              \/ Fault /\ End(c) /\ severed' = severed \union others \union {r.id}  \* answer lost
  /\ UNCHANGED <<db, assigned, events, created, requests, stranded>>

\* PUT personen/:id: names and referrer as in the body (bound: the old one or
\* the plain one of the new name); Keycloak is not told.
PutBegins(c) ==
  \E o \in db, n \in Names : \E u \in {o.user, <<n.base, 0>>} :
    /\ Begin(c, [op |-> "update", at |-> "save", id |-> o.id, old |-> o, name |-> n,
                 nummer |-> NoNummer, user |-> u, kc |-> 0, put |-> TRUE])
    /\ severed' = severed \union {q \in {o.id} : u # o.user \/ \E d \in On(q) : req[d].op = "update"}

\* Columns that differ from the row as it was read are written.  PUT has no
\* org_unassignment_date: it is written as "not set" or left out.
Written(m, r) ==
  {[m EXCEPT !.name = IF r.name # r.old.name THEN r.name ELSE @,
             !.user = IF r.user # r.old.user THEN r.user ELSE @,
             !.nummer = IF r.nummer # NoNummer THEN r.nummer ELSE @,
             !.unassigned = date] : date \in {m.unassigned} \union (IF r.put THEN {"no"} ELSE {})}

\* PersonRepository.update: the flush, which a row that is gone does not stop.
SaveUpdate(c) ==
  /\ At(c, "update", "save")
  /\ LET r == req[c]
         mine == RowsOf(r.id)
         clash == mine # {} /\ r.nummer # NoNummer /\ \E s \in db \ mine : s.nummer = r.nummer
     IN \/ /\ ~clash
           /\ \/ mine = {} /\ UNCHANGED db
              \/ \E m \in mine : \E w \in Written(m, r) : db' = (db \ mine) \union {w}
           /\ IF HasChangedNames(r.old.name, r.name) THEN To(c, "announce") ELSE End(c)
           /\ UNCHANGED <<faults, severed>>
        \/ /\ (clash /\ UNCHANGED faults) \/ Fault
           /\ End(c) /\ severed' = severed \union {r.id} /\ UNCHANGED db
  /\ UNCHANGED <<assigned, kc, events, created, requests, stranded>>

AnnounceUpdate(c) ==
  /\ At(c, "update", "announce") /\ End(c)
  /\ events' = events \union {[kind |-> "PersonRenamed", id |-> req[c].id, user |-> req[c].user]}
  /\ UNCHANGED <<db, assigned, kc, created, requests, faults, stranded, severed>>

-----------------------------------------------------------------------------
(* Kontexte come and go, time passes, calls fail, the process ends         *)

\* PersonenkontexteUpdate: org_unassignment_date is set with the last Kontext
\* gone and cleared with the first new one.
KontexteChange(p) ==
  /\ requests < MaxRequests /\ requests' = requests + 1
  /\ \E r \in RowsOf(p) :
       \/ /\ p \in assigned /\ assigned' = assigned \ {p}
          /\ db' = (db \ {r}) \union {[r EXCEPT !.unassigned = "recent"]}
       \/ /\ p \notin assigned /\ assigned' = assigned \union {p}
          /\ db' = (db \ {r}) \union {[r EXCEPT !.unassigned = "no"]}
  /\ UNCHANGED <<kc, events, req, faults, created, stranded, severed>>

DaysPass ==
  /\ \E r \in db : r.unassigned = "recent" /\ db' = (db \ {r}) \union {[r EXCEPT !.unassigned = "due"]}
  /\ UNCHANGED <<assigned, kc, events, req, requests, faults, created, stranded, severed>>

\* A call before the first effect fails, or the whole of it is refused.
CallFails(c) ==
  /\ \E op \in {"create", "delete", "update"}, at \in {"search", "nummer", "user", "find", "load"} :
       At(c, op, at) /\ ~(op = "delete" /\ at = "user")
  /\ Fault /\ End(c)
  /\ UNCHANGED <<stores, requests, stranded, severed>>

\* The process ends and starts again; transactions roll back.
Restart ==
  /\ Fault
  /\ req' = [c \in Callers |-> Idle]
  /\ stranded' = stranded \union
       {req[c].kc : c \in {d \in Callers : req[d].op = "create" /\ req[d].at \in {"password", "undo", "commit"}}}
  /\ severed' = severed \union
       {req[c].id : c \in {d \in Callers : req[d].op = "update" /\ req[d].at = "save"}}
  /\ UNCHANGED <<stores, requests>>

Step(c) ==
  \/ Search(c)
  \/ CreateChecksNummer(c) \/ CreateUser(c) \/ CreateUserHashed(c) \/ SetPassword(c) \/ UndoUser(c)
  \/ CommitPerson(c) \/ CreateKontexte(c)
  \/ DeleteLoads(c) \/ DeleteUser(c) \/ DeletePublishes(c) \/ DeleteRow(c)
  \/ UpdateChecksNummer(c) \/ FindUser(c) \/ RenameUser(c) \/ SaveUpdate(c) \/ AnnounceUpdate(c)
  \/ CallFails(c)

Next ==
  \/ \E c \in Clients : CreateBegins(c) \/ MigrationBegins(c) \/ DeleteBegins(c) \/ UpdateBegins(c) \/ PutBegins(c)
  \/ CronDeletes
  \/ \E c \in Callers : Step(c)
  \/ \E p \in Persons : KontexteChange(p)
  \/ DaysPass \/ Restart

Spec == Init /\ [][Next]_vars

\* Cron runs every day, also among requests that come and go; every
\* continuation runs.
FairSpec == Spec /\ SF_vars(CronDeletes) /\ \A c \in Callers : WF_vars(Step(c))
-----------------------------------------------------------------------------
(* Properties                                                              *)

TypeOK ==
  /\ db \subseteq Rows
  /\ \A r, s \in db : r.id = s.id \/ (r.nummer = s.nummer /\ r.nummer # NoNummer) => r = s
  /\ assigned \subseteq {r.id : r \in db}
  /\ \A x \in kc : x.id \in 1..created /\ x.user \in Usernames
  /\ \A x, y \in kc : x.user = y.user => x = y
  /\ events \subseteq [kind : {"PersonDeleted", "PersonRenamed"}, id : Persons, user : Usernames]
  /\ \A c \in Callers : req[c] # Idle => req[c].id \in Persons
  /\ requests \in 0..MaxRequests /\ faults \in 0..MaxFaults
  /\ stranded \subseteq 1..created /\ severed \subseteq Persons

(* While no request for a person is in progress, the person's user is in    *)
(* Keycloak under the name that the row has: however creations, renamings   *)
(* and deletions of other persons with the same name interleave and fail.   *)
(* Excepted are persons for whom PUT changed the name in one place, two     *)
(* changes overlapped, or a change or deletion failed between the stores.   *)
(* And a user in Keycloak whose person does not exist belongs to a creation *)
(* in progress, or to one whose commit, clean-up or deletion failed, or     *)
(* whose deletion was meant for an earlier row of the same id: a failing    *)
(* password is always cleaned up.                                           *)
UserOfPerson ==
  /\ \A r \in db : r.id \notin severed /\ On(r.id) = {}
       => [id |-> r.kc, user |-> r.user] \in kc
  /\ \A x \in kc : (\A r \in db : r.kc # x.id)
       => x.id \in stranded \/ \E c \in Callers : req[c].op = "create" /\ req[c].kc = x.id

(* When a row goes, the other systems have been told, also if Keycloak      *)
(* failed, and the user is gone unless that failed, or the row was not the  *)
(* one that the deletion was meant for.                                     *)
DeletionAnnounced ==
  [][\A r \in db : r.id \notin {s.id : s \in db'}
       => /\ \E e \in events : e.kind = "PersonDeleted" /\ e.id = r.id
          /\ r.kc \in stranded' \/ \A x \in kc : x.id # r.kc]_vars

(* A person without Kontexte for 84 days is deleted in the end, also if     *)
(* calls fail and the process restarts; unless a Kontext comes after all or *)
(* the date is lost (PUT).                                                  *)
Overdue(p) == p \notin assigned /\ \E r \in RowsOf(p) : r.unassigned = "due"
WithoutOrgDeleted == \A p \in Persons : Overdue(p) ~> ~Overdue(p)
=============================================================================
