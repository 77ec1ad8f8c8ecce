---------------------------- MODULE EmailAddresses ----------------------------
(***************************************************************************)
(* The email addresses of ONE person: rows of table email_address, and the *)
(* chain of event handlers that leads from a change of the person's        *)
(* Kontexte, Rolle or name to an account in Open-Xchange (OX), from there  *)
(* to the attribute ID_OX in Keycloak, and back to the status of the       *)
(* address (EmailEventHandler, OxEventHandler, KeycloakEventHandler).      *)
(*                                                                         *)
(* Events are handled in memory: publish runs each handler up to its first *)
(* await, and nothing waits for it.  So a handler in progress is a record  *)
(* in the set tasks; a step of it is what it does between two awaits, and  *)
(* publishing an event puts the handlers of the event into the set.  Other *)
(* handlers of the same events (LDAP, itslearning) are not in this module. *)
(*                                                                         *)
(* A session is one request, with everything its events cause: it has one  *)
(* copy of the person, whose collection of addresses keeps the order it    *)
(* was loaded in.                                                          *)
(***************************************************************************)
EXTENDS Integers, Sequences, FiniteSets

CONSTANTS
  Sessions,      \* requests, each with all it causes
  Schools,       \* schools a person can be a teacher at
  MaxAddresses,  \* bound: rows of the person
  MaxNames,      \* bound: usernames of the person, one after the other
  MaxFaults,     \* bound: calls and handlers that fail
  MaxOverlaps    \* bound: sessions that begin while another is in progress

ASSUME BoundsAssumption ==
  /\ MaxAddresses \in Nat \ {0} /\ MaxNames \in Nat \ {0} /\ MaxFaults \in Nat /\ MaxOverlaps \in Nat

Slots == 1 .. MaxAddresses
\* The address as a string, or what a row of an address that could not be made
\* up has in its place: the id of the person and the time.
Texts == 0 .. 2 * MaxAddresses
IsAddress(text) == text \in 1 .. MaxAddresses
OxIds == 1 .. MaxNames
Names == 1 .. MaxNames
EmailAddressStatus == {"REQUESTED", "ENABLED", "DISABLED", "FAILED"}
\* oxUserID is 0 for undefined.
EmailAddress == [status : EmailAddressStatus, ox : OxIds \union {0}, text : Texts]
NoRow == [status |-> "none", ox |-> 0, text |-> 0]
NoUser == [name |-> 0, primary |-> 0]

Purposes == {"none", "enable", "create", "change", "disabled", "disable", "rename", "oxid",
             "confirm", "failed", "deleted"}

VARIABLES
  row,      \* table email_address
  order,    \* the person's rows, most recently updated first
  person,   \* does the row exist; the username
  schools,  \* schools of the person's Kontexte
  offers,   \* has the Rolle of these Kontexte a service provider for email
  oxUser,   \* the users of OX that stand for the person
  member,   \* the users among them in the group "lehrer-" of each school
  keycloak, \* attribute ID_OX of the user: "unset", "set", or the user is "gone"
  loaded,   \* the collection emailAddresses in each session's copy of the person
  username, \* the username there; 0 before the session begins
  tasks,    \* the handlers in progress
  faults,   \* failed calls and handlers so far
  overlaps, \* history: sessions that began while another was in progress
  crowd     \* history: did a first address become due for several schools at once

table   == <<row, order>>
ox      == <<oxUser, member>>
copy    == <<loaded, username>>
trouble == <<faults, overlaps, crowd>>
vars    == <<table, person, schools, offers, ox, keycloak, copy, tasks, trouble>>

\* A handler in progress: its session, the next step, and what it knows.
\* held has the addresses it will save, by row, 0 being a new one.
Task(q, at) ==
  [q |-> q, at |-> at, for |-> "none", school |-> {}, todo |-> {}, held |-> <<>>,
   ox |-> 0, text |-> 0, any |-> FALSE]

\* One step of handler t, which goes on as, or publishes to, the handlers in T.
Do(t, T) == t \in tasks /\ tasks' = (tasks \ {t}) \union T
At(t, step) == t \in tasks /\ t.at = step

Fault ==
  /\ faults < MaxFaults
  /\ faults' = faults + 1 /\ UNCHANGED <<overlaps, crowd>>

-----------------------------------------------------------------------------
(* EmailRepo and PersonRepository                                          *)

\* findByPersonSortedByUpdatedAtDesc; deleting the person detaches the rows.
Addresses == IF person.exists THEN order ELSE <<>>

\* The first of a sequence of rows with a status in S, 0 if there is none.
FirstOf(seq, S) ==
  LET I == {i \in 1 .. Len(seq) : row[seq[i]].status \in S}
  IN IF I = {} THEN 0 ELSE seq[CHOOSE i \in I : \A j \in I : i <= j]

Newest(S) == FirstOf(Addresses, S)
\* findEnabledByPerson
Enabled == {a \in Slots : person.exists /\ row[a].status = "ENABLED"}

\* getOxUserId, getEnabledOrAlternativeEmailAddress of the session's person.
OxUserId(q) ==
  LET a == FirstOf(loaded[q], EmailAddressStatus \ {"FAILED"}) IN IF a = 0 THEN 0 ELSE row[a].ox
EmailOf(seq) ==
  LET a == FirstOf(seq, {"ENABLED"}) IN
  CASE a # 0                 -> row[a].text
    [] a = 0 /\ seq = <<>>   -> 0
    [] a = 0 /\ seq # <<>>   -> row[Head(seq)].text

UsedTexts == {row[a].text : a \in Slots}
\* create, update: address is unique, and person_id has a foreign key.
CanWrite(a, m) ==
  /\ person.exists
  /\ \A b \in Slots \ {a} : row[b].text # m.text

\* The sequence with a, which is in it, moved to the front.
ToFront(seq, a) ==
  LET p == CHOOSE i \in 1 .. Len(seq) : seq[i] = a
  IN [i \in 1 .. Len(seq) |-> CASE i = 1 -> a [] i > 1 /\ i <= p -> seq[i - 1] [] OTHER -> seq[i]]
Update(a, m) ==
  /\ row' = [row EXCEPT ![a] = m]
  /\ order' = IF m = row[a] THEN order ELSE ToFront(order, a)
  /\ UNCHANGED loaded
Create(q, m) ==
  LET a == Len(order) + 1 IN
  /\ a \in Slots
  /\ row' = [row EXCEPT ![a] = m]
  /\ order' = <<a>> \o order
  /\ loaded' = [loaded EXCEPT ![q] = Append(@, a)]


\* The one row a handler holds, and what it will write there.
Holding(t, a, m) == [t EXCEPT !.held = [b \in {a} |-> m]]
Held(t) == CHOOSE a \in DOMAIN t.held : TRUE
Status(t, st) == Holding(t, Held(t), [t.held[Held(t)] EXCEPT !.status = st])
Goes(t, step) == [t EXCEPT !.at = step]
Saves(t, step, purpose) == [t EXCEPT !.at = step, !.for = purpose]

-----------------------------------------------------------------------------
(* EmailEventHandler: what its save is for, and how it goes on             *)

\* createOrEnableEmail returns to the loop over the schools.
Loop(t) ==
  IF t.todo = {} THEN {}
  ELSE {[Task(t.q, "school") EXCEPT !.todo = t.todo]}
Generated(t) == [Task(t.q, "create") EXCEPT !.school = t.school]

AfterSaved(t) ==
  CASE t.for \in {"enable", "create"} -> Loop(t) \union {Generated(t)}
    [] t.for = "failed"               -> Loop(t)
    [] t.for = "change"               -> {Saves(Task(t.q, "change"), "change", "confirm")}
    [] t.for = "disabled"             -> {Saves(Task(t.q, "change"), "change", "disabled")}
    [] t.for = "rename"               -> {[Saves(Task(t.q, "generate"), "generate", "change")
                                             EXCEPT !.school = t.school]}
    [] t.for = "oxid"                 -> {Goes(t, "join")}
    [] t.for \in {"confirm", "disable"} -> {}

\* PersonAlreadyHasEnabledEmailAddressError
AfterRefused(t) ==
  CASE t.for \in {"enable", "create"} -> Loop(t)
    [] t.for = "oxid"                 -> {Saves(Status(t, "FAILED"), "write", "failed")}
    [] t.for \in {"change", "disabled", "confirm"} -> {}

\* Mutant: the enabled address is not looked for.
CheckSave_Skipped(t) ==
  /\ At(t, "save")
  /\ Do(t, {Goes(t, "write")})
  /\ UNCHANGED <<table, person, schools, offers, ox, keycloak, copy, trouble>>

\* save of an address that is ENABLED or REQUESTED.
CheckSave(t) ==
  /\ At(t, "save")
  /\ Do(t, IF Enabled = {} THEN {Goes(t, "write")} ELSE AfterRefused(t))
  /\ UNCHANGED <<table, person, schools, offers, ox, keycloak, copy, trouble>>

Write(t) ==
  LET a == Held(t) IN
  /\ At(t, "write")
  /\ IF CanWrite(a, t.held[a])
     THEN /\ IF a = 0 THEN Create(t.q, t.held[a]) ELSE Update(a, t.held[a])
          /\ Do(t, AfterSaved(t))
     ELSE Do(t, {}) /\ UNCHANGED <<table, loaded>>
  /\ UNCHANGED <<person, schools, offers, ox, keycloak, username, trouble>>

\* handlePerson: is there a Rolle with an email service provider.  Kontexte that
\* a deletion is about to remove do not count.
HandlePerson(t) ==
  LET S == IF offers /\ person.exists THEN schools \ t.school ELSE {} IN
  /\ At(t, "person")
  /\ Do(t, {IF S = {} THEN Task(t.q, "without") ELSE [Task(t.q, "school") EXCEPT !.todo = S]})
  /\ UNCHANGED <<table, person, schools, offers, ox, keycloak, copy, trouble>>

\* createOrEnableEmail for the next school.
CreateOrEnable(t) ==
  /\ At(t, "school")
  /\ \E s \in t.todo :
       LET a    == Newest({"ENABLED", "DISABLED"})
           next == [t EXCEPT !.school = {s}, !.todo = @ \ {s}]
           goes == CASE a = 0 -> {Saves(next, "generate", "create")}
                     [] a # 0 /\ row[a].status = "ENABLED" -> Loop(next)
                     [] a # 0 /\ row[a].status = "DISABLED" ->
                          {Holding(Saves(next, "save", "enable"), a,
                                   [row[a] EXCEPT !.status = "ENABLED"])}
       IN Do(t, goes \union
             (IF Addresses = <<>> THEN {}
              ELSE {[Task(t.q, "alreadyExists") EXCEPT !.school = {s}]}))
  /\ UNCHANGED <<table, person, schools, offers, ox, keycloak, copy, trouble>>

\* EmailFactory and EmailGenerator: the next address that is not in use, or
\* none, as for a Schule without email domain, and a row that says FAILED.
Generate(t) ==
  /\ At(t, "generate")
  /\ \/ /\ Slots \ UsedTexts # {}
        /\ LET n == CHOOSE n \in Slots \ UsedTexts : \A m \in Slots \ UsedTexts : n <= m
           IN Do(t, {Holding(Goes(t, "save"), 0, [status |-> "REQUESTED", ox |-> 0, text |-> n])})
        /\ UNCHANGED trouble
     \/ /\ Fault
        /\ Do(t, {Holding(Saves(t, "write", "failed"), 0, [status |-> "FAILED", ox |-> 0,
                                                     text |-> MaxAddresses + Len(order) + 1])})
  /\ UNCHANGED <<table, person, schools, offers, ox, keycloak, copy>>

\* handlePersonWithoutEmailSPReference reads the addresses not yet DISABLED,
DisableRead(t) ==
  LET A == {a \in Slots : person.exists /\ row[a].status \in EmailAddressStatus \ {"DISABLED"}} IN
  /\ At(t, "without")
  /\ Do(t, IF A = {} THEN {}
           ELSE {[Goes(t, "disable") EXCEPT
                   !.held = [a \in A |-> [row[a] EXCEPT !.status = "DISABLED"]]]})
  /\ UNCHANGED <<table, person, schools, offers, ox, keycloak, copy, trouble>>

\* saves them in any order, whatever becomes of one,
DisableOne(t) ==
  /\ At(t, "disable")
  /\ \E a \in DOMAIN t.held :
       LET rest == [t EXCEPT !.held = [b \in DOMAIN t.held \ {a} |-> t.held[b]]] IN
       \/ /\ CanWrite(a, t.held[a])
          /\ Update(a, t.held[a])
          /\ Do(t, {[rest EXCEPT !.any = TRUE]})
          /\ UNCHANGED trouble
       \/ /\ IF CanWrite(a, t.held[a]) THEN Fault ELSE UNCHANGED trouble
          /\ Do(t, {rest})
          /\ UNCHANGED <<table, loaded>>
  /\ UNCHANGED <<person, schools, offers, ox, keycloak, username>>

\* and publishes EmailAddressDisabledEvent if one was saved.
DisableDone(t) ==
  /\ At(t, "disable") /\ t.held = <<>>
  /\ Do(t, IF t.any THEN {Task(t.q, "disabledInOx"), Task(t.q, "disabledInKeycloak")} ELSE {})
  /\ UNCHANGED <<table, person, schools, offers, ox, keycloak, copy, trouble>>

\* handleLdapPersonEntryRenamedEvent
HandleRenamed(t) ==
  /\ At(t, "renamed")
  /\ IF offers /\ person.exists /\ schools # {}
     THEN \E s \in schools : Do(t, {[Task(t.q, "renamedWith") EXCEPT !.school = {s}]})
     ELSE Do(t, {Task(t.q, "renamedWithout")})
  /\ UNCHANGED <<table, person, schools, offers, ox, keycloak, copy, trouble>>

RenamedWith(t) ==
  /\ At(t, "renamedWith")
  /\ \/ Enabled = {} /\ Do(t, {Saves(t, "generate", "create")})
     \/ \E a \in Enabled :
          Do(t, {Holding(Saves(t, "write", "rename"), a, [row[a] EXCEPT !.status = "DISABLED"])})
  /\ UNCHANGED <<table, person, schools, offers, ox, keycloak, copy, trouble>>

RenamedWithout(t) ==
  LET a == Newest({"DISABLED"}) IN
  /\ At(t, "renamedWithout")
  /\ Do(t, IF a = 0 \/ ~IsAddress(row[a].text) THEN {} ELSE {Saves(t, "generate", "disabled")})
  /\ UNCHANGED <<table, person, schools, offers, ox, keycloak, copy, trouble>>

\* handleOxMetadataInKeycloakChangedEvent takes over the address OX has.
Confirm(t) ==
  LET a == Newest({"REQUESTED"}) IN
  /\ At(t, "confirm")
  /\ Do(t, IF a = 0 THEN {}
           ELSE {Holding(Saves(t, "save", "confirm"), a,
                         [status |-> "ENABLED", ox |-> t.ox, text |-> t.text])})
  /\ UNCHANGED <<table, person, schools, offers, ox, keycloak, copy, trouble>>

\* handleDisabledOxUserChangedEvent
ConfirmDisabled(t) ==
  LET a == Newest({"REQUESTED"}) IN
  /\ At(t, "confirmDisabled")
  /\ Do(t, IF a = 0 THEN {}
           ELSE {Holding(Saves(t, "write", "disable"), a,
                         [row[a] EXCEPT !.status = "DISABLED", !.ox = t.ox])})
  /\ UNCHANGED <<table, person, schools, offers, ox, keycloak, copy, trouble>>

\* Mutant: the row gets a status of its own.
Deactivate_OwnStatus(t) ==
  /\ At(t, "deactivate")
  /\ row' = [a \in Slots |-> IF row[a] # NoRow /\ row[a].text = t.text
                             THEN [row[a] EXCEPT !.status = "DEACTIVATED"] ELSE row[a]]
  /\ Do(t, {})
  /\ UNCHANGED <<order, person, schools, offers, ox, keycloak, copy, trouble>>

\* handlePersonDeletedEvent, deactivateEmailAddress
Deactivate(t) ==
  /\ At(t, "deactivate")
  /\ row' = [a \in Slots |-> IF row[a] # NoRow /\ row[a].text = t.text
                             THEN [row[a] EXCEPT !.status = "DISABLED"] ELSE row[a]]
  /\ Do(t, {})
  /\ UNCHANGED <<order, person, schools, offers, ox, keycloak, copy, trouble>>

-----------------------------------------------------------------------------
(* OxEventHandler.  Each call to OX is one step.  A group is found by its   *)
(* name or created; that, like any call, may fail.                         *)

Used(name) == \E u \in OxIds : oxUser[u].name = name

\* createOxUser, on EmailAddressGeneratedEvent
CreateRead(t) ==
  LET a == Newest({"REQUESTED"}) IN
  /\ At(t, "create")
  /\ Do(t, IF a = 0 THEN {} ELSE {Holding(Goes(t, "exists"), a, row[a])})
  /\ UNCHANGED <<table, person, schools, offers, ox, keycloak, copy, trouble>>

CreateExists(t) ==
  /\ At(t, "exists")
  /\ Do(t, IF Used(username[t.q]) THEN {} ELSE {Goes(t, "oxCreate")})
  /\ UNCHANGED <<table, person, schools, offers, ox, keycloak, copy, trouble>>

Failed(t) == {Saves(Status(t, "FAILED"), "write", "failed")}

CreateUser(t) ==
  LET m    == t.held[Held(t)]
      Free == {u \in OxIds : oxUser[u] = NoUser}
      u    == CHOOSE u \in Free : \A v \in Free : u <= v
  IN
  /\ At(t, "oxCreate")
  /\ \/ /\ ~Used(username[t.q]) /\ Free # {}
        /\ oxUser' = [oxUser EXCEPT ![u] = [name |-> username[t.q], primary |-> m.text]]
        /\ Do(t, {[Holding(Saves(t, "save", "oxid"), Held(t), [m EXCEPT !.ox = u])
                     EXCEPT !.ox = u, !.text = m.text]})
        /\ UNCHANGED trouble
     \/ /\ IF Used(username[t.q]) THEN UNCHANGED trouble ELSE Fault
        /\ Do(t, Failed(t))
        /\ UNCHANGED oxUser
  /\ UNCHANGED <<table, person, schools, offers, member, keycloak, copy>>

\* handleEmailAddressAlreadyExistsEvent
AlreadyExists(t) ==
  /\ At(t, "alreadyExists")
  /\ Do(t, IF ~person.exists \/ OxUserId(t.q) = 0 THEN {}
           ELSE {[Goes(t, "join") EXCEPT !.ox = OxUserId(t.q), !.text = EmailOf(loaded[t.q])]})
  /\ UNCHANGED <<table, person, schools, offers, ox, keycloak, copy, trouble>>

\* Both add the user to the group of the school and publish OxUserChangedEvent.
\* What OX answers to a user who is a member already is left open.
Join(t) ==
  LET fails == IF t.held = <<>> THEN {} ELSE Failed(t) IN
  /\ At(t, "join")
  /\ \E s \in t.school :
       \/ /\ member' = [member EXCEPT ![s] = @ \union {t.ox}]
          /\ Do(t, {[Saves(Task(t.q, "keycloakSet"), "keycloakSet", "confirm")
                       EXCEPT !.ox = t.ox, !.text = t.text]})
          /\ UNCHANGED trouble
       \/ /\ IF t.ox \in member[s] THEN UNCHANGED trouble ELSE Fault
          /\ Do(t, fails)
          /\ UNCHANGED member
  /\ UNCHANGED <<table, person, schools, offers, oxUser, keycloak, copy>>

\* changeOxUser, on EmailAddressChangedEvent and DisabledEmailAddressGeneratedEvent
ChangeRead(t) ==
  LET a == Newest({"REQUESTED"}) IN
  /\ At(t, "change")
  /\ Do(t, IF OxUserId(t.q) = 0 \/ a = 0 THEN {}
           ELSE {[Holding(Goes(t, "oxChange"), a, row[a])
                    EXCEPT !.ox = OxUserId(t.q), !.text = row[a].text]})
  /\ UNCHANGED <<table, person, schools, offers, ox, keycloak, copy, trouble>>

\* Mutant: the user of OX keeps its primary address.
ChangeUser_KeepsPrimary(t) ==
  LET step == IF t.for = "confirm" THEN "keycloakSet" ELSE "confirmDisabled" IN
  /\ At(t, "oxChange")
  /\ oxUser' = [oxUser EXCEPT ![t.ox].name = username[t.q]]
  /\ Do(t, {[Saves(Task(t.q, step), step, t.for) EXCEPT !.ox = t.ox, !.text = t.text]})
  /\ UNCHANGED <<table, person, schools, offers, member, keycloak, copy, trouble>>

ChangeUser(t) ==
  LET step == IF t.for = "confirm" THEN "keycloakSet" ELSE "confirmDisabled" IN
  /\ At(t, "oxChange")
  /\ \/ /\ oxUser' = [oxUser EXCEPT ![t.ox] = [name |-> username[t.q], primary |-> t.text]]
        /\ Do(t, {[Saves(Task(t.q, step), step, t.for) EXCEPT !.ox = t.ox, !.text = t.text]})
        /\ UNCHANGED trouble
     \/ /\ Fault
        /\ Do(t, Failed(t))
        /\ UNCHANGED oxUser
  /\ UNCHANGED <<table, person, schools, offers, member, keycloak, copy>>

\* handlePersonenkontextUpdatedEvent: out of the groups of the schools left.
LeaveRead(t) ==
  /\ At(t, "leaveRead")
  /\ Do(t, IF ~person.exists \/ OxUserId(t.q) = 0 THEN {}
           ELSE {[Goes(t, "leave") EXCEPT !.ox = OxUserId(t.q), !.todo = t.school]})
  /\ UNCHANGED <<table, person, schools, offers, ox, keycloak, copy, trouble>>

\* handleEmailAddressDisabledEvent
DisabledInOx(t) ==
  /\ At(t, "disabledInOx")
  /\ Do(t, IF ~person.exists \/ OxUserId(t.q) = 0 THEN {}
           ELSE {[Goes(t, "list") EXCEPT !.ox = OxUserId(t.q)]})
  /\ UNCHANGED <<table, person, schools, offers, ox, keycloak, copy, trouble>>

\* handlePersonDeletedEvent finds the user by the address.
DeletedInOx(t) ==
  LET A == {a \in Slots : row[a] # NoRow /\ row[a].text = t.text /\ row[a].ox # 0} IN
  /\ At(t, "deleted")
  /\ Do(t, {[Saves(t, "list", "deleted") EXCEPT !.ox = row[a].ox] : a \in A})
  /\ UNCHANGED <<table, person, schools, offers, ox, keycloak, copy, trouble>>

\* removeOxUserFromAllItsOxGroups
AfterGroups(t) == IF t.for = "deleted" THEN {Goes(t, "retire")} ELSE {}

ListGroups(t) ==
  /\ At(t, "list")
  /\ \/ /\ Do(t, {[Goes(t, "leave") EXCEPT !.todo = {s \in Schools : t.ox \in member[s]}]})
        /\ UNCHANGED trouble
     \/ Fault /\ Do(t, AfterGroups(t))
  /\ UNCHANGED <<table, person, schools, offers, ox, keycloak, copy>>

\* Mutant: only the first of the groups is left.
Leave_First(t) ==
  /\ At(t, "leave") /\ t.todo # {}
  /\ \E s \in t.todo : member' = [member EXCEPT ![s] = @ \ {t.ox}]
  /\ Do(t, {[t EXCEPT !.todo = {}]})
  /\ UNCHANGED <<table, person, schools, offers, oxUser, keycloak, copy, trouble>>

\* One group after the other, whether a removal succeeds or not.
Leave(t) ==
  /\ At(t, "leave") /\ t.todo # {}
  /\ \E s \in t.todo :
       /\ Do(t, {[t EXCEPT !.todo = @ \ {s}]})
       /\ \/ member' = [member EXCEPT ![s] = @ \ {t.ox}] /\ UNCHANGED trouble
          \/ Fault /\ UNCHANGED member
  /\ UNCHANGED <<table, person, schools, offers, oxUser, keycloak, copy>>

LeaveDone(t) ==
  /\ At(t, "leave") /\ t.todo = {}
  /\ Do(t, AfterGroups(t))
  /\ UNCHANGED <<table, person, schools, offers, ox, keycloak, copy, trouble>>

\* The user gets the id of the address for a name.
Retire(t) ==
  /\ At(t, "retire")
  /\ Do(t, {})
  /\ \/ oxUser' = [oxUser EXCEPT ![t.ox].name = 0] /\ UNCHANGED trouble
     \/ Fault /\ UNCHANGED oxUser
  /\ UNCHANGED <<table, person, schools, offers, member, keycloak, copy>>

-----------------------------------------------------------------------------
(* KeycloakEventHandler                                                    *)

\* The user is found by the username the event has.
Finds(t) == keycloak # "gone" /\ username[t.q] = person.name

\* handleOxUserChangedEvent publishes OxMetadataInKeycloakChangedEvent.
KeycloakSet(t) ==
  /\ At(t, "keycloakSet")
  /\ \/ /\ Finds(t)
        /\ keycloak' = "set"
        /\ Do(t, {[Task(t.q, "confirm") EXCEPT !.ox = t.ox, !.text = t.text]})
        /\ UNCHANGED trouble
     \/ /\ IF Finds(t) THEN Fault ELSE UNCHANGED trouble
        /\ Do(t, {})
        /\ UNCHANGED keycloak
  /\ UNCHANGED <<table, person, schools, offers, ox, copy>>

\* handleEmailAddressDisabledEvent
KeycloakUnset(t) ==
  /\ At(t, "disabledInKeycloak")
  /\ Do(t, {})
  /\ \/ keycloak' = (IF Finds(t) THEN "unset" ELSE keycloak) /\ UNCHANGED trouble
     \/ Fault /\ UNCHANGED keycloak
  /\ UNCHANGED <<table, person, schools, offers, ox, copy>>

-----------------------------------------------------------------------------
(* Sessions                                                                *)

\* Request q begins, and loads the person under the name it goes by afterwards.
Begin(q, name) ==
  /\ username[q] = 0 /\ person.exists /\ keycloak # "gone"
  /\ loaded' = [loaded EXCEPT ![q] = order]
  /\ username' = [username EXCEPT ![q] = name]
  /\ IF tasks = {} THEN UNCHANGED <<faults, overlaps>>
     ELSE overlaps < MaxOverlaps /\ overlaps' = overlaps + 1 /\ UNCHANGED faults

\* Is an address to be requested, and for more than one school?
Crowds(S, offered) ==
  Newest({"ENABLED", "DISABLED"}) = 0 /\ offered /\ \E s, t \in S : s # t

\* PersonenkontextUpdatedEvent.  The Kontexte removed are gone from the table.
ChangeKontexte(q, S) ==
  /\ S # schools
  /\ Begin(q, person.name)
  /\ schools' = S
  /\ crowd' = (crowd \/ Crowds(S, offers))
  /\ tasks' = tasks \union
       {Task(q, "person"), [Task(q, "leaveRead") EXCEPT !.school = schools \ S]}
  /\ UNCHANGED <<table, person, offers, ox, keycloak>>

\* RolleUpdatedEvent, after the email service provider was assigned or taken away.
ChangeRolle(q) ==
  /\ schools # {}
  /\ Begin(q, person.name)
  /\ offers' = ~offers
  /\ crowd' = (crowd \/ Crowds(schools, ~offers))
  /\ tasks' = tasks \union {Task(q, "person")}
  /\ UNCHANGED <<table, person, schools, ox, keycloak>>

\* LdapPersonEntryRenamedEvent, once Keycloak, the table and LDAP have the new name.
Rename(q) ==
  /\ person.name + 1 \in Names
  /\ Begin(q, person.name + 1)
  /\ person' = [person EXCEPT !.name = @ + 1]
  /\ tasks' = tasks \union {Task(q, "renamed")}
  /\ UNCHANGED <<table, schools, offers, ox, keycloak, crowd>>

\* deletePerson publishes both events before the row is gone.
Delete(q) ==
  /\ Begin(q, person.name)
  /\ keycloak' = "gone"
  /\ tasks' = tasks \union
       {[Task(q, "person") EXCEPT !.school = schools],
        [Task(q, "leaveRead") EXCEPT !.school = schools],
        [Task(q, "deactivate") EXCEPT !.text = EmailOf(order)],
        [Task(q, "deleted") EXCEPT !.text = EmailOf(order)],
        Task(q, "deleteRow")}
  /\ UNCHANGED <<table, person, schools, offers, ox, crowd>>

DeleteRow(t) ==
  /\ At(t, "deleteRow")
  /\ Do(t, {})
  /\ person' = [person EXCEPT !.exists = FALSE]
  /\ schools' = {}
  /\ UNCHANGED <<table, offers, ox, keycloak, copy, trouble>>

\* A call to the database fails, and the handler ends with an exception.
Throws(t) ==
  /\ t.at \notin {"deleteRow"}
  /\ Fault
  /\ Do(t, {})
  /\ UNCHANGED <<table, person, schools, offers, ox, keycloak, copy>>

\* The backend restarts: what was in memory is lost.
Restart ==
  /\ Cardinality(tasks) > 1
  /\ Fault
  /\ tasks' = {}
  /\ UNCHANGED <<table, person, schools, offers, ox, keycloak, copy>>

\* A person without address, or with one that is enabled, or disabled when no
\* Rolle gives a right to it.
Init ==
  /\ schools \in SUBSET Schools
  /\ offers \in BOOLEAN
  /\ \E known \in BOOLEAN :
       LET entitled == IF offers THEN schools ELSE {} IN
       /\ entitled # {} => known
       /\ row = [a \in Slots |->
                  IF known /\ a = 1
                  THEN [status |-> IF entitled = {} THEN "DISABLED" ELSE "ENABLED", ox |-> 1, text |-> 1]
                  ELSE NoRow]
       /\ order = IF known THEN <<1>> ELSE <<>>
       /\ oxUser = [u \in OxIds |-> IF known /\ u = 1 THEN [name |-> 1, primary |-> 1] ELSE NoUser]
       /\ member = [s \in Schools |-> IF s \in entitled THEN {1} ELSE {}]
       /\ keycloak = IF entitled = {} THEN "unset" ELSE "set"
  /\ person = [exists |-> TRUE, name |-> 1]
  /\ loaded = [q \in Sessions |-> <<>>]
  /\ username = [q \in Sessions |-> 0]
  /\ tasks = {}
  /\ faults = 0 /\ overlaps = 0 /\ crowd = FALSE

Step(t) ==
  \/ CheckSave(t) \/ Write(t)
  \/ HandlePerson(t) \/ CreateOrEnable(t) \/ Generate(t)
  \/ DisableRead(t) \/ DisableOne(t) \/ DisableDone(t)
  \/ HandleRenamed(t) \/ RenamedWith(t) \/ RenamedWithout(t)
  \/ Confirm(t) \/ ConfirmDisabled(t) \/ Deactivate(t)
  \/ CreateRead(t) \/ CreateExists(t) \/ CreateUser(t)
  \/ AlreadyExists(t) \/ Join(t) \/ ChangeRead(t) \/ ChangeUser(t)
  \/ LeaveRead(t) \/ DisabledInOx(t) \/ DeletedInOx(t)
  \/ ListGroups(t) \/ Leave(t) \/ LeaveDone(t) \/ Retire(t)
  \/ KeycloakSet(t) \/ KeycloakUnset(t) \/ DeleteRow(t)

Next ==
  \/ \E q \in Sessions, S \in SUBSET Schools : ChangeKontexte(q, S)
  \/ \E q \in Sessions : ChangeRolle(q) \/ Rename(q) \/ Delete(q)
  \/ \E t \in tasks : Step(t) \/ Throws(t)
  \/ Restart

Spec == Init /\ [][Next]_vars

-----------------------------------------------------------------------------
(* Properties                                                              *)

Entitled == IF offers /\ person.exists THEN schools ELSE {}

TypeOK ==
  /\ row \in [Slots -> EmailAddress \union {NoRow}]
  /\ order \in UNION {[1 .. n -> Slots] : n \in 0 .. MaxAddresses}
  /\ person \in [exists : BOOLEAN, name : Names]
  /\ schools \subseteq Schools
  /\ offers \in BOOLEAN
  /\ oxUser \in [OxIds -> [name : Names \union {0}, primary : Texts]]
  /\ member \in [Schools -> SUBSET OxIds]
  /\ keycloak \in {"unset", "set", "gone"}
  /\ \A t \in tasks : t.q \in Sessions /\ t.for \in Purposes /\ t.school \subseteq Schools
  /\ faults \in 0 .. MaxFaults /\ overlaps \in 0 .. MaxOverlaps
  /\ crowd \in BOOLEAN

\* When every request has been answered in full, one at a time and with no call
\* failing, everything agrees: the person has an enabled address exactly when a
\* Rolle at some school gives a right to it, the attribute is in Keycloak exactly
\* then, the user is in the groups of exactly these schools, and no address is
\* left REQUESTED.  A deleted person leaves the username free in OX, no group
\* behind and no enabled address.
Quiet == tasks = {} /\ faults = 0 /\ overlaps = 0 /\ ~crowd

QuietAgrees ==
  /\ Quiet /\ person.exists =>
       /\ Enabled = {} <=> Entitled = {}
       /\ keycloak = "set" <=> Entitled # {}
       /\ \A s \in Schools : member[s] # {} <=> s \in Entitled
       /\ Newest({"REQUESTED", "FAILED"}) = 0
  /\ Quiet /\ ~person.exists =>
       /\ \A u \in OxIds : oxUser[u].name = 0
       /\ \A s \in Schools : member[s] = {}
       /\ Enabled = {}

\* A person whose requests are handled one after the other has at most one enabled
\* address: for however many schools one is due, as long as no call fails, or
\* whichever call or handler fails, if one is due for one school at a time.  (Not
\* both, and one failure: after two failures, or one and two schools, an address
\* left REQUESTED and one left DISABLED may be enabled at the same time.)  Unless a
\* call failed, it is the one mail reaches: the primary address of the user of OX
\* that its row names, at every moment, and that user is the person's only one,
\* however often the address or the name changed.
EnabledIsPrimary ==
  overlaps = 0 =>
    /\ faults = 0 \/ (faults = 1 /\ ~crowd) => Cardinality(Enabled) <= 1
    /\ faults = 0 /\ ~crowd =>
         /\ Cardinality({u \in OxIds : oxUser[u] # NoUser}) <= 1
         /\ \A a \in Enabled : row[a].ox # 0 /\ oxUser[row[a].ox].primary = row[a].text
=============================================================================
