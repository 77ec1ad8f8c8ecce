------------------------------ MODULE LdapGroups ------------------------------
(***************************************************************************)
(* One person among the teachers in LDAP, as LdapEventHandler keeps it:    *)
(* an entry, and a membership in the group of each Schule with a Kontext   *)
(* of Rollenart LEHR.  A call of LdapClientService is one step here; what  *)
(* it consists of, the retries and the mutex are in LdapDirectory.  A      *)
(* handler of PersonenkontextUpdated makes its calls in any order, but     *)
(* creates when all removals are done.  Handlers of several events go on   *)
(* at the same time.                                                       *)
(***************************************************************************)
EXTENDS Naturals, FiniteSets

CONSTANTS
  Kennungen,    \* organisations with a Kennung
  LehrRollen,   \* Rollen of Rollenart LEHR
  LdapNames     \* usernames

VARIABLES
  entries,     \* usernames with an entry
  members,     \* [Kennungen -> usernames in its group]
  ldapTasks,   \* handlers in progress
  lingering,   \* history: a teacher's Kontext has gone, one with another Rolle stays
  leftOut      \* history: the migration left out a teacher's Kontext

ldapVars == <<entries, members, ldapTasks, lingering, leftOut>>

LehrerAt(kontexte) == {k.orga : k \in {x \in kontexte : x.rolle \in LehrRollen}} \intersect Kennungen
GroupsOf(u) == {s \in Kennungen : u \in members[s]}

LdapTypeOK ==
  /\ entries \subseteq LdapNames
  /\ members \in [Kennungen -> SUBSET LdapNames]
  /\ lingering \subseteq Kennungen /\ leftOut \subseteq Kennungen
  /\ \A t \in ldapTasks : \/ t.op = "kontexte" /\ t.remove \union t.create \in (SUBSET Kennungen) \ {{}}
                          \/ t.op = "renamed" /\ {t.old, t.name} \subseteq LdapNames
                          \/ t.op \in {"deleted", "migration"} /\ t.name \in LdapNames

\* Mutant: a Kontext at any organisation keeps the person in the group.
HatZuordnungNachLoeschen_Any(current, s) == current # {}

\* hatZuordnungZuOrganisationNachLoeschen, with whatever Rolle
HatZuordnungNachLoeschen(current, s) == s \in {k.orga : k \in current}

\* handlePersonenkontextUpdatedEvent, for event number e
LdapUpdate(e, name, new, removed, current) ==
  {t \in {[op |-> "kontexte", event |-> e, name |-> name, create |-> LehrerAt(new),
           remove |-> {s \in LehrerAt(removed) : ~HatZuordnungNachLoeschen(current, s)}]} :
     t.remove \union t.create # {}}

LdapRenamed(old, name) == [op |-> "renamed", old |-> old, name |-> name]
LdapDeleted(name) == [op |-> "deleted", name |-> name]

StartLdap(T, kept) ==
  /\ ldapTasks' = ldapTasks \union T
  /\ lingering' = lingering \union kept
  /\ UNCHANGED <<entries, members, leftOut>>

\* PersonenkontextCreatedMigration, for a Kontext and a standard run or another
StartLdapMigration(e, name, k, standard) ==
  /\ ldapTasks' = ldapTasks \union
       (IF standard THEN {[op |-> "migration", event |-> e, name |-> name, at |-> s] : s \in LehrerAt({k})} ELSE {})
  /\ leftOut' = leftOut \union (IF standard THEN {} ELSE LehrerAt({k}))
  /\ UNCHANGED <<entries, members, lingering>>

Ends(t) == ldapTasks' = ldapTasks \ {t} /\ UNCHANGED <<lingering, leftOut>>

\* One call of the handler is done.
OneLess(t, field, s) ==
  LET next == [t EXCEPT ![field] = @ \ {s}] IN
  /\ ldapTasks' = (ldapTasks \ {t}) \union (IF next.remove \union next.create = {} THEN {} ELSE {next})
  /\ UNCHANGED <<lingering, leftOut>>

Join(u, s) == members' = [members EXCEPT ![s] = @ \union {u}]
Leave(u, s) == members' = [members EXCEPT ![s] = @ \ {u}]
\* Mutant: the groups keep the former name.
EntryRenamed_EntryOnly(old, name) ==
  /\ entries' = {IF u = old THEN name ELSE u : u \in entries}
  /\ UNCHANGED members

EntryRenamed(old, name) ==
  LET New(u) == IF u = old THEN name ELSE u IN
  /\ entries' = {New(u) : u \in entries}
  /\ members' = [s \in Kennungen |-> {New(u) : u \in members[s]}]

\* removePersonFromGroupByUsernameAndKennung
RemovePersonFromGroup(t) ==
  /\ t.op = "kontexte"
  /\ \E s \in t.remove : Leave(t.name, s) /\ OneLess(t, "remove", s)
  /\ UNCHANGED entries

\* createLehrer, for a Schule at which there may be an entry already
CreateLehrer(t) ==
  /\ t.op = "kontexte" /\ t.remove = {}
  /\ \E s \in t.create : Join(t.name, s) /\ OneLess(t, "create", s)
  /\ entries' = entries \union {t.name}

\* modifyPersonAttributes: an entry that is not there is an error, and so is one
\* that is there under the new name.
ModifyPersonAttributes(t) ==
  /\ t.op = "renamed" /\ Ends(t)
  /\ IF t.old \in entries /\ t.name \notin entries THEN EntryRenamed(t.old, t.name)
     ELSE UNCHANGED <<entries, members>>

\* deleteLehrerByReferrer: the groups stay as they are.
DeleteLehrer(t) ==
  /\ t.op = "deleted" /\ Ends(t)
  /\ entries' = entries \ {t.name} /\ UNCHANGED members

\* isLehrerExisting: a teacher who has an entry is left as it is, the group too.
IsLehrerExisting(t) ==
  /\ t.op = "migration"
  /\ ldapTasks' = (ldapTasks \ {t}) \union
       {[op |-> "kontexte", event |-> t.event, name |-> t.name, create |-> {t.at}, remove |-> {}] :
          u \in {t.name} \ entries}
  /\ leftOut' = leftOut \union (IF t.name \in entries THEN {t.at} ELSE {})
  /\ UNCHANGED <<entries, members, lingering>>

LdapStep(t) == IsLehrerExisting(t) \/ RemovePersonFromGroup(t) \/ CreateLehrer(t) \/ ModifyPersonAttributes(t) \/ DeleteLehrer(t)

\* A call fails in the end; a part of it may have been done.  Errors are logged, and
\* the handler goes on with its other calls.
LdapCallFails(t) ==
  \/ /\ t.op \in {"renamed", "deleted", "migration"} /\ Ends(t) /\ UNCHANGED members
     /\ \/ UNCHANGED entries
        \/ t.op = "renamed" /\ t.old \in entries /\ entries' = (entries \ {t.old}) \union {t.name}
  \/ /\ t.op = "kontexte" /\ UNCHANGED entries
     /\ \/ \E s \in t.remove : OneLess(t, "remove", s) /\ (Leave(t.name, s) \/ UNCHANGED members)
        \/ t.remove = {} /\ \E s \in t.create : OneLess(t, "create", s) /\ (Join(t.name, s) \/ UNCHANGED members)
=============================================================================
