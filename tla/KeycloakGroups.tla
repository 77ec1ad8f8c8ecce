---------------------------- MODULE KeycloakGroups ----------------------------
(***************************************************************************)
(* The Keycloak groups of one person.  A service provider may have a group *)
(* in Keycloak; who has a Rolle with this provider is to be in the group.  *)
(* KeycloackServiceProviderHandler follows PersonenkontextUpdated: for     *)
(* every Rolle that has come or gone it starts an update, and all updates  *)
(* of an event, and those of other events, run at the same time.           *)
(***************************************************************************)
EXTENDS Naturals, FiniteSets

CONSTANTS
  Rollen,
  KeycloakGroup,   \* [Rollen -> groups of its service providers]
  Groups           \* the groups that Keycloak has

ASSUME GroupsAssumption == \A r \in Rollen : KeycloakGroup[r] \subseteq Groups

VARIABLES
  groups,    \* the groups the user is in
  updates    \* calls of updateUserGroups in progress

groupVars == <<groups, updates>>

ServiceProviderGroups(rollen) == UNION {KeycloakGroup[r] : r \in rollen}

Update == [event : Nat, rolle : Rollen, remove : BOOLEAN, at : {"list", "modify"}, names : SUBSET Groups]

GroupsTypeOK ==
  /\ groups \subseteq Groups
  /\ updates \subseteq Update

\* Mutant: the groups of the Rollen that stay are not taken off.
FilteredDifference_All(changing, kept) == KeycloakGroup[changing]

\* fetchFilteredRolesDifference
FilteredDifference(changing, kept) == KeycloakGroup[changing] \ ServiceProviderGroups(kept)

\* handlePersonenkontextUpdatedEvent for event number e, with the Rollen of its
\* new, removed and current Kontexte.  Two updates of one Rolle, for two new
\* Kontexte with it, are one.
UpdatesOf(e, new, removed, current) ==
  LET kept == current \ new
      Of(r, remove) == [event |-> e, rolle |-> r, remove |-> remove, at |-> "list",
                        names |-> FilteredDifference(r, kept)]
      assigns == IF current = {} THEN {} ELSE {Of(r, FALSE) : r \in new \ removed}
      removals == {Of(r, TRUE) : r \in removed \ new}
  IN {u \in assigns \union removals : u.names # {}}

\* modifyRealmGroupsForUser: the user's groups are listed, ...
ListGroups(u) ==
  /\ u.at = "list"
  /\ LET todo == IF u.remove THEN u.names \intersect groups ELSE u.names \ groups IN
     updates' = (updates \ {u}) \union
                (IF todo = {} THEN {} ELSE {[u EXCEPT !.at = "modify", !.names = todo]})
  /\ UNCHANGED groups

\* ... and changed one by one.
ModifyGroup(u) ==
  /\ u.at = "modify"
  /\ \E g \in u.names :
       /\ groups' = IF u.remove THEN groups \ {g} ELSE groups \union {g}
       /\ updates' = (updates \ {u}) \union
                     (IF u.names = {g} THEN {} ELSE {[u EXCEPT !.names = @ \ {g}]})

\* A call of Keycloak fails, and the rest is left out; the last change may have
\* been made all the same.
UpdateFails(u) ==
  /\ updates' = updates \ {u}
  /\ \/ UNCHANGED groups
     \/ /\ u.at = "modify"
        /\ \E g \in u.names : groups' = IF u.remove THEN groups \ {g} ELSE groups \union {g}
=============================================================================
