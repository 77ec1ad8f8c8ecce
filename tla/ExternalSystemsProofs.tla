------------------------ MODULE ExternalSystemsProofs ------------------------
(***************************************************************************)
(* What the database and another system have in common, for any number of  *)
(* requests in progress, handlers, Kontexte, tokens and rows.              *)
(*                                                                         *)
(* PersonReplicas: the groups in Keycloak, the tokens in PrivacyIDEA, the  *)
(* teacher in LDAP and the person in itslearning follow the events about a *)
(* person.  KeycloakUserLock: the locks in the table and the user in       *)
(* Keycloak agree, and nobody with a Personalnummer is locked for want of  *)
(* one, unless a call failed or a request that locks overlapped another.   *)
(***************************************************************************)
EXTENDS PersonReplicas, KeycloakUserLock, FiniteSetTheorems, TLAPS

-----------------------------------------------------------------------------
(* Replicas of a person: types                                             *)

(* The requests in progress, by what they do. *)
Requests ==
  {Idle}
  \union [op : {"update"}, at : {"read", "load", "publish"}, new : SUBSET Slots, removed : SUBSET Slots,
          current : SUBSET Slots, name : Usernames]
  \union [op : {"migration"}, at : {"save"}, kontext : Slots, standard : BOOLEAN, name : Usernames]
  \union [op : {"rename"}, at : {"publish"}, old : Usernames, name : Usernames]
  \union [op : {"delete"}, at : {"publish", "remove"}, name : Usernames]

Kontexte == [orga : Orgas, rolle : Rollen]

RolesOfPersons == {InstitutionRole(a) : a \in Rollenarten}
RolesOfMembers == {IMSESRole(a) : a \in Rollenarten}

(* Handlers that write a name, and those that write memberships. *)
NameHandlers == [op : {"renamed", "email"}, at : {"read", "person"}, name : Usernames \union {""}, role : RolesOfPersons]
KontextHandlers ==
  [op : {"updated", "sync"}, at : {"person", "memberships", "remove", "create", "delete"},
   name : Usernames, role : RolesOfPersons, kontexte : SUBSET Kontexte, has : SUBSET (Orgas \union {Root})]

(* Handlers that wait for the mutex; they write a username. *)
Named(h) == h.at = "person" \/ h.op = "renamed" => h.name \in Usernames
Waiting == {h \in Handlers : h.op # "sync" /\ Named(h)}

Syncs ==
  [id : Nat, alone : BOOLEAN,
   handler : {[op |-> "sync", at |-> "findPerson"]} \union [op : {"sync"}, at : {"findKontexte"}, name : Usernames]
             \union {h \in Handlers : h.op = "sync"}]

StepsOf(op) ==
  CASE op = "rename" -> {"exists", "list", "take", "add", "give", "deleteUser"}
    [] op = "init" -> {"exists", "pending", "add", "drop", "init"}
    [] op = "assign" -> {"exists", "pending", "add", "drop", "status", "give"}
    [] op = "reset" -> {"list", "take"}
    [] op = "verify" -> {"list", "confirm"}
    [] op = "delete" -> {"tokens", "list", "take", "deleteUser"}

TokenTasks ==
  {t \in [op : {"init", "assign", "reset", "verify", "rename", "delete"},
          at : {"exists", "add", "pending", "drop", "init", "status", "give", "list", "take", "confirm", "tokens", "deleteUser"},
          user : Usernames, new : Usernames, serials : SUBSET Serials, left : SUBSET Serials] : t.at \in StepsOf(t.op)}

LdapTasks ==
  [op : {"kontexte"}, event : Nat, name : Usernames, create : SUBSET Kennungen, remove : SUBSET Kennungen]
  \union [op : {"renamed"}, old : Usernames, name : Usernames]
  \union [op : {"deleted"}, name : Usernames]
  \union [op : {"migration"}, event : Nat, name : Usernames, at : Kennungen]

(* A person in itslearning is in the root group. *)
PersonsInRoot ==
  /\ memberships \in [DOMAIN memberships -> RolesOfMembers]
  /\ person # NoPerson => Root \in DOMAIN memberships

(* A token's owner is a user, and no hardware token waits to be verified.   *)
OwnersAreUsers ==
  /\ \A s \in Serials : owner[s] \in piUsers \union {Nobody}
  /\ \A s \in Hardware : rollout[s] # "verify"

DatabaseTyped ==
  /\ observed \in Systems /\ inOrder \in BOOLEAN
  /\ present \in BOOLEAN /\ name \in used /\ used \subseteq Usernames
  /\ kontexte \subseteq Slots /\ (~present => kontexte = {})
  /\ published \in Nat /\ requests \in 0..MaxRequests /\ failures \in 0..MaxFailures

ItslearningTyped ==
  ItslearningTypeOK /\ PersonsInRoot /\ queue \in Seq(Waiting) /\ syncs \subseteq Syncs

TokensTyped == TokensTypeOK /\ OwnersAreUsers /\ piTasks \subseteq TokenTasks

LdapTyped ==
  /\ LdapTypeOK /\ ldapTasks \subseteq LdapTasks
  /\ \A t \in ldapTasks : t.op = "kontexte" => t.remove \union t.create # {}

RepTyped ==
  /\ DatabaseTyped /\ req \in [Clients -> Requests]
  /\ GroupsTypeOK /\ ItslearningTyped /\ TokensTyped /\ LdapTyped

-----------------------------------------------------------------------------
(* Rollenarten are a range of numbers: the highest of some is one. *)
LEMMA HighestIsOne ==
  ASSUME NEW arten, arten \subseteq Rollenarten, NEW limit \in {LEHR, SYSADMIN}
  PROVE  HighestRollenart(arten, limit) \in Rollenarten
<1> DEFINE S == {EXTERN} \union arten
<1>1. S \subseteq 0..5 /\ 0 \in S /\ limit \in 0..5
  BY DEF Rollenarten, EXTERN, LEHR, SYSADMIN
<1>2. \E x \in S : \A y \in S : x >= y
  <2>1. CASE 5 \in S
    BY <2>1, <1>1
  <2>2. CASE 5 \notin S /\ 4 \in S
    BY <2>2, <1>1
  <2>3. CASE 5 \notin S /\ 4 \notin S /\ 3 \in S
    BY <2>3, <1>1
  <2>4. CASE 5 \notin S /\ 4 \notin S /\ 3 \notin S /\ 2 \in S
    BY <2>4, <1>1
  <2>5. CASE 5 \notin S /\ 4 \notin S /\ 3 \notin S /\ 2 \notin S /\ 1 \in S
    BY <2>5, <1>1
  <2>6. CASE 5 \notin S /\ 4 \notin S /\ 3 \notin S /\ 2 \notin S /\ 1 \notin S
    BY <2>6, <1>1
  <2>7. QED
    BY <2>1, <2>2, <2>3, <2>4, <2>5, <2>6
<1>3. Max(S) \in S
  BY <1>2 DEF Max
<1>4. Min({limit, Max(S)}) \in {limit, Max(S)}
  <2>1. Max(S) \in 0..5 /\ limit \in 0..5
    BY <1>1, <1>3
  <2>2. \E x \in {limit, Max(S)} : \A y \in {limit, Max(S)} : x =< y
    BY <2>1
  <2>3. QED
    BY <2>2 DEF Min
<1>5. QED
  BY <1>1, <1>3, <1>4 DEF HighestRollenart, Rollenarten, EXTERN, SYSADMIN

(* The Rollenarten of Kontexte. *)
LEMMA ArtenOfKontexte ==
  ASSUME NEW kk, kk \subseteq Kontexte
  PROVE  Arten(kk) \subseteq Rollenarten /\ \A o : ArtenAt(kk, o) \subseteq Rollenarten
BY ReplicasAssumption DEF Arten, ArtenAt, Kontexte

(* The highest of any Kontexte's Rollenarten has an institution role. *)
LEMMA RoleTyped ==
  ASSUME NEW kk, kk \subseteq Kontexte
  PROVE  InstitutionRole(HighestRollenart(Arten(kk), SYSADMIN)) \in RolesOfPersons
<1>1. HighestRollenart(Arten(kk), SYSADMIN) \in Rollenarten
  BY HighestIsOne, ArtenOfKontexte
<1>2. QED
  BY <1>1 DEF RolesOfPersons

(* The memberships that are due. *)
LEMMA TargetTyped ==
  ASSUME NEW kk, kk \subseteq Kontexte, NEW has
  PROVE  /\ DOMAIN Target(kk, has) = {k.orga : k \in kk} \union (has \intersect {Root})
         /\ DOMAIN Target(kk, has) \subseteq Orgas \union {Root}
         /\ Target(kk, has) \in [DOMAIN Target(kk, has) -> RolesOfMembers]
<1> DEFINE V(g) == IMSESRole(IF g = Root THEN HighestRollenart(Arten(kk), LEHR)
                             ELSE HighestRollenart(ArtenAt(kk, g), SYSADMIN))
           D == {k.orga : k \in kk} \union (has \intersect {Root})
<1>1. Target(kk, has) = [g \in D |-> V(g)]
  BY Zenon DEF Target
<1>2. ASSUME NEW g PROVE V(g) \in RolesOfMembers
  <2>1. HighestRollenart(Arten(kk), LEHR) \in Rollenarten /\ HighestRollenart(ArtenAt(kk, g), SYSADMIN) \in Rollenarten
    BY HighestIsOne, ArtenOfKontexte
  <2>2. QED
    BY <2>1 DEF RolesOfMembers
<1>3. D \subseteq Orgas \union {Root}
  <2>1. \A k \in kk : k.orga \in Orgas
    BY DEF Kontexte
  <2>2. QED
    BY <2>1
<1> HIDE DEF V, D
<1>4. Target(kk, has) \in [D -> RolesOfMembers] /\ DOMAIN Target(kk, has) = D
  BY <1>1, <1>2
<1>5. QED
  BY <1>3, <1>4 DEF D

-----------------------------------------------------------------------------
(* Type correctness                                                        *)

(* A handler is of one of these two kinds. *)
LEMMA HandlerKinds == Handlers = NameHandlers \union KontextHandlers
<1>1. DOMAIN Rollenart = Rollen
  BY ReplicasAssumption
<1>2. QED
  BY <1>1, Zenon DEF Handlers, NameHandlers, KontextHandlers, RolesOfPersons, Kontexte

(* What the fields of a handler are, by its kind. *)
LEMMA HandlerTyped ==
  ASSUME NEW h \in Handlers
  PROVE  /\ h.op \in {"renamed", "email"} => h \in NameHandlers
         /\ h.op \in {"updated", "sync"} => h \in KontextHandlers
         /\ h.op \in {"renamed", "email", "updated", "sync"}
         /\ h.role \in RolesOfPersons
         /\ h.at \in {"remove", "create"} => h.kontexte \subseteq Kontexte
<1>1. h \in NameHandlers \/ h \in KontextHandlers
  BY HandlerKinds, Zenon
<1>2. CASE h \in NameHandlers
  BY <1>2 DEF NameHandlers
<1>3. CASE h \in KontextHandlers
  BY <1>3 DEF KontextHandlers
<1>4. QED
  BY <1>1, <1>2, <1>3

(* A call of itslearning leaves a person, or nobody, with memberships. *)
LEMMA EffectTyped ==
  ASSUME ItslearningTypeOK, PersonsInRoot, NEW h \in Handlers, h.at = "person" => h.name \in Usernames, Effect(h)
  PROVE  ItslearningTypeOK' /\ PersonsInRoot'
<1>1. CASE h.at \in {"read", "memberships"} /\ UNCHANGED <<person, memberships>>
  BY <1>1 DEF ItslearningTypeOK, PersonsInRoot
<1>2. CASE h.at = "person" /\ StorePerson(h.name, h.role)
  <2>1. h.role \in RolesOfPersons
    BY HandlerTyped, Zenon
  <2>2. person' \in [name : Usernames, role : RolesOfPersons] /\ person' # NoPerson
    <3>1. person' = [name |-> h.name, role |-> h.role]
      BY <1>2 DEF StorePerson
    <3>2. QED
      BY <3>1, <2>1, <1>2, ReplicasAssumption DEF NoPerson
  <2>3. CASE person = NoPerson
    <3>1. memberships' = [g \in {Root} |-> IMSESRole(EXTERN)]
      BY <2>3, <1>2 DEF StorePerson
    <3>2. IMSESRole(EXTERN) \in RolesOfMembers
      BY DEF RolesOfMembers, Rollenarten, EXTERN, SYSADMIN
    <3>3. QED
      BY <3>1, <3>2, <2>2 DEF ItslearningTypeOK, PersonsInRoot, RolesOfPersons, RolesOfMembers
  <2>4. CASE person # NoPerson
    <3>1. memberships' = memberships
      BY <2>4, <1>2 DEF StorePerson
    <3>2. QED
      BY <3>1, <2>2, <2>4 DEF ItslearningTypeOK, PersonsInRoot, RolesOfPersons, RolesOfMembers
  <2>5. QED
    BY <2>3, <2>4
<1>k. h.at \in {"remove", "create"} => h.kontexte \subseteq Kontexte
  BY HandlerTyped
<1>3. CASE h.at = "remove" /\ RemoveMemberships(h) /\ UNCHANGED person
  <2> DEFINE due == DOMAIN Target(h.kontexte, h.has)
             D == {x \in DOMAIN memberships : x \in due \/ x \notin h.has}
  <2>1. memberships' = [g \in D |-> memberships[g]]
    BY <1>3, Zenon DEF RemoveMemberships
  <2>2. due = {k.orga : k \in h.kontexte} \union (h.has \intersect {Root})
    BY <1>3, <1>k, TargetTyped
  <2>3. Root \in DOMAIN memberships => Root \in D
    BY <2>2
  <2>4. D \subseteq DOMAIN memberships
    OBVIOUS
  <2> HIDE DEF D
  <2>5. memberships' \in [D -> RolesOfMembers] /\ DOMAIN memberships' = D
    BY <2>1, <2>4 DEF PersonsInRoot
  <2>6. person = NoPerson => memberships' = NoMemberships
    <3>1. ASSUME person = NoPerson PROVE D = {}
      <4>1. memberships = NoMemberships
        BY <3>1 DEF ItslearningTypeOK
      <4>2. QED
        BY <4>1, <2>4 DEF NoMemberships
    <3>2. QED
      BY <3>1, <2>1 DEF NoMemberships
  <2>7. QED
    BY <1>3, <2>3, <2>4, <2>5, <2>6 DEF ItslearningTypeOK, PersonsInRoot, RolesOfMembers
<1>4. CASE h.at = "create" /\ CreateMemberships(h) /\ UNCHANGED person
  <2>1. CASE person = NoPerson
    BY <2>1, <1>4 DEF CreateMemberships, ItslearningTypeOK, PersonsInRoot
  <2>2. CASE person # NoPerson
    <3> DEFINE target == Target(h.kontexte, h.has)
               D == DOMAIN memberships \union DOMAIN target
    <3>1. memberships' = [g \in D |-> IF g \in DOMAIN target THEN target[g] ELSE memberships[g]]
      BY <1>4, <2>2, Zenon DEF CreateMemberships
    <3>2. target \in [DOMAIN target -> RolesOfMembers] /\ DOMAIN target \subseteq Orgas \union {Root}
      BY <1>4, <1>k, TargetTyped
    <3> HIDE DEF target
    <3>3. memberships' \in [D -> RolesOfMembers] /\ DOMAIN memberships' = D
      BY <3>1, <3>2 DEF PersonsInRoot
    <3>4. QED
      BY <1>4, <2>2, <3>2, <3>3 DEF ItslearningTypeOK, PersonsInRoot, RolesOfMembers
  <2>3. QED
    BY <2>1, <2>2
<1>5. CASE h.at = "delete" /\ DeletePerson
  <2>1. person' = NoPerson /\ memberships' = NoMemberships
    BY <1>5 DEF DeletePerson
  <2>2. DOMAIN memberships' = {} /\ memberships' \in [{} -> RolesOfMembers]
    BY <2>1 DEF NoMemberships
  <2>3. QED
    BY <2>1, <2>2 DEF ItslearningTypeOK, PersonsInRoot
<1>6. QED
  BY <1>1, <1>2, <1>3, <1>4, <1>5 DEF Effect

(* A handler that has read the person keeps its role, and a mail handler its name. *)
LEMMA AfterRead ==
  ASSUME NEW h, h.at = "read", person # NoPerson
  PROVE  After(h) = [h EXCEPT !.at = "person", !.role = person.role, !.name = IF h.op = "email" THEN person.name ELSE h.name]
BY DEF After

(* What remains of a handler is a handler of the same kind. *)
LEMMA AfterTyped ==
  ASSUME ItslearningTypeOK, NEW h \in Handlers, Named(h), NEW next \in {After(h), AfterError(h)}
  PROVE  next = Done \/ (next \in Handlers /\ next.op = h.op /\ Named(next))
<1>d. DOMAIN Rollenart = Rollen /\ DOMAIN memberships \subseteq Orgas \union {Root}
  BY ReplicasAssumption DEF ItslearningTypeOK
<1>t. h.op \in {"renamed", "email"} \/ h.op \in {"updated", "sync"}
  BY HandlerTyped, Zenon
<1>1. CASE h.op \in {"renamed", "email"}
  <2>0. h \in NameHandlers
    BY <1>1, HandlerTyped, Zenon
  <2>1. AfterError(h) = Done
    BY <2>0, <1>1 DEF AfterError, NameHandlers
  <2>2. CASE h.at = "read" /\ person # NoPerson
    <3>1. person \in [name : Usernames, role : RolesOfPersons]
      BY <2>2 DEF ItslearningTypeOK, RolesOfPersons
    <3>2. After(h) = [h EXCEPT !.at = "person", !.role = person.role, !.name = IF h.op = "email" THEN person.name ELSE h.name]
      BY <2>2, AfterRead, Zenon
    <3> DEFINE new == IF h.op = "email" THEN person.name ELSE h.name
    <3>n. new \in Usernames
      BY <2>0, <3>1, <1>1 DEF NameHandlers, Named
    <3> HIDE DEF new
    <3>a. PICK a : a = After(h)
      OBVIOUS
    <3>b. a = [h EXCEPT !.at = "person", !.role = person.role, !.name = new]
      BY <3>2, <3>a, Zenon DEF new
    <3>c. a \in NameHandlers /\ a.op = h.op /\ a.name = new
      BY <2>0, <3>1, <3>b, <3>n DEF NameHandlers
    <3>3. After(h) \in NameHandlers /\ After(h).op = h.op /\ After(h).name \in Usernames
      BY <3>a, <3>c, <3>n
    <3>4. After(h) \in Handlers /\ Named(After(h))
      BY <3>3, HandlerKinds DEF Named
    <3>5. QED
      BY <2>1, <3>3, <3>4
  <2>3. CASE ~(h.at = "read" /\ person # NoPerson)
    <3>1. After(h) = Done
      BY <2>0, <2>3, <1>1 DEF After, NameHandlers
    <3>2. QED
      BY <2>1, <3>1
  <2>4. QED
    BY <2>2, <2>3
<1>2. CASE h.op \in {"updated", "sync"}
  <2>0. h \in KontextHandlers
    BY <1>2, HandlerTyped, Zenon
  <2>1. After(h) = Done \/ (After(h) \in KontextHandlers /\ After(h).op = h.op)
    BY <2>0, <1>d DEF After, KontextHandlers
  <2>2. AfterError(h) = Done \/ (AfterError(h) \in KontextHandlers /\ AfterError(h).op = h.op)
    BY <2>0 DEF AfterError, KontextHandlers
  <2>3. \A x \in KontextHandlers : x \in Handlers /\ Named(x)
    BY HandlerKinds DEF Named, KontextHandlers
  <2>4. QED
    BY <2>1, <2>2, <2>3
<1>3. QED
  BY <1>t, <1>1, <1>2
-----------------------------------------------------------------------------
(* The consumers                                                           *)

LEMMA GroupsTyped ==
  ASSUME GroupsTypeOK, NEW u \in updates, ListGroups(u) \/ ModifyGroup(u) \/ UpdateFails(u)
  PROVE  GroupsTypeOK'
<1>1. u \in Update
  BY DEF GroupsTypeOK
<1>2. CASE ListGroups(u)
  <2> DEFINE todo == IF u.remove THEN u.names \intersect groups ELSE u.names \ groups
  <2>1. [u EXCEPT !.at = "modify", !.names = todo] \in Update
    BY <1>1 DEF Update
  <2>2. updates' \subseteq updates \union {[u EXCEPT !.at = "modify", !.names = todo]} /\ groups' = groups
    BY <1>2 DEF ListGroups
  <2>3. QED
    BY <2>1, <2>2 DEF GroupsTypeOK
<1>3. CASE ModifyGroup(u)
  <2>1. PICK g \in u.names :
          /\ groups' = IF u.remove THEN groups \ {g} ELSE groups \union {g}
          /\ updates' = (updates \ {u}) \union
                        (IF u.names = {g} THEN {} ELSE {[u EXCEPT !.names = @ \ {g}]})
    BY <1>3, Zenon DEF ModifyGroup
  <2>2. [u EXCEPT !.names = @ \ {g}] \in Update /\ g \in Groups
    BY <1>1 DEF Update
  <2>3. QED
    BY <2>1, <2>2 DEF GroupsTypeOK
<1>4. CASE UpdateFails(u)
  <2>1. u.names \subseteq Groups
    BY <1>1 DEF Update
  <2>2. QED
    BY <1>4, <2>1 DEF UpdateFails, GroupsTypeOK
<1>5. QED
  BY <1>2, <1>3, <1>4

(* The steps of an operation on tokens. *)
LEMMA TaskSteps ==
  ASSUME NEW t \in TokenTasks
  PROVE  /\ t.op = "rename" => t.at \in {"exists", "list", "take", "add", "give", "deleteUser"}
         /\ t.op = "init" => t.at \in {"exists", "pending", "add", "drop", "init"}
         /\ t.op = "assign" => t.at \in {"exists", "pending", "add", "drop", "status", "give"}
         /\ t.op = "reset" => t.at \in {"list", "take"}
         /\ t.op = "verify" => t.at \in {"list", "confirm"}
         /\ t.op = "delete" => t.at \in {"tokens", "list", "take", "deleteUser"}
         /\ t.op \in {"init", "assign", "reset", "verify", "rename", "delete"}
         /\ t.user \in Usernames /\ t.new \in Usernames /\ t.serials \subseteq Serials /\ t.left \subseteq Serials
         /\ t.user \in PiNames /\ t.new \in PiNames
<1>1. Usernames = PiNames
  BY ReplicasAssumption
<1>2. QED
  BY <1>1 DEF TokenTasks, StepsOf

(* An operation goes on with one of its steps. *)
LEMMA TaskGoesOn ==
  ASSUME NEW t \in TokenTasks, NEW at, NEW serials \in SUBSET Serials, NEW left \in SUBSET Serials, at \in StepsOf(t.op)
  PROVE  /\ [t EXCEPT !.at = at] \in TokenTasks
         /\ [t EXCEPT !.at = at, !.serials = serials, !.left = left] \in TokenTasks
         /\ [t EXCEPT !.at = at, !.left = left] \in TokenTasks
         /\ [t EXCEPT !.left = left] \in TokenTasks
<1>1. t.op \in {"init", "assign", "reset", "verify", "rename", "delete"}
  BY DEF TokenTasks
<1>2. at \in {"exists", "add", "pending", "drop", "init", "status", "give", "list", "take", "confirm", "tokens", "deleteUser"}
  BY <1>1 DEF StepsOf
<1> DEFINE S == StepsOf(t.op)
<1>3. at \in S /\ t.at \in S
  BY DEF TokenTasks
<1>4. QED
  BY <1>1, <1>2, <1>3 DEF TokenTasks

(* Every call to PrivacyIDEA, and a failing one, keeps the types. *)
LEMMA TokenStepTyped ==
  ASSUME TokensTyped, NEW t \in piTasks, TokenStep(t) \/ TokenCallFails(t)
  PROVE  TokensTyped'
<1>t. t \in TokenTasks /\ piTasks \subseteq TokenTasks
  BY DEF TokensTyped
<1>u. /\ t.user \in PiNames /\ t.new \in PiNames /\ t.serials \subseteq Serials /\ t.left \subseteq Serials
  BY <1>t, TaskSteps
<1>n. Nobody \notin PiNames
  BY ReplicasAssumption
<1>g. ASSUME NEW at, at \in StepsOf(t.op), NEW serials \in SUBSET Serials, NEW left \in SUBSET Serials
      PROVE  /\ [t EXCEPT !.at = at] \in TokenTasks
             /\ [t EXCEPT !.at = at, !.serials = serials, !.left = left] \in TokenTasks
             /\ [t EXCEPT !.at = at, !.left = left] \in TokenTasks
             /\ [t EXCEPT !.left = left] \in TokenTasks
  BY <1>t, <1>g, TaskGoesOn
<1>s. t.at \in StepsOf(t.op)
  BY <1>t DEF TokenTasks
<1> DEFINE Kept == UNCHANGED <<piUsers, owner, rollout, theirs>>
<1>k. Kept /\ piTasks' \subseteq TokenTasks => TokensTyped'
  BY DEF TokensTyped, TokensTypeOK, OwnersAreUsers
<1>f. Finish(t) => piTasks' \subseteq TokenTasks
  BY <1>t DEF Finish
<1>p. ASSUME NEW at \in StepsOf(t.op), Proceed(t, at) PROVE piTasks' \subseteq TokenTasks
  BY <1>t, <1>p, <1>g DEF Proceed
<1>w. ASSUME NEW at \in StepsOf(t.op), NEW serials \in SUBSET Serials, ProceedWith(t, at, serials) PROVE piTasks' \subseteq TokenTasks
  <2>1. [t EXCEPT !.at = at, !.serials = serials, !.left = serials] \in TokenTasks
    BY <1>g
  <2>2. QED
    BY <1>t, <1>w, <2>1 DEF ProceedWith
<1>o. ASSUME NEW next \in StepsOf(t.op), NEW s \in t.left, ProceedOne(t, s, next) PROVE piTasks' \subseteq TokenTasks
  <2>1. [t EXCEPT !.at = next, !.left = t.serials] \in TokenTasks
    BY <1>g, <1>u
  <2>2. [t EXCEPT !.left = @ \ {s}] \in TokenTasks
    <3>1. t.left \ {s} \in SUBSET Serials
      BY <1>u
    <3> DEFINE l == t.left \ {s}
    <3>2. [t EXCEPT !.left = l] \in TokenTasks
      <4> HIDE DEF l
      <4>1. l \in SUBSET Serials => [t EXCEPT !.left = l] \in TokenTasks
        BY <1>g, <1>s, <1>u
      <4>2. QED
        BY <3>1, <4>1 DEF l
    <3>3. QED
      BY <3>2
  <2>3. QED
    BY <1>t, <1>o, <2>1, <2>2 DEF ProceedOne
<1>d. ASSUME Kept PROVE piTasks' \subseteq TokenTasks => TokensTyped'
  BY <1>k, <1>d
<1>steps. /\ t.op = "rename" => StepsOf(t.op) = {"exists", "list", "take", "add", "give", "deleteUser"}
          /\ t.op = "init" => StepsOf(t.op) = {"exists", "pending", "add", "drop", "init"}
          /\ t.op = "assign" => StepsOf(t.op) = {"exists", "pending", "add", "drop", "status", "give"}
          /\ t.op = "reset" => StepsOf(t.op) = {"list", "take"}
          /\ t.op = "verify" => StepsOf(t.op) = {"list", "confirm"}
          /\ t.op = "delete" => StepsOf(t.op) = {"tokens", "list", "take", "deleteUser"}
          /\ t.op \in {"init", "assign", "reset", "verify", "rename", "delete"}
  BY <1>t DEF StepsOf, TokenTasks
<1> HIDE DEF Kept
<1>1. CASE CheckUserExists(t)
  <2>1. t.op \in {"rename", "init", "assign"}
    BY <1>1, <1>s, <1>steps DEF CheckUserExists
  <2>2. piTasks' \subseteq TokenTasks
    <3>1. t.op = "rename" => Finish(t) \/ Proceed(t, "list")
      BY <1>1 DEF CheckUserExists
    <3>2. t.op \in {"init", "assign"} => Proceed(t, "pending") \/ Proceed(t, "add")
      BY <1>1 DEF CheckUserExists
    <3>3. QED
      BY <2>1, <3>1, <3>2, <1>f, <1>p, <1>steps
  <2>3. Kept
    BY <1>1 DEF CheckUserExists, stores, Kept
  <2>4. QED
    BY <2>2, <2>3, <1>d
<1>2. CASE AddUser(t)
  <2>1. t.op \in {"rename", "init", "assign"}
    BY <1>2, <1>s, <1>steps DEF AddUser
  <2>2. piTasks' \subseteq TokenTasks
    <3>1. Finish(t) \/ (t.op = "rename" /\ (Proceed(t, "deleteUser") \/ Proceed(t, "give")))
                   \/ (t.op = "init" /\ Proceed(t, "init")) \/ (t.op = "assign" /\ Proceed(t, "status"))
      BY <1>2, <2>1 DEF AddUser
    <3>2. QED
      BY <3>1, <1>f, <1>p, <1>steps
  <2>3. UNCHANGED <<owner, rollout, theirs>> /\ piUsers \subseteq piUsers' /\ piUsers' \subseteq piUsers \union {t.new}
    BY <1>2 DEF AddUser
  <2>4. QED
    BY <2>2, <2>3, <1>u DEF TokensTyped, TokensTypeOK, OwnersAreUsers
<1>3. CASE FindPending(t)
  <2>1. t.op \in {"init", "assign"}
    BY <1>3, <1>s, <1>steps DEF FindPending
  <2>2. piTasks' \subseteq TokenTasks
    <3>1. CASE Proceed(t, AfterPending(t))
      BY <2>1, <3>1, <1>p, <1>steps DEF AfterPending
    <3>2. CASE \E s \in ToVerify(t.user) : piTasks' = (piTasks \ {t}) \union {[t EXCEPT !.at = "drop", !.left = {s}]}
      <4>1. PICK s \in ToVerify(t.user) : piTasks' = (piTasks \ {t}) \union {[t EXCEPT !.at = "drop", !.left = {s}]}
        BY <3>2
      <4>2. {s} \in SUBSET Serials
        BY DEF ToVerify, TokensOf
      <4> DEFINE l == {s}
      <4> HIDE DEF l
      <4>3. [t EXCEPT !.at = "drop", !.left = l] \in TokenTasks
        BY <1>g, <1>steps, <2>1, <1>u, <4>2 DEF l
      <4>4. QED
        BY <4>1, <4>3, <1>t DEF l
    <3>3. QED
      BY <1>3, <3>1, <3>2 DEF FindPending
  <2>3. QED
    BY <2>2, <1>d, <1>3 DEF FindPending, stores, Kept
<1>4. CASE DropPending(t)
  <2>1. t.op \in {"init", "assign"}
    BY <1>4, <1>s, <1>steps DEF DropPending
  <2>2. AfterPending(t) \in StepsOf(t.op)
    BY <2>1, <1>steps DEF AfterPending
  <2>3. piTasks' \subseteq TokenTasks
    BY <2>2, <1>4, <1>w, <1>u DEF DropPending
  <2>4. QED
    BY <2>3, <1>4, <1>u DEF DropPending, TokensTyped, TokensTypeOK, OwnersAreUsers
<1>5. CASE InitToken(t)
  <2>1. piTasks' \subseteq TokenTasks
    BY <1>5, <1>f DEF InitToken
  <2>2. CASE t.user \notin piUsers
    BY <2>1, <2>2, <1>d, <1>5 DEF InitToken, Kept
  <2>3. CASE t.user \in piUsers
    <3>1. PICK s \in Serials \ Hardware :
            /\ rollout[s] = "none"
            /\ rollout' = [rollout EXCEPT ![s] = "verify"]
            /\ owner' = [owner EXCEPT ![s] = t.user]
            /\ theirs' = theirs \union {s}
      BY <2>3, <1>5 DEF InitToken
    <3>2. QED
      BY <2>1, <2>3, <3>1, <1>5, <1>u DEF InitToken, TokensTyped, TokensTypeOK, OwnersAreUsers
  <2>4. QED
    BY <2>2, <2>3
<1>6. CASE CheckSerial(t)
  <2>1. t.op = "assign"
    BY <1>6, <1>s, <1>steps DEF CheckSerial
  <2>2. Finish(t) \/ Proceed(t, "give")
    BY <1>6 DEF CheckSerial
  <2>3. piTasks' \subseteq TokenTasks
    BY <2>1, <2>2, <1>f, <1>p, <1>steps
  <2>4. QED
    BY <2>3, <1>d, <1>6 DEF CheckSerial, stores, Kept
<1>7. CASE GiveToken(t)
  <2>1. PICK s \in t.left :
       \/ /\ t.new \in piUsers /\ rollout[s] # "none"
          /\ owner' = [owner EXCEPT ![s] = t.new]
          /\ theirs' = IF t.op = "assign" THEN theirs \union {s} ELSE theirs
          /\ IF t.op = "assign" THEN Finish(t) ELSE ProceedOne(t, s, "deleteUser")
       \/ Finish(t) /\ UNCHANGED <<owner, theirs>>
    BY <1>7 DEF GiveToken
  <2>2. t.op \in {"assign", "rename"} /\ UNCHANGED <<piUsers, rollout>>
    BY <1>7, <1>s, <1>steps DEF GiveToken
  <2>3. piTasks' \subseteq TokenTasks
    BY <2>1, <2>2, <1>f, <1>o, <1>steps
  <2>4. QED
    BY <2>1, <2>2, <2>3, <1>u DEF TokensTyped, TokensTypeOK, OwnersAreUsers
<1>8. CASE ListTokens(t)
  <2>1. t.op \in {"rename", "verify", "reset", "delete"}
    BY <1>8, <1>s, <1>steps DEF ListTokens
  <2>2. TokensOf(t.user) \in SUBSET Serials /\ (\A s \in ToVerify(t.user) \union Enrolled(t.user) : {s} \in SUBSET Serials)
    BY DEF TokensOf, ToVerify, Enrolled
  <2>3. piTasks' \subseteq TokenTasks
    <3>1. CASE t.op = "rename"
      <4>1. ProceedWith(t, "add", TokensOf(t.user)) \/ ProceedWith(t, "take", TokensOf(t.user))
        BY <1>8, <3>1 DEF ListTokens
      <4>2. QED
        BY <4>1, <2>2, <1>w, <1>steps, <3>1
    <3>2. CASE t.op = "verify"
      <4>1. Finish(t) \/ \E s \in ToVerify(t.user) : ProceedWith(t, "confirm", {s})
        BY <1>8, <3>2 DEF ListTokens
      <4>2. ASSUME NEW s \in ToVerify(t.user), ProceedWith(t, "confirm", {s}) PROVE piTasks' \subseteq TokenTasks
        <5> DEFINE l == {s}
        <5> HIDE DEF l
        <5>1. l \in SUBSET Serials /\ ProceedWith(t, "confirm", l)
          BY <4>2, <2>2 DEF l
        <5>2. QED
          BY <5>1, <1>w, <1>steps, <3>2
      <4>3. QED
        BY <4>1, <4>2, <1>f
    <3>3. CASE t.op \in {"reset", "delete"}
      <4>1. Finish(t) \/ \E s \in Enrolled(t.user) : ProceedWith(t, "take", {s})
        BY <1>8, <3>3 DEF ListTokens
      <4>2. ASSUME NEW s \in Enrolled(t.user), ProceedWith(t, "take", {s}) PROVE piTasks' \subseteq TokenTasks
        <5> DEFINE l == {s}
        <5> HIDE DEF l
        <5>1. l \in SUBSET Serials /\ ProceedWith(t, "take", l)
          BY <4>2, <2>2 DEF l
        <5>2. QED
          BY <5>1, <1>w, <1>steps, <3>3
      <4>3. QED
        BY <4>1, <4>2, <1>f
    <3>4. QED
      BY <2>1, <3>1, <3>2, <3>3
  <2>4. QED
    BY <2>3, <1>d, <1>8 DEF ListTokens, stores, Kept
<1>9. CASE TakeToken(t)
  <2>1. t.op \in {"rename", "reset", "delete"}
    BY <1>9, <1>s, <1>steps DEF TakeToken
  <2>2. PICK s \in t.left :
       /\ owner' = [owner EXCEPT ![s] = Nobody]
       /\ theirs' = IF t.op = "rename" THEN theirs ELSE theirs \ {s}
       /\ t.op = "rename" => ProceedOne(t, s, "add")
       /\ t.op = "reset" => Finish(t)
       /\ t.op = "delete" => Proceed(t, "deleteUser")
    BY <1>9 DEF TakeToken
  <2>3. (t.op = "rename" /\ ProceedOne(t, s, "add")) \/ Finish(t) \/ (t.op = "delete" /\ Proceed(t, "deleteUser"))
    BY <2>1, <2>2
  <2>4. piTasks' \subseteq TokenTasks
    BY <2>3, <1>f, <1>o, <1>p, <1>steps
  <2>5. UNCHANGED <<piUsers, rollout>>
    BY <1>9 DEF TakeToken
  <2>6. QED
    BY <2>2, <2>4, <2>5, <1>u DEF TokensTyped, TokensTypeOK, OwnersAreUsers
<1>10. CASE ConfirmToken(t)
  <2>1. piTasks' \subseteq TokenTasks /\ UNCHANGED <<piUsers, owner, theirs>>
    BY <1>10, <1>f DEF ConfirmToken
  <2>2. \/ UNCHANGED rollout
        \/ rollout' = [s \in Serials |-> IF s \in t.serials /\ rollout[s] = "verify" THEN "enrolled" ELSE rollout[s]]
    BY <1>10 DEF ConfirmToken
  <2>3. /\ rollout' \in [Serials -> {"none", "verify", "enrolled"}]
        /\ \A s \in Serials : rollout'[s] \in {rollout[s], "enrolled"} /\ (rollout[s] # "none" <=> rollout'[s] # "none")
    BY <2>2 DEF TokensTyped, TokensTypeOK
  <2>4. \A s \in Hardware : rollout'[s] # "verify"
    BY <2>3, ReplicasAssumption DEF TokensTyped, OwnersAreUsers
  <2>5. QED
    BY <2>1, <2>3, <2>4 DEF TokensTyped, TokensTypeOK, OwnersAreUsers
<1>11. CASE FindTokensToReset(t)
  <2>1. t.op = "delete" /\ (Proceed(t, "deleteUser") \/ Proceed(t, "list"))
    <3>1. t.op = "delete"
      BY <1>11, <1>s, <1>steps DEF FindTokensToReset
    <3>2. Proceed(t, IF TokensOf(t.user) = {} THEN "deleteUser" ELSE "list")
      BY <1>11 DEF FindTokensToReset
    <3>3. QED
      BY <3>1, <3>2
  <2>2. piTasks' \subseteq TokenTasks
    BY <2>1, <1>p, <1>steps
  <2>3. QED
    BY <2>2, <1>d, <1>11 DEF FindTokensToReset, stores, Kept
<1>12. CASE DeleteUser(t)
  <2>1. piTasks' \subseteq TokenTasks
    BY <1>12, <1>f DEF DeleteUser
  <2>2. QED
    BY <2>1, <1>12, <1>u, <1>n DEF DeleteUser, TokensTyped, TokensTypeOK, OwnersAreUsers
<1>13. CASE TokenCallFails(t)
  <2>1. piTasks' \subseteq TokenTasks /\ UNCHANGED <<rollout, theirs>>
    BY <1>13, <1>f DEF TokenCallFails
  <2>2. piUsers \subseteq piUsers' /\ piUsers' \subseteq piUsers \union {t.new}
    <3>1. UNCHANGED piUsers \/ piUsers' = piUsers \union {t.new}
      BY <1>13, Zenon DEF TokenCallFails
    <3>2. QED
      BY <3>1
  <2>3. PICK done \in SUBSET t.left :
            owner' = [s \in Serials |->
                      IF s \notin done THEN owner[s]
                      ELSE IF t.at = "take" THEN Nobody
                      ELSE IF t.new \in piUsers /\ rollout[s] # "none" THEN t.new ELSE owner[s]]
    BY <1>13, Zenon DEF TokenCallFails
  <2>4. QED
    BY <2>1, <2>2, <2>3, <1>u DEF TokensTyped, TokensTypeOK, OwnersAreUsers
<1>14. QED
  BY <1>1, <1>2, <1>3, <1>4, <1>5, <1>6, <1>7, <1>8, <1>9, <1>10, <1>11, <1>12, <1>13, Zenon DEF TokenStep

(* What the fields of a handler of LDAP are, by its kind. *)
LEMMA LdapTaskKinds ==
  ASSUME NEW t \in LdapTasks
  PROVE  /\ t.op \in {"kontexte", "renamed", "deleted", "migration"}
         /\ t.op = "kontexte" => t \in [op : {"kontexte"}, event : Nat, name : Usernames, create : SUBSET Kennungen, remove : SUBSET Kennungen]
         /\ t.op = "renamed" => t \in [op : {"renamed"}, old : Usernames, name : Usernames]
         /\ t.op = "deleted" => t \in [op : {"deleted"}, name : Usernames]
         /\ t.op = "migration" => t \in [op : {"migration"}, event : Nat, name : Usernames, at : Kennungen]
         /\ t.name \in LdapNames
<1>1. Usernames = LdapNames
  BY ReplicasAssumption
<1>2. QED
  BY <1>1 DEF LdapTasks

(* LdapTypeOK speaks of the same tasks. *)
LdapTaskOK(t) ==
  \/ t.op = "kontexte" /\ t.remove \union t.create \in (SUBSET Kennungen) \ {{}}
  \/ t.op = "renamed" /\ {t.old, t.name} \subseteq LdapNames
  \/ t.op \in {"deleted", "migration"} /\ t.name \in LdapNames

(* Such a handler is one of those LdapTypeOK allows. *)
LEMMA LdapTasksTyped ==
  ASSUME NEW t \in LdapTasks, t.op = "kontexte" => t.remove \union t.create # {}
  PROVE  LdapTaskOK(t)
<1>1. Usernames = LdapNames
  BY ReplicasAssumption
<1>3. CASE t.op = "kontexte"
  BY <1>3, LdapTaskKinds DEF LdapTaskOK
<1>4. CASE t.op = "renamed"
  BY <1>1, <1>4, LdapTaskKinds DEF LdapTaskOK
<1>5. QED
  BY <1>3, <1>4, LdapTaskKinds DEF LdapTaskOK

(* The handlers of LDAP, none of them with nothing left to do. *)
LdapRest == ldapTasks \subseteq LdapTasks /\ \A t \in ldapTasks : t.op = "kontexte" => t.remove \union t.create # {}

(* A handler with one group less to do is still one, or is done. *)
LEMMA OneLessTyped ==
  ASSUME LdapRest, NEW t \in ldapTasks, t.op = "kontexte", NEW field \in {"remove", "create"}, NEW s, OneLess(t, field, s)
  PROVE  LdapRest' /\ UNCHANGED <<lingering, leftOut>>
<1>1. t \in [op : {"kontexte"}, event : Nat, name : Usernames, create : SUBSET Kennungen, remove : SUBSET Kennungen]
  BY LdapTaskKinds DEF LdapRest
<1>2. PICK next : next = [t EXCEPT ![field] = @ \ {s}]
  OBVIOUS
<1>3. next \in [op : {"kontexte"}, event : Nat, name : Usernames, create : SUBSET Kennungen, remove : SUBSET Kennungen]
  <2>1. CASE field = "remove"
    BY <1>1, <1>2, <2>1
  <2>2. CASE field = "create"
    BY <1>1, <1>2, <2>2
  <2>3. QED
    BY <2>1, <2>2
<1>4. ldapTasks' = (ldapTasks \ {t}) \union (IF next.remove \union next.create = {} THEN {} ELSE {next})
  BY <1>2 DEF OneLess
<1>5. next \in LdapTasks
  BY <1>3 DEF LdapTasks
<1>6. QED
  BY <1>4, <1>5 DEF LdapRest, OneLess

(* Every call to LDAP, and a failing one, keeps the types. *)
LEMMA LdapStepTyped ==
  ASSUME LdapTyped, NEW t \in ldapTasks, LdapStep(t) \/ LdapCallFails(t)
  PROVE  LdapTyped'
<1>t. t \in LdapTasks /\ LdapRest
  BY DEF LdapTyped, LdapRest
<1> DEFINE Rest == entries \subseteq LdapNames /\ members \in [Kennungen -> SUBSET LdapNames] /\ lingering \subseteq Kennungen /\ leftOut \subseteq Kennungen
<1>r. Rest
  BY DEF LdapTyped, LdapTypeOK
<1>a. Rest' /\ LdapRest' => LdapTyped'
  <2>1. LdapRest' => \A x \in ldapTasks' : LdapTaskOK(x)
    BY LdapTasksTyped DEF LdapRest
  <2>2. QED
    BY <2>1 DEF LdapTyped, LdapRest, LdapTypeOK, LdapTaskOK
<1>n. t.name \in LdapNames
  BY <1>t, LdapTaskKinds
<1>e. ASSUME Ends(t) PROVE LdapRest' /\ UNCHANGED <<lingering, leftOut>>
  BY <1>t, <1>e DEF Ends, LdapRest
<1>1. CASE IsLehrerExisting(t)
  <2>1. t \in [op : {"migration"}, event : Nat, name : Usernames, at : Kennungen]
    BY <1>t, <1>1, LdapTaskKinds DEF IsLehrerExisting
  <2> DEFINE n == [op |-> "kontexte", event |-> t.event, name |-> t.name, create |-> {t.at}, remove |-> {}]
  <2>2. n \in LdapTasks /\ n.remove \union n.create # {}
    BY <2>1 DEF LdapTasks
  <2>3. ldapTasks' \subseteq ldapTasks \union {n}
    BY <1>1 DEF IsLehrerExisting
  <2>4. LdapRest'
    <3> HIDE DEF n
    <3>1. QED
      BY <2>2, <2>3, <1>t DEF LdapRest
  <2>5. Rest'
    BY <1>1, <1>r, <2>1 DEF IsLehrerExisting
  <2>6. QED
    BY <1>a, <2>4, <2>5
<1>2. CASE RemovePersonFromGroup(t)
  <2>1. PICK s \in t.remove : Leave(t.name, s) /\ OneLess(t, "remove", s) /\ UNCHANGED entries
    BY <1>2 DEF RemovePersonFromGroup
  <2>2. LdapRest' /\ UNCHANGED <<lingering, leftOut>>
    BY <2>1, <1>2, <1>t, OneLessTyped DEF RemovePersonFromGroup
  <2>3. Rest'
    BY <2>1, <2>2, <1>r DEF Leave
  <2>4. QED
    BY <2>2, <2>3, <1>a
<1>3. CASE CreateLehrer(t)
  <2>1. PICK s \in t.create : Join(t.name, s) /\ OneLess(t, "create", s)
    BY <1>3 DEF CreateLehrer
  <2>2. LdapRest' /\ UNCHANGED <<lingering, leftOut>>
    BY <2>1, <1>3, <1>t, OneLessTyped DEF CreateLehrer
  <2>3. Rest'
    BY <2>1, <2>2, <1>3, <1>r, <1>n DEF Join, CreateLehrer
  <2>4. QED
    BY <2>2, <2>3, <1>a
<1>4. CASE ModifyPersonAttributes(t)
  <2>1. LdapRest' /\ UNCHANGED <<lingering, leftOut>>
    BY <1>4, <1>e DEF ModifyPersonAttributes
  <2>2. CASE UNCHANGED <<entries, members>>
    BY <2>1, <2>2, <1>a, <1>r
  <2>3. CASE EntryRenamed(t.old, t.name)
    <3>1. entries' \subseteq LdapNames /\ members' \in [Kennungen -> SUBSET LdapNames]
      BY <2>3, <1>r, <1>n DEF EntryRenamed
    <3>2. QED
      BY <2>1, <3>1, <1>a, <1>r
  <2>4. QED
    BY <1>4, <2>2, <2>3 DEF ModifyPersonAttributes
<1>5. CASE DeleteLehrer(t)
  <2>1. LdapRest' /\ UNCHANGED <<lingering, leftOut>>
    BY <1>5, <1>e DEF DeleteLehrer
  <2>2. Rest'
    BY <2>1, <1>5, <1>r DEF DeleteLehrer
  <2>3. QED
    BY <2>1, <2>2, <1>a
<1>6. CASE LdapCallFails(t)
  <2>1. CASE Ends(t) /\ UNCHANGED members /\ (UNCHANGED entries \/ entries' = (entries \ {t.old}) \union {t.name})
    <3>1. LdapRest' /\ UNCHANGED <<lingering, leftOut>>
      BY <2>1, <1>e
    <3>2. Rest'
      BY <3>1, <2>1, <1>r, <1>n
    <3>3. QED
      BY <3>1, <3>2, <1>a
  <2>2. CASE /\ t.op = "kontexte" /\ UNCHANGED entries
             /\ \E s \in Kennungen, field \in {"remove", "create"} :
                  OneLess(t, field, s) /\ (Leave(t.name, s) \/ Join(t.name, s) \/ UNCHANGED members)
    <3>1. PICK s \in Kennungen, field \in {"remove", "create"} :
            OneLess(t, field, s) /\ (Leave(t.name, s) \/ Join(t.name, s) \/ UNCHANGED members)
      BY <2>2
    <3>2. LdapRest' /\ UNCHANGED <<lingering, leftOut>>
      BY <3>1, <2>2, <1>t, OneLessTyped
    <3>3. members' \in [Kennungen -> SUBSET LdapNames]
      BY <3>1, <1>r, <1>n DEF Leave, Join
    <3>4. QED
      BY <3>2, <3>3, <2>2, <1>r, <1>a
  <2>3. QED
    <3>1. CASE t.op = "kontexte"
      <4>1. t.remove \subseteq Kennungen /\ t.create \subseteq Kennungen
        BY <3>1, <1>t, LdapTaskKinds
      <4>2. \/ \E s \in t.remove : OneLess(t, "remove", s) /\ (Leave(t.name, s) \/ UNCHANGED members)
            \/ \E s \in t.create : OneLess(t, "create", s) /\ (Join(t.name, s) \/ UNCHANGED members)
        <5>1. t.op \notin {"renamed", "deleted", "migration"}
          BY <3>1
        <5>2. QED
          BY <5>1, <1>6, Zenon DEF LdapCallFails
      <4>3. UNCHANGED entries
        BY <3>1, <1>6 DEF LdapCallFails
      <4>4. QED
        BY <4>1, <4>2, <4>3, <3>1, <2>2
    <3>2. CASE t.op # "kontexte"
      BY <3>2, <1>6, <2>1 DEF LdapCallFails
    <3>3. QED
      BY <3>1, <3>2
<1>7. QED
  BY <1>1, <1>2, <1>3, <1>4, <1>5, <1>6, Zenon DEF LdapStep
-----------------------------------------------------------------------------
(* What is published                                                       *)

LEMMA UpdatesTyped ==
  ASSUME NEW e \in Nat, NEW new, NEW removed, NEW current, new \subseteq Rollen, removed \subseteq Rollen
  PROVE  UpdatesOf(e, new, removed, current) \subseteq Update
<1> DEFINE kept == current \ new
           Of(r, remove) == [event |-> e, rolle |-> r, remove |-> remove, at |-> "list", names |-> FilteredDifference(r, kept)]
<1>1. ASSUME NEW r \in Rollen, NEW remove \in BOOLEAN PROVE Of(r, remove) \in Update
  <2>1. FilteredDifference(r, kept) \subseteq Groups
    BY GroupsAssumption DEF FilteredDifference
  <2>2. QED
    BY <2>1 DEF Update
<1>2. \A u \in UpdatesOf(e, new, removed, current) : \E r \in Rollen, remove \in BOOLEAN : u = Of(r, remove)
  BY DEF UpdatesOf
<1> HIDE DEF Of
<1>3. QED
  BY <1>1, <1>2

(* Handlers that an update of Kontexte starts have something to do. *)
LEMMA LdapUpdateTyped ==
  ASSUME NEW e \in Nat, NEW u \in Usernames, NEW new, NEW removed, NEW current, NEW t \in LdapUpdate(e, u, new, removed, current)
  PROVE  t \in LdapTasks /\ t.remove \union t.create # {} /\ t.op = "kontexte"
<1>1. /\ t = [op |-> "kontexte", event |-> e, name |-> u, create |-> LehrerAt(new),
           remove |-> {s \in LehrerAt(removed) : ~HatZuordnungNachLoeschen(current, s)}]
      /\ t.remove \union t.create # {}
  BY DEF LdapUpdate
<1>2. LehrerAt(new) \subseteq Kennungen /\ LehrerAt(removed) \subseteq Kennungen
  BY DEF LehrerAt
<1>3. {s \in LehrerAt(removed) : ~HatZuordnungNachLoeschen(current, s)} \subseteq Kennungen
  BY <1>2
<1>4. QED
  BY <1>1, <1>2, <1>3 DEF LdapTasks

(* A Kontext that can be assigned is a Kontext. *)
LEMMA SlotsAreKontexte == Slots \subseteq Kontexte
BY ReplicasAssumption DEF Kontexte

(* The handler that replicates some Kontexte, as an event or a synchronisation starts it. *)
LEMMA ReplicationTyped ==
  ASSUME NEW op \in {"updated", "sync"}, NEW u \in Usernames, NEW kk, kk \subseteq Kontexte, NEW role \in RolesOfPersons
  PROVE  Replication(op, u, Relevant(kk), role) \in KontextHandlers /\ Replication(op, u, Relevant(kk), role) \in Handlers
<1>1. Relevant(kk) \subseteq Kontexte
  BY DEF Relevant
<1>2. Replication(op, u, Relevant(kk), role) \in KontextHandlers
  BY <1>1 DEF KontextHandlers, Replication
<1>3. QED
  BY <1>2, HandlerKinds

(* The handlers that events put in the queue. *)
LEMMA PublishedTyped ==
  ASSUME NEW u \in Usernames, NEW kk, kk \subseteq Kontexte
  PROVE  /\ KontexteUpdated(u, kk) \in Waiting
         /\ Renamed(u) \in Waiting /\ OxUserChanged \in Waiting
         /\ SyncRead(u, kk) \in Handlers /\ SyncRead(u, kk).op = "sync"
<1>1. Relevant(kk) \subseteq Kontexte /\ {k \in kk : k.rolle \in ItslearningRolle} \subseteq Kontexte
  BY DEF Relevant
<1>2. KontexteUpdated(u, kk) \in Handlers /\ KontexteUpdated(u, kk).op = "updated" /\ KontexteUpdated(u, kk).name = u
  <2>1. InstitutionRole(HighestRollenart(Arten(Relevant(kk)), SYSADMIN)) \in RolesOfPersons
    BY <1>1, RoleTyped
  <2>2. PICK role \in RolesOfPersons : role = InstitutionRole(HighestRollenart(Arten(Relevant(kk)), SYSADMIN))
    BY <2>1
  <2>3. KontexteUpdated(u, kk) = Replication("updated", u, Relevant(kk), role)
    BY <2>2 DEF KontexteUpdated
  <2>4. QED
    BY <2>3, ReplicationTyped DEF Replication
<1>3. SyncRead(u, kk) \in Handlers /\ SyncRead(u, kk).op = "sync"
  <2> DEFINE rollen == {k \in kk : k.rolle \in ItslearningRolle}
  <2>1. InstitutionRole(HighestRollenart(Arten(rollen), SYSADMIN)) \in RolesOfPersons
    <3> HIDE DEF rollen
    <3>1. rollen \subseteq Kontexte
      BY <1>1 DEF rollen
    <3>2. QED
      BY <3>1, RoleTyped
  <2>2. PICK role \in RolesOfPersons : role = InstitutionRole(HighestRollenart(Arten(rollen), SYSADMIN))
    BY <2>1
  <2>3. SyncRead(u, kk) = Replication("sync", u, Relevant(kk), role)
    BY <2>2 DEF SyncRead
  <2>4. QED
    BY <2>3, ReplicationTyped DEF Replication
<1>4. "GUEST" \in RolesOfPersons
  <2>1. InstitutionRole(0) = "GUEST" /\ 0 \in Rollenarten
    BY DEF InstitutionRole, Rollenarten, EXTERN, SYSADMIN
  <2>2. QED
    BY <2>1 DEF RolesOfPersons
<1>5. Renamed(u) \in Handlers /\ OxUserChanged \in Handlers
  <2>1. Renamed(u) \in NameHandlers /\ OxUserChanged \in NameHandlers
    BY <1>4 DEF Renamed, OxUserChanged, NameHandlers
  <2>2. QED
    BY <2>1, HandlerKinds
<1>6. QED
  BY <1>2, <1>3, <1>5 DEF Waiting, Named, Renamed, OxUserChanged

(* The operations on tokens that requests and events start. *)
LEMMA TaskTyped ==
  ASSUME NEW u \in Usernames, NEW v \in Usernames, NEW s \in Serials
  PROVE  {InitializeSoftwareToken(u), AssignHardwareToken(u, s), ResetToken(u), VerifyTokenEnrollment(u),
          UpdateUsername(u, v), PersonDeleted(u)} \subseteq TokenTasks
<1>1. InitializeSoftwareToken(u) \in TokenTasks /\ AssignHardwareToken(u, s) \in TokenTasks /\ UpdateUsername(u, v) \in TokenTasks
  BY DEF InitializeSoftwareToken, AssignHardwareToken, UpdateUsername, Task, TokenTasks, StepsOf
<1>2. ResetToken(u) \in TokenTasks /\ VerifyTokenEnrollment(u) \in TokenTasks
  BY DEF ResetToken, VerifyTokenEnrollment, Task, TokenTasks, StepsOf
<1>3. PersonDeleted(u) \in TokenTasks
  BY DEF PersonDeleted, Task, TokenTasks, StepsOf
<1>4. QED
  BY <1>1, <1>2, <1>3

-----------------------------------------------------------------------------
(* Parts that a step adds to or leaves alone                               *)

LEMMA KeptTyped ==
  /\ GroupsTypeOK /\ UNCHANGED groupVars => GroupsTypeOK'
  /\ ItslearningTyped /\ UNCHANGED itslearningVars => ItslearningTyped'
  /\ TokensTyped /\ UNCHANGED tokenVars => TokensTyped'
  /\ LdapTyped /\ UNCHANGED ldapVars => LdapTyped'
<1>1. GroupsTypeOK /\ UNCHANGED groupVars => GroupsTypeOK'
  BY DEF GroupsTypeOK, groupVars
<1>2. ItslearningTyped /\ UNCHANGED itslearningVars => ItslearningTyped'
  BY DEF ItslearningTyped, itslearningVars, ItslearningTypeOK, PersonsInRoot
<1>3. TokensTyped /\ UNCHANGED tokenVars => TokensTyped'
  BY DEF TokensTyped, tokenVars, TokensTypeOK, OwnersAreUsers
<1>4. LdapTyped /\ UNCHANGED ldapVars => LdapTyped'
  BY DEF LdapTyped, ldapVars, LdapTypeOK
<1>5. QED
  BY <1>1, <1>2, <1>3, <1>4

(* Only the synchronisations change, ... *)
LEMMA SyncsTyped ==
  ASSUME ItslearningTyped, UNCHANGED <<person, memberships, queue>>, syncs' \subseteq Syncs
  PROVE  ItslearningTyped'
BY DEF ItslearningTyped, ItslearningTypeOK, PersonsInRoot

(* ... as when another request or handler overlaps them, ... *)
LEMMA SyncsAlone == syncs \subseteq Syncs => {[s EXCEPT !.alone = FALSE] : s \in syncs} \subseteq Syncs
<1>1. ASSUME NEW s \in Syncs PROVE [s EXCEPT !.alone = FALSE] \in Syncs
  <2> DEFINE H == {[op |-> "sync", at |-> "findPerson"]} \union [op : {"sync"}, at : {"findKontexte"}, name : Usernames]
             \union {h \in Handlers : h.op = "sync"}
  <2>1. Syncs = [id : Nat, alone : BOOLEAN, handler : H]
    BY DEF Syncs
  <2> HIDE DEF H
  <2>2. QED
    BY <2>1
<1>2. QED
  BY <1>1

(* ... and a handler waits for the mutex. *)
LEMMA EnqueueTyped ==
  ASSUME ItslearningTyped, UNCHANGED <<person, memberships>>, syncs' \subseteq Syncs, NEW h \in Waiting, Enqueue(h)
  PROVE  ItslearningTyped'
<1>1. queue' \in Seq(Waiting)
  <2>1. queue \in Seq(Waiting) /\ (IF observed = "itslearning" THEN <<h>> ELSE <<>>) \in Seq(Waiting)
    BY DEF ItslearningTyped
  <2>2. QED
    BY <2>1 DEF Enqueue
<1>2. QED
  BY <1>1 DEF ItslearningTyped, ItslearningTypeOK, PersonsInRoot

(* An operation on tokens starts. *)
LEMMA StartTokenTyped ==
  ASSUME TokensTyped, NEW t \in TokenTasks, StartTokenTask(t)
  PROVE  TokensTyped'
<1>1. piTasks' \subseteq piTasks \union {t} /\ UNCHANGED <<piUsers, owner, rollout, theirs>>
  BY DEF StartTokenTask, Shown
<1>2. QED
  BY <1>1 DEF TokensTyped, TokensTypeOK, OwnersAreUsers

(* Handlers of LDAP start. *)
LEMMA StartLdapTyped ==
  ASSUME LdapTyped, NEW T, T \subseteq LdapTasks, \A t \in T : t.op = "kontexte" => t.remove \union t.create # {},
         NEW kept, kept \subseteq Kennungen, NEW more, more \subseteq Kennungen, UNCHANGED <<entries, members>>,
         ldapTasks' = ldapTasks \union T, lingering' = lingering \union kept, leftOut' = leftOut \union more
  PROVE  LdapTyped'
<1>1. LdapRest' /\ LdapRest
  BY DEF LdapTyped, LdapRest
<1>2. \A x \in ldapTasks' : LdapTaskOK(x)
  BY <1>1, LdapTasksTyped DEF LdapRest
<1>3. lingering' \subseteq Kennungen /\ leftOut' \subseteq Kennungen
  BY DEF LdapTyped, LdapTypeOK
<1>4. QED
  BY <1>1, <1>2, <1>3 DEF LdapTyped, LdapRest, LdapTypeOK, LdapTaskOK
-----------------------------------------------------------------------------
(* The publishers                                                          *)

LEMMA RequestKinds ==
  ASSUME NEW r \in Requests
  PROVE  /\ r.op \in {"none", "update", "migration", "rename", "delete"}
         /\ r.op = "none" <=> r = Idle
         /\ r.op = "update" => r \in [op : {"update"}, at : {"read", "load", "publish"}, new : SUBSET Slots,
                                     removed : SUBSET Slots, current : SUBSET Slots, name : Usernames]
         /\ r.op = "migration" => r \in [op : {"migration"}, at : {"save"}, kontext : Slots, standard : BOOLEAN, name : Usernames]
         /\ r.op = "rename" => r \in [op : {"rename"}, at : {"publish"}, old : Usernames, name : Usernames]
         /\ r.op = "delete" => r \in [op : {"delete"}, at : {"publish", "remove"}, name : Usernames]
<1>1. r = Idle \/ r # Idle
  OBVIOUS
<1>2. CASE r = Idle
  BY <1>2 DEF Idle
<1>3. CASE r # Idle
  BY <1>3 DEF Idle, Requests
<1>4. QED
  BY <1>1, <1>2, <1>3

(* A request about the person begins, ... *)
LEMMA BeginTyped ==
  ASSUME RepTyped, NEW c \in Clients, NEW r \in Requests, Begin(c, r),
         present' = present, name' \in used', used' \subseteq Usernames, kontexte' \subseteq Slots, present \/ kontexte' = kontexte
  PROVE  RepTyped'
<1>1. syncs' \subseteq Syncs
  <2>1. syncs \subseteq Syncs
    BY DEF RepTyped, ItslearningTyped
  <2>2. QED
    BY <2>1, SyncsAlone DEF Begin
<1>2. ItslearningTyped'
  BY <1>1, SyncsTyped DEF Begin, RepTyped
<1>3. GroupsTypeOK' /\ TokensTyped' /\ LdapTyped'
  BY KeptTyped DEF Begin, RepTyped
<1>4. req' \in [Clients -> Requests]
  BY DEF Begin, RepTyped
<1>5. inOrder' \in BOOLEAN
  <2>1. inOrder' = TRUE \/ inOrder' = FALSE
    BY DEF Begin, RepTyped, DatabaseTyped
  <2>2. QED
    BY <2>1
<1>6. requests' \in 0..MaxRequests
  <2>1. requests \in 0..MaxRequests /\ requests < MaxRequests /\ requests' = requests + 1
    BY DEF Begin, RepTyped, DatabaseTyped
  <2>2. MaxRequests \in Nat
    BY ReplicasAssumption
  <2>3. QED
    BY <2>1, <2>2
<1>7. DatabaseTyped'
  BY <1>5, <1>6 DEF Begin, RepTyped, DatabaseTyped
<1>8. QED
  BY <1>2, <1>3, <1>4, <1>7 DEF RepTyped

(* ... an update, a migration, a renaming or a deletion, ... *)
LEMMA BeginnersTyped ==
  ASSUME RepTyped, NEW c \in Clients, UpdateBegins(c) \/ MigrationBegins(c) \/ RenameBegins(c) \/ DeleteBegins(c)
  PROVE  RepTyped'
<1>n. name \in Usernames /\ name \in used /\ used \subseteq Usernames /\ kontexte \subseteq Slots
  BY DEF RepTyped, DatabaseTyped
<1>1. CASE UpdateBegins(c)
  <2>1. PICK target \in SUBSET Slots :
          /\ present /\ kontexte' = target /\ UNCHANGED <<present, name, used>>
          /\ Begin(c, [op |-> "update", at |-> "read", new |-> target \ kontexte,
                 removed |-> kontexte \ target, current |-> {}, name |-> name])
    BY <1>1 DEF UpdateBegins
  <2>2. [op |-> "update", at |-> "read", new |-> target \ kontexte,
                 removed |-> kontexte \ target, current |-> {}, name |-> name] \in Requests
    BY <1>n DEF Requests
  <2>3. QED
    BY <2>1, <2>2, <1>n, BeginTyped
<1>2. CASE MigrationBegins(c)
  <2>1. PICK k \in Slots, standard \in BOOLEAN :
          Begin(c, [op |-> "migration", at |-> "save", kontext |-> k, standard |-> standard, name |-> name])
    BY <1>2 DEF MigrationBegins
  <2>2. [op |-> "migration", at |-> "save", kontext |-> k, standard |-> standard, name |-> name] \in Requests
    BY <1>n DEF Requests
  <2>3. UNCHANGED database
    BY <1>2 DEF MigrationBegins
  <2>4. QED
    BY <2>1, <2>2, <2>3, <1>n, BeginTyped DEF database
<1>3. CASE RenameBegins(c)
  <2>1. PICK u \in Usernames \ used :
          /\ present /\ name' = u /\ used' = used \union {u} /\ UNCHANGED <<present, kontexte>>
          /\ Begin(c, [op |-> "rename", at |-> "publish", old |-> name, name |-> u])
    BY <1>3 DEF RenameBegins
  <2>2. [op |-> "rename", at |-> "publish", old |-> name, name |-> u] \in Requests
    BY <1>n DEF Requests
  <2>3. QED
    BY <2>1, <2>2, <1>n, BeginTyped
<1>4. CASE DeleteBegins(c)
  <2>1. Begin(c, [op |-> "delete", at |-> "publish", name |-> name]) /\ UNCHANGED database
    BY <1>4 DEF DeleteBegins
  <2>2. [op |-> "delete", at |-> "publish", name |-> name] \in Requests
    BY <1>n DEF Requests
  <2>3. QED
    BY <2>1, <2>2, <1>n, BeginTyped DEF database
<1>5. QED
  BY <1>1, <1>2, <1>3, <1>4

(* ... and ends. *)
LEMMA EndTyped == ASSUME req \in [Clients -> Requests], NEW c \in Clients, EndRequest(c) PROVE req' \in [Clients -> Requests]
BY DEF EndRequest, Requests

(* An update reads the Kontexte and the person. *)
LEMMA UpdatesOnTyped ==
  ASSUME RepTyped, NEW c \in Clients, UpdateReads(c) \/ UpdateLoadsPerson(c)
  PROVE  RepTyped'
<1>1. req[c] \in Requests /\ req[c].op = "update"
  BY DEF RepTyped, UpdateReads, UpdateLoadsPerson, At
<1>2. req[c] \in [op : {"update"}, at : {"read", "load", "publish"}, new : SUBSET Slots,
                                     removed : SUBSET Slots, current : SUBSET Slots, name : Usernames]
  BY <1>1, RequestKinds
<1>3. req' \in [Clients -> Requests]
  <2>1. CASE UpdateReads(c)
    <3>1. [req[c] EXCEPT !.at = "load", !.current = kontexte] \in Requests
      BY <1>2 DEF Requests, RepTyped, DatabaseTyped
    <3>2. req' = [req EXCEPT ![c] = [req[c] EXCEPT !.at = "load", !.current = kontexte]]
      BY <2>1, <1>2 DEF UpdateReads, RepTyped
    <3>3. QED
      BY <3>1, <3>2 DEF RepTyped
  <2>2. CASE UpdateLoadsPerson(c)
    <3>1. [req[c] EXCEPT !.at = "publish", !.name = name] \in Requests
      BY <1>2 DEF Requests, RepTyped, DatabaseTyped
    <3>2. EndRequest(c) \/ req' = [req EXCEPT ![c] = [req[c] EXCEPT !.at = "publish", !.name = name]]
      BY <2>2, <1>2 DEF UpdateLoadsPerson, RepTyped
    <3>3. QED
      BY <3>1, <3>2, EndTyped DEF RepTyped
  <2>3. QED
    BY <2>1, <2>2
<1>4. UNCHANGED <<database, counters, history, groupVars, itslearningVars, tokenVars, ldapVars>>
  BY DEF UpdateReads, UpdateLoadsPerson
<1>5. QED
  BY <1>3, <1>4, KeptTyped DEF RepTyped, DatabaseTyped, database, counters, history

\* Publishing and removing leave the tables' types.
LEMMA DatabaseKept ==
  ASSUME DatabaseTyped, UNCHANGED <<present, name, used, kontexte, requests, failures, observed>>,
         published' \in {published, published + 1}, inOrder' \in BOOLEAN
  PROVE  DatabaseTyped'
BY DEF DatabaseTyped

(* An update is published. *)
LEMMA PublishUpdateTyped ==
  ASSUME RepTyped, NEW c \in Clients, PublishKontextUpdated(c)
  PROVE  RepTyped'
<1>1. PICK r : r = req[c]
  OBVIOUS
<1>2. r \in [op : {"update"}, at : {"read", "load", "publish"}, new : SUBSET Slots,
                                     removed : SUBSET Slots, current : SUBSET Slots, name : Usernames]
  BY <1>1, RequestKinds DEF RepTyped, PublishKontextUpdated, At
<1>3. req' \in [Clients -> Requests]
  BY EndTyped DEF PublishKontextUpdated, RepTyped
<1>p. published \in Nat
  BY DEF RepTyped, DatabaseTyped
<1>4. GroupsTypeOK'
  <2>1. RollenOf(r.new) \subseteq Rollen /\ RollenOf(r.removed) \subseteq Rollen
    <3>1. \A k \in Slots : k.rolle \in Rollen
      BY ReplicasAssumption
    <3>2. r.new \subseteq Slots /\ r.removed \subseteq Slots
      BY <1>2
    <3>3. QED
      BY <3>1, <3>2 DEF RollenOf
  <2>2. UpdatesOf(published, RollenOf(r.new), RollenOf(r.removed), RollenOf(r.current)) \subseteq Update
    BY <2>1, <1>p, UpdatesTyped
  <2>3. updates' \subseteq updates \union UpdatesOf(published, RollenOf(r.new), RollenOf(r.removed), RollenOf(r.current))
    BY <1>1 DEF PublishKontextUpdated, Shown
  <2>4. QED
    BY <2>2, <2>3 DEF PublishKontextUpdated, GroupsTypeOK, RepTyped
<1>5. ItslearningTyped'
  <2>1. KontexteUpdated(r.name, r.current) \in Waiting
    BY <1>2, PublishedTyped, SlotsAreKontexte
  <2>2. Enqueue(KontexteUpdated(r.name, r.current)) /\ UNCHANGED <<person, memberships, syncs>>
    BY <1>1 DEF PublishKontextUpdated
  <2>3. QED
    BY <2>1, <2>2, EnqueueTyped DEF RepTyped, ItslearningTyped
<1>6. LdapTyped'
  <2> DEFINE T == Shown("ldap", LdapUpdate(published, r.name, r.new, r.removed, r.current))
             kept == Shown("ldap", (LehrerAt(r.removed) \ LehrerAt(r.current)) \intersect {k.orga : k \in r.current})
  <2>1. \A t \in T : t \in LdapTasks /\ t.remove \union t.create # {}
    BY <1>2, <1>p, LdapUpdateTyped DEF Shown
  <2>2. kept \subseteq Kennungen
    BY DEF Shown, LehrerAt
  <2>3. StartLdap(T, kept)
    BY <1>1 DEF PublishKontextUpdated
  <2> HIDE DEF T, kept
  <2>4. leftOut' = leftOut \union {}
    BY <2>3 DEF StartLdap
  <2> DEFINE none == {}
  <2>5. none \subseteq Kennungen /\ leftOut' = leftOut \union none
    BY <2>4
  <2> HIDE DEF none
  <2>6. QED
    BY <2>1, <2>2, <2>3, <2>5, StartLdapTyped DEF StartLdap, RepTyped
<1>7. TokensTyped'
  BY KeptTyped DEF PublishKontextUpdated, RepTyped
<1>8. DatabaseTyped'
  <2>1. inOrder' \in BOOLEAN
    <3>1. inOrder' = FALSE \/ inOrder' = TRUE
      BY DEF PublishKontextUpdated, RepTyped, DatabaseTyped
    <3>2. QED
      BY <3>1
  <2>2. QED
    BY <2>1, DatabaseKept DEF PublishKontextUpdated, RepTyped, database
<1>9. QED
  BY <1>3, <1>4, <1>5, <1>6, <1>7, <1>8 DEF RepTyped

(* A migration saves its Kontext. *)
LEMMA MigrationTyped ==
  ASSUME RepTyped, NEW c \in Clients, MigrationSaves(c)
  PROVE  RepTyped'
<1>1. PICK r : r = req[c]
  OBVIOUS
<1>2. r \in [op : {"migration"}, at : {"save"}, kontext : Slots, standard : BOOLEAN, name : Usernames]
  BY <1>1, RequestKinds DEF RepTyped, MigrationSaves, At
<1>3. req' \in [Clients -> Requests]
  BY EndTyped DEF MigrationSaves, RepTyped
<1>p. published \in Nat
  BY DEF RepTyped, DatabaseTyped
<1>4. GroupsTypeOK' /\ ItslearningTyped' /\ TokensTyped'
  BY KeptTyped DEF MigrationSaves, RepTyped
<1>5. CASE present /\ r.kontext \notin kontexte
  <2>1. /\ kontexte' = kontexte \union {r.kontext}
        /\ StartLdapMigration(published, r.name, r.kontext, r.standard)
        /\ published' = published + 1 /\ inOrder' = (inOrder /\ ldapTasks = {})
    BY <1>1, <1>5 DEF MigrationSaves
  <2> DEFINE at == LehrerAt({r.kontext})
  <2>2. at \subseteq Kennungen
    BY DEF LehrerAt
  <2> DEFINE T == IF r.standard THEN {[op |-> "migration", event |-> published, name |-> r.name, at |-> s] : s \in at} ELSE {}
             more == IF r.standard THEN {} ELSE at
             none == {}
  <2>3. T \subseteq LdapTasks /\ \A t \in T : t.op = "migration"
    BY <1>2, <1>p, <2>2 DEF LdapTasks
  <2>4. ldapTasks' = ldapTasks \union T /\ leftOut' = leftOut \union more /\ lingering' = lingering \union none
        /\ UNCHANGED <<entries, members>>
    BY <2>1 DEF StartLdapMigration
  <2>5. more \subseteq Kennungen /\ none \subseteq Kennungen
    BY <2>2
  <2> HIDE DEF T, more, none
  <2>6. LdapTyped'
    BY <2>3, <2>4, <2>5, StartLdapTyped DEF RepTyped
  <2>7. inOrder' \in BOOLEAN
    <3>1. inOrder' = FALSE \/ inOrder' = TRUE
      BY <2>1 DEF RepTyped, DatabaseTyped
    <3>2. QED
      BY <3>1
  <2>8. DatabaseTyped'
    BY <2>1, <2>7, <1>2, <1>5 DEF MigrationSaves, RepTyped, DatabaseTyped
  <2>9. QED
    BY <1>3, <1>4, <2>6, <2>8 DEF RepTyped
<1>6. CASE ~(present /\ r.kontext \notin kontexte)
  <2>1. UNCHANGED <<kontexte, published, inOrder, ldapVars>>
    BY <1>1, <1>6 DEF MigrationSaves
  <2>2. LdapTyped' /\ DatabaseTyped'
    BY <2>1, KeptTyped DEF MigrationSaves, RepTyped, DatabaseTyped
  <2>3. QED
    BY <1>3, <1>4, <2>2 DEF RepTyped
<1>7. QED
  BY <1>5, <1>6

(* A renaming is published. *)
LEMMA PublishRenamedTyped ==
  ASSUME RepTyped, NEW c \in Clients, PublishRenamed(c)
  PROVE  RepTyped'
<1>1. PICK r : r = req[c]
  OBVIOUS
<1>2. r \in [op : {"rename"}, at : {"publish"}, old : Usernames, name : Usernames]
  BY <1>1, RequestKinds DEF RepTyped, PublishRenamed, At
<1>3. req' \in [Clients -> Requests]
  BY EndTyped DEF PublishRenamed, RepTyped
<1>4. GroupsTypeOK'
  BY KeptTyped DEF PublishRenamed, RepTyped
<1>5. ItslearningTyped'
  <2>1. Renamed(r.name) \in Waiting
    <3> DEFINE none == {}
    <3>1. none \subseteq Kontexte
      OBVIOUS
    <3> HIDE DEF none
    <3>2. QED
      BY <1>2, <3>1, PublishedTyped
  <2>2. Enqueue(Renamed(r.name)) /\ UNCHANGED <<person, memberships, syncs>>
    BY <1>1 DEF PublishRenamed
  <2>3. QED
    BY <2>1, <2>2, EnqueueTyped DEF RepTyped, ItslearningTyped
<1>6. TokensTyped'
  <2>1. UpdateUsername(r.old, r.name) \in TokenTasks
    BY <1>2 DEF UpdateUsername, Task, TokenTasks, StepsOf
  <2>2. QED
    BY <1>1, <2>1, StartTokenTyped DEF PublishRenamed, RepTyped
<1>7. LdapTyped'
  <2> DEFINE T == Shown("ldap", {LdapRenamed(r.old, r.name)})
             none == {}
  <2>1. \A t \in T : t \in LdapTasks /\ t.op = "renamed"
    BY <1>2 DEF Shown, LdapRenamed, LdapTasks
  <2>2. StartLdap(T, {})
    BY <1>1 DEF PublishRenamed
  <2>3. ldapTasks' = ldapTasks \union T /\ leftOut' = leftOut \union none /\ lingering' = lingering \union none
        /\ UNCHANGED <<entries, members>> /\ none \subseteq Kennungen
    BY <2>2 DEF StartLdap
  <2> HIDE DEF T, none
  <2>4. QED
    BY <2>1, <2>3, StartLdapTyped DEF RepTyped
<1>8. DatabaseTyped'
  <2>1. inOrder' \in BOOLEAN
    <3>1. inOrder' = FALSE \/ inOrder' = TRUE
      BY DEF PublishRenamed, RepTyped, DatabaseTyped
    <3>2. QED
      BY <3>1
  <2>2. QED
    BY <2>1, DatabaseKept DEF PublishRenamed, RepTyped, database, counters
<1>9. QED
  BY <1>3, <1>4, <1>5, <1>6, <1>7, <1>8 DEF RepTyped

(* A deletion is published. *)
LEMMA PublishDeletedTyped ==
  ASSUME RepTyped, NEW c \in Clients, PublishDeleted(c)
  PROVE  RepTyped'
<1>1. PICK r : r = req[c]
  OBVIOUS
<1>2. r \in [op : {"delete"}, at : {"publish", "remove"}, name : Usernames]
  BY <1>1, RequestKinds DEF RepTyped, PublishDeleted, At
<1>3. req' \in [Clients -> Requests]
  <2>1. [r EXCEPT !.at = "remove"] \in Requests
    BY <1>2 DEF Requests
  <2>2. req' = [req EXCEPT ![c] = [r EXCEPT !.at = "remove"]]
    BY <1>1 DEF PublishDeleted, Goto, RepTyped
  <2>3. QED
    BY <2>1, <2>2 DEF RepTyped
<1>p. published \in Nat
  BY DEF RepTyped, DatabaseTyped
<1> DEFINE none == {}
<1>n. none = {} /\ none \subseteq Kontexte /\ none \subseteq Kennungen
  OBVIOUS
<1> HIDE DEF none
<1>4. GroupsTypeOK'
  BY KeptTyped DEF PublishDeleted, RepTyped
<1>5. ItslearningTyped'
  <2>1. KontexteUpdated(r.name, none) \in Waiting
    BY <1>2, <1>n, PublishedTyped
  <2>2. Enqueue(KontexteUpdated(r.name, none)) /\ UNCHANGED <<person, memberships, syncs>>
    BY <1>1, <1>n DEF PublishDeleted
  <2>3. QED
    BY <2>1, <2>2, EnqueueTyped DEF RepTyped, ItslearningTyped
<1>6. TokensTyped'
  <2>1. PersonDeleted(r.name) \in TokenTasks
    BY <1>2 DEF PersonDeleted, Task, TokenTasks, StepsOf
  <2>2. QED
    BY <1>1, <2>1, StartTokenTyped DEF PublishDeleted, RepTyped
<1>7. LdapTyped'
  <2> DEFINE U == LdapUpdate(published, r.name, none, kontexte, none)
             T == Shown("ldap", {LdapDeleted(r.name)} \union U)
  <2>1. \A t \in U : t \in LdapTasks /\ t.remove \union t.create # {}
    BY <1>2, <1>p, LdapUpdateTyped
  <2>2. LdapDeleted(r.name) \in LdapTasks /\ LdapDeleted(r.name).op = "deleted"
    BY <1>2 DEF LdapDeleted, LdapTasks
  <2>3. StartLdap(T, none)
    BY <1>1, <1>n DEF PublishDeleted
  <2> HIDE DEF U
  <2>4. \A t \in T : t \in LdapTasks /\ (t.op = "kontexte" => t.remove \union t.create # {})
    BY <2>1, <2>2 DEF Shown
  <2>5. ldapTasks' = ldapTasks \union T /\ leftOut' = leftOut \union none /\ lingering' = lingering \union none
        /\ UNCHANGED <<entries, members>>
    BY <2>3, <1>n DEF StartLdap
  <2> HIDE DEF T
  <2>6. QED
    BY <2>4, <2>5, <1>n, StartLdapTyped DEF RepTyped
<1>8. DatabaseTyped'
  <2>1. inOrder' \in BOOLEAN
    <3>1. inOrder' = FALSE \/ inOrder' = TRUE
      BY DEF PublishDeleted, RepTyped, DatabaseTyped
    <3>2. QED
      BY <3>1
  <2>2. QED
    BY <2>1, DatabaseKept DEF PublishDeleted, RepTyped, database
<1>9. QED
  BY <1>3, <1>4, <1>5, <1>6, <1>7, <1>8 DEF RepTyped

(* The person's row is removed. *)
LEMMA RemoveTyped ==
  ASSUME RepTyped, NEW c \in Clients, RemovePerson(c)
  PROVE  RepTyped'
<1>1. req' \in [Clients -> Requests]
  BY EndTyped DEF RemovePerson, RepTyped
<1>2. DatabaseTyped'
  BY DEF RemovePerson, RepTyped, DatabaseTyped, counters, history
<1>3. QED
  BY <1>1, <1>2, KeptTyped DEF RemovePerson, RepTyped

(* An address changes in OX, or a synchronisation begins. *)
LEMMA OthersTyped ==
  ASSUME RepTyped, NEW c \in Clients, PublishOxUserChanged(c) \/ SyncBegins(c)
  PROVE  RepTyped'
<1>1. syncs \subseteq Syncs /\ requests \in 0..MaxRequests /\ MaxRequests \in Nat
  BY ReplicasAssumption DEF RepTyped, ItslearningTyped, DatabaseTyped
<1>2. syncs' \subseteq Syncs /\ UNCHANGED <<person, memberships>>
  <2>1. CASE PublishOxUserChanged(c)
    BY <2>1, <1>1, SyncsAlone DEF PublishOxUserChanged
  <2>2. CASE SyncBegins(c)
    <3> DEFINE alone == ~Requested /\ ItslearningQuiet
    <3>1. alone \in BOOLEAN
      BY DEF Requested, ItslearningQuiet
    <3> HIDE DEF alone
    <3>2. [id |-> requests, alone |-> alone, handler |-> [op |-> "sync", at |-> "findPerson"]] \in Syncs
      BY <3>1, <1>1 DEF Syncs
    <3>3. syncs' = {[s EXCEPT !.alone = FALSE] : s \in syncs} \union
              {[id |-> requests, alone |-> alone, handler |-> [op |-> "sync", at |-> "findPerson"]]}
      BY <2>2 DEF SyncBegins, alone
    <3>4. QED
      BY <2>2, <3>2, <3>3, <1>1, SyncsAlone DEF SyncBegins
  <2>3. QED
    BY <2>1, <2>2
<1>3. ItslearningTyped'
  <2>1. CASE PublishOxUserChanged(c)
    <3>0. OxUserChanged \in Waiting
      <4> DEFINE none == {}
      <4>1. none \subseteq Kontexte /\ name \in Usernames
        BY DEF RepTyped, DatabaseTyped
      <4> HIDE DEF none
      <4>2. QED
        BY <4>1, PublishedTyped
    <3>1. QED
      BY <2>1, <1>2, <3>0, EnqueueTyped DEF PublishOxUserChanged, RepTyped
  <2>2. CASE SyncBegins(c)
    BY <2>2, <1>2, SyncsTyped DEF SyncBegins, RepTyped
  <2>3. QED
    BY <2>1, <2>2
<1>4. requests' \in 0..MaxRequests
  <2>1. requests' = requests + 1 /\ requests < MaxRequests
    BY DEF PublishOxUserChanged, SyncBegins
  <2>2. QED
    BY <1>1, <2>1
<1>5. inOrder' \in BOOLEAN
  <2>1. inOrder' = FALSE \/ inOrder' = TRUE
    BY DEF PublishOxUserChanged, SyncBegins, RepTyped, DatabaseTyped
  <2>2. QED
    BY <2>1
<1>6. /\ UNCHANGED <<database, req, published, failures, observed, groupVars, tokenVars, ldapVars>>
  BY DEF PublishOxUserChanged, SyncBegins
<1>7. QED
  BY <1>3, <1>4, <1>5, <1>6, KeptTyped DEF RepTyped, DatabaseTyped, database

(* A request about tokens. *)
LEMMA TokenRequestTyped == RepTyped /\ TokenRequest => RepTyped'
<1> SUFFICES ASSUME RepTyped, TokenRequest PROVE RepTyped'
  OBVIOUS
<1>1. requests \in 0..MaxRequests /\ MaxRequests \in Nat /\ name \in Usernames /\ Hardware \subseteq Serials
  BY ReplicasAssumption DEF RepTyped, DatabaseTyped
<1>2. \E t \in TokenTasks : StartTokenTask(t)
  <2>1. InitializeSoftwareToken(name) \in TokenTasks /\ \A s \in Hardware : AssignHardwareToken(name, s) \in TokenTasks
    BY <1>1 DEF InitializeSoftwareToken, AssignHardwareToken, Task, TokenTasks, StepsOf
  <2>2. ResetToken(name) \in TokenTasks /\ VerifyTokenEnrollment(name) \in TokenTasks
    BY <1>1 DEF ResetToken, VerifyTokenEnrollment, Task, TokenTasks, StepsOf
  <2>3. \/ StartTokenTask(InitializeSoftwareToken(name)) \/ (\E s \in Hardware : StartTokenTask(AssignHardwareToken(name, s)))
        \/ StartTokenTask(ResetToken(name)) \/ StartTokenTask(VerifyTokenEnrollment(name))
    BY Zenon DEF TokenRequest
  <2>4. QED
    BY <2>1, <2>2, <2>3, Zenon
<1>3. TokensTyped'
  BY <1>2, StartTokenTyped DEF RepTyped
<1>4. requests' \in 0..MaxRequests
  <2>1. requests' = requests + 1 /\ requests < MaxRequests
    BY DEF TokenRequest
  <2>2. QED
    BY <1>1, <2>1
<1>5. inOrder' \in BOOLEAN
  <2>1. inOrder' = FALSE \/ inOrder' = TRUE
    BY DEF TokenRequest, RepTyped, DatabaseTyped
  <2>2. QED
    BY <2>1
<1>6. UNCHANGED <<database, req, published, failures, observed, groupVars, itslearningVars, ldapVars>>
  BY DEF TokenRequest
<1>7. QED
  BY <1>3, <1>4, <1>5, <1>6, KeptTyped DEF RepTyped, DatabaseTyped, database

(* A call fails, or nothing of the database changes. *)
LEMMA FaultTyped ==
  ASSUME DatabaseTyped, UNCHANGED <<database, published, requests, observed>>, Fault \/ UNCHANGED failures, inOrder' \in BOOLEAN
  PROVE  DatabaseTyped'
<1>1. failures' \in 0..MaxFailures
  <2>1. MaxFailures \in Nat /\ failures \in 0..MaxFailures
    BY ReplicasAssumption DEF DatabaseTyped
  <2>2. (failures < MaxFailures /\ failures' = failures + 1) \/ failures' = failures
    BY DEF Fault
  <2>3. QED
    BY <2>1, <2>2
<1>2. QED
  BY <1>1 DEF DatabaseTyped, database

(* The handler that has the mutex goes on. *)
LEMMA ServeTyped == RepTyped /\ ServeQueue => RepTyped'
<1> SUFFICES ASSUME RepTyped, ServeQueue PROVE RepTyped'
  OBVIOUS
<1>1. PICK h : h = Head(queue)
  OBVIOUS
<1>2. queue # <<>> /\ queue \in Seq(Waiting) /\ ItslearningTypeOK /\ PersonsInRoot
  BY DEF ServeQueue, RepTyped, ItslearningTyped
<1>3. h \in Waiting /\ Tail(queue) \in Seq(Waiting)
  BY <1>1, <1>2
<1>4. PICK next : queue' = Remaining(next) \o Tail(queue) /\ next \in {After(h), AfterError(h)}
  BY <1>1 DEF ServeQueue
<1>5. next = Done \/ next \in Waiting
  <2>1. h \in Handlers /\ Named(h) /\ h.op # "sync"
    BY <1>3 DEF Waiting
  <2>2. next = Done \/ (next \in Handlers /\ next.op = h.op /\ Named(next))
    BY <2>1, <1>2, <1>4, AfterTyped
  <2>3. QED
    BY <2>1, <2>2 DEF Waiting
<1>6. queue' \in Seq(Waiting)
  <2>1. Remaining(next) \in Seq(Waiting)
    BY <1>5 DEF Remaining
  <2>2. QED
    BY <1>3, <1>4, <2>1
<1>7. ItslearningTypeOK' /\ PersonsInRoot'
  <2>1. Effect(h) \/ UNCHANGED <<person, memberships>>
    BY <1>1 DEF ServeQueue
  <2>2. h \in Handlers /\ (h.at = "person" => h.name \in Usernames)
    BY <1>3 DEF Waiting, Named
  <2>3. CASE Effect(h)
    BY <2>2, <2>3, <1>2, EffectTyped
  <2>4. CASE UNCHANGED <<person, memberships>>
    BY <2>4, <1>2 DEF ItslearningTypeOK, PersonsInRoot
  <2>5. QED
    BY <2>1, <2>3, <2>4
<1>8. DatabaseTyped'
  <2>1. inOrder' \in BOOLEAN /\ (Fault \/ UNCHANGED failures) /\ UNCHANGED <<database, published, requests, observed>>
    BY DEF ServeQueue, RepTyped, DatabaseTyped
  <2>2. QED
    BY <2>1, FaultTyped DEF RepTyped
<1>9. UNCHANGED <<req, groupVars, syncs, tokenVars, ldapVars>>
  BY DEF ServeQueue
<1>10. QED
  BY <1>6, <1>7, <1>8, <1>9, KeptTyped DEF RepTyped, ItslearningTyped

(* What the fields of a synchronisation are, by its step. *)
LEMMA SyncKinds ==
  ASSUME NEW s \in Syncs
  PROVE  /\ s.id \in Nat /\ s.alone \in BOOLEAN
         /\ s = [id |-> s.id, alone |-> s.alone, handler |-> s.handler]
         /\ s.handler.at = "findPerson" => s.handler = [op |-> "sync", at |-> "findPerson"]
         /\ s.handler.at = "findKontexte" => s.handler \in [op : {"sync"}, at : {"findKontexte"}, name : Usernames]
         /\ s.handler.at \notin {"findPerson", "findKontexte"} => s.handler \in Handlers /\ s.handler.op = "sync"
                                                                 /\ s.handler \in KontextHandlers
<1> DEFINE A == {[op |-> "sync", at |-> "findPerson"]}
           B == [op : {"sync"}, at : {"findKontexte"}, name : Usernames]
           C == {h \in Handlers : h.op = "sync"}
<1>1. s \in [id : Nat, alone : BOOLEAN, handler : A \union B \union C]
  BY DEF Syncs
<1>2. \A h \in C : h.at \notin {"findPerson", "findKontexte"} /\ h \in KontextHandlers
  <2>1. \A h \in C : h \in KontextHandlers
    BY HandlerTyped
  <2>2. QED
    BY <2>1 DEF KontextHandlers
<1> HIDE DEF C
<1>3. s.handler \in A \/ s.handler \in B \/ s.handler \in C
  BY <1>1
<1>4. QED
  BY <1>1, <1>2, <1>3 DEF C

(* A synchronisation with its next step is one. *)
LEMMA SyncGoesOn ==
  ASSUME NEW s \in Syncs,
         NEW next \in [op : {"sync"}, at : {"findKontexte"}, name : Usernames] \union {h \in Handlers : h.op = "sync"}
  PROVE  [s EXCEPT !.handler = next] \in Syncs /\ [s EXCEPT !.handler = next, !.alone = FALSE] \in Syncs
<1> DEFINE H == {[op |-> "sync", at |-> "findPerson"]} \union [op : {"sync"}, at : {"findKontexte"}, name : Usernames]
             \union {h \in Handlers : h.op = "sync"}
<1>1. Syncs = [id : Nat, alone : BOOLEAN, handler : H] /\ next \in H
  BY DEF Syncs
<1> HIDE DEF H
<1>2. QED
  BY <1>1

(* A synchronisation goes on. *)
LEMMA StepSyncTyped == RepTyped /\ StepSync => RepTyped'
<1> SUFFICES ASSUME RepTyped, StepSync PROVE RepTyped'
  OBVIOUS
<1>1. PICK s \in syncs : SyncReadsPerson(s) \/ SyncReadsKontexte(s) \/ SyncWrites(s) \/ SyncFails(s)
  BY DEF StepSync
<1>2. s \in Syncs /\ syncs \subseteq Syncs /\ ItslearningTypeOK /\ PersonsInRoot
  BY DEF RepTyped, ItslearningTyped
<1> DEFINE Nexts == [op : {"sync"}, at : {"findKontexte"}, name : Usernames] \union {h \in Handlers : h.op = "sync"}
<1>o. ASSUME NEW next, next = Done \/ next \in Nexts, SyncOnward(s, next)
      PROVE  syncs' \subseteq Syncs /\ inOrder' \in BOOLEAN
  <2>1. inOrder' = FALSE \/ inOrder' = TRUE
    BY <1>o DEF SyncOnward, RepTyped, DatabaseTyped
  <2>2. syncs' \subseteq syncs \union (IF next = Done THEN {} ELSE {[s EXCEPT !.handler = next]})
    BY <1>o DEF SyncOnward
  <2>3. next # Done => [s EXCEPT !.handler = next] \in Syncs
    BY <1>o, <1>2, SyncGoesOn
  <2>4. QED
    BY <2>1, <2>2, <2>3, <1>2
<1>n. name \in Usernames /\ kontexte \subseteq Kontexte
  BY SlotsAreKontexte DEF RepTyped, DatabaseTyped
<1>3. syncs' \subseteq Syncs /\ inOrder' \in BOOLEAN /\ (Fault \/ UNCHANGED failures) /\ ItslearningTypeOK' /\ PersonsInRoot'
  <2>1. CASE SyncReadsPerson(s)
    <3>1. PICK next : SyncOnward(s, next) /\ next \in {[op |-> "sync", at |-> "findKontexte", name |-> name], Done}
      BY <2>1 DEF SyncReadsPerson
    <3>2. next = Done \/ next \in Nexts
      BY <3>1, <1>n
    <3>3. QED
      BY <3>1, <3>2, <1>o, <2>1, <1>2 DEF SyncReadsPerson, ItslearningTypeOK, PersonsInRoot
  <2>2. CASE SyncReadsKontexte(s)
    <3>1. s.handler.name \in Usernames
      BY <2>2, <1>2, SyncKinds DEF SyncReadsKontexte
    <3>2. SyncRead(s.handler.name, kontexte) \in Nexts
      BY <3>1, <1>n, PublishedTyped
    <3>3. SyncOnward(s, SyncRead(s.handler.name, kontexte))
      BY <2>2 DEF SyncReadsKontexte
    <3>4. QED
      BY <3>2, <3>3, <1>o, <2>2, <1>2 DEF SyncReadsKontexte, ItslearningTypeOK, PersonsInRoot
  <2>k. ASSUME s.handler.at \notin {"findPerson", "findKontexte"}
        PROVE  s.handler \in Handlers /\ s.handler.op = "sync" /\ Named(s.handler) /\ (s.handler.at = "person" => s.handler.name \in Usernames)
               /\ \A next \in {After(s.handler), AfterError(s.handler)} : next = Done \/ next \in Nexts
    <3>1. s.handler \in Handlers /\ s.handler.op = "sync" /\ s.handler \in KontextHandlers
      BY <2>k, <1>2, SyncKinds
    <3>2. Named(s.handler) /\ s.handler.name \in Usernames
      BY <3>1 DEF KontextHandlers, Named
    <3>3. \A next \in {After(s.handler), AfterError(s.handler)} : next = Done \/ (next \in Handlers /\ next.op = "sync")
      BY <3>1, <3>2, <1>2, AfterTyped
    <3>4. QED
      BY <3>1, <3>2, <3>3
  <2>3. CASE SyncWrites(s)
    <3>1. s.handler.at \notin {"findPerson", "findKontexte"} /\ Effect(s.handler) /\ SyncOnward(s, After(s.handler)) /\ UNCHANGED failures
      BY <2>3 DEF SyncWrites
    <3>2. After(s.handler) = Done \/ After(s.handler) \in Nexts
      BY <2>k, <3>1
    <3>3. ItslearningTypeOK' /\ PersonsInRoot'
      BY <3>1, <2>k, <1>2, EffectTyped
    <3>4. QED
      BY <3>1, <3>2, <3>3, <1>o
  <2>4. CASE SyncFails(s)
    <3>1. s.handler.at \notin {"findPerson", "findKontexte"} /\ Fault /\ inOrder' = FALSE
          /\ (Effect(s.handler) \/ UNCHANGED <<person, memberships>>)
      BY <2>4 DEF SyncFails
    <3>2. PICK next : /\ next \in {After(s.handler), AfterError(s.handler)}
                      /\ syncs' = (syncs \ {s}) \union (IF next = Done THEN {} ELSE {[s EXCEPT !.handler = next, !.alone = FALSE]})
      BY <2>4 DEF SyncFails
    <3>3. next = Done \/ next \in Nexts
      BY <2>k, <3>1, <3>2
    <3>4. next # Done => [s EXCEPT !.handler = next, !.alone = FALSE] \in Syncs
      BY <3>3, <1>2, SyncGoesOn
    <3>5. ItslearningTypeOK' /\ PersonsInRoot'
      <4>1. CASE Effect(s.handler)
        BY <4>1, <3>1, <2>k, <1>2, EffectTyped
      <4>2. CASE UNCHANGED <<person, memberships>>
        BY <4>2, <1>2 DEF ItslearningTypeOK, PersonsInRoot
      <4>3. QED
        BY <3>1, <4>1, <4>2
    <3>6. QED
      BY <3>1, <3>2, <3>4, <3>5, <1>2
  <2>5. QED
    BY <1>1, <2>1, <2>2, <2>3, <2>4
<1>4. UNCHANGED <<database, req, published, requests, observed, groupVars, queue, tokenVars, ldapVars>>
  BY DEF StepSync
<1>5. DatabaseTyped'
  BY <1>3, <1>4, FaultTyped DEF RepTyped
<1>6. QED
  BY <1>3, <1>4, <1>5, KeptTyped DEF RepTyped, ItslearningTyped

(* Handlers of Keycloak, PrivacyIDEA and LDAP go on. *)
LEMMA StepsTyped ==
  ASSUME RepTyped, StepGroups \/ StepTokens \/ StepLdap
  PROVE  RepTyped'
<1>1. inOrder' \in BOOLEAN /\ (Fault \/ UNCHANGED failures)
  BY DEF StepGroups, StepTokens, StepLdap, RepTyped, DatabaseTyped
<1>2. UNCHANGED <<database, req, published, requests, observed, itslearningVars>>
  BY DEF StepGroups, StepTokens, StepLdap
<1>3. DatabaseTyped' /\ ItslearningTyped'
  BY <1>1, <1>2, FaultTyped, KeptTyped DEF RepTyped
<1>4. GroupsTypeOK' /\ TokensTyped' /\ LdapTyped'
  <2>1. CASE StepGroups
    <3>1. GroupsTypeOK'
      BY <2>1, GroupsTyped DEF StepGroups, RepTyped
    <3>2. QED
      BY <2>1, <3>1, KeptTyped DEF StepGroups, RepTyped
  <2>2. CASE StepTokens
    <3>1. TokensTyped'
      BY <2>2, TokenStepTyped DEF StepTokens, RepTyped
    <3>2. QED
      BY <2>2, <3>1, KeptTyped DEF StepTokens, RepTyped
  <2>3. CASE StepLdap
    <3>1. LdapTyped'
      BY <2>3, LdapStepTyped DEF StepLdap, RepTyped
    <3>2. QED
      BY <2>3, <3>1, KeptTyped DEF StepLdap, RepTyped
  <2>4. QED
    BY <2>1, <2>2, <2>3
<1>5. QED
  BY <1>2, <1>3, <1>4 DEF RepTyped

(* The types hold at first, ... *)
LEMMA ReplicasInitTyped == ReplicasInit => RepTyped
<1> SUFFICES ASSUME ReplicasInit PROVE RepTyped
  OBVIOUS
<1>1. PICK start \in Starts, u \in Usernames :
       /\ kontexte = start.kontexte /\ name = u /\ used = {u}
       /\ groups = ServiceProviderGroups(RollenOf(start.kontexte))
       /\ LET relevant == Relevant(start.kontexte) IN
          /\ person = IF relevant = {} THEN NoPerson
                      ELSE [name |-> u, role |-> InstitutionRole(HighestRollenart(Arten(relevant), SYSADMIN))]
          /\ memberships = IF relevant = {} THEN NoMemberships ELSE Target(relevant, {Root})
       /\ rollout = start.rollout /\ theirs = start.theirs
       /\ owner = [s \in Serials |-> IF s \in start.theirs THEN u ELSE Nobody]
       /\ piUsers = IF start.theirs = {} THEN {} ELSE {u}
       /\ entries = IF LehrerAt(start.kontexte) = {} THEN {} ELSE {u}
       /\ members = [s \in Kennungen |-> IF s \in LehrerAt(start.kontexte) THEN {u} ELSE {}]
  BY Zenon DEF ReplicasInit
<1>2. /\ present = TRUE
      /\ updates = {} /\ queue = <<>> /\ syncs = {} /\ piTasks = {} /\ ldapTasks = {} /\ lingering = {} /\ leftOut = {}
      /\ req = [c \in Clients |-> Idle]
      /\ published = 0 /\ requests = 0 /\ failures = 0
      /\ inOrder = TRUE /\ observed \in Systems
  BY DEF ReplicasInit
<1>3. /\ start.kontexte \subseteq Slots /\ start.theirs \subseteq Serials
      /\ start.rollout \in [Serials -> {"none", "verify", "enrolled"}]
      /\ \A s \in start.theirs : start.rollout[s] # "none"
      /\ \A s \in Serials : start.rollout[s] = "verify" => s \in start.theirs \ Hardware
  BY StartsAssumption
<1>4. MaxRequests \in Nat /\ MaxFailures \in Nat /\ Usernames = PiNames /\ Usernames = LdapNames /\ Hardware \subseteq Serials
  BY ReplicasAssumption
<1>5. DatabaseTyped
  BY <1>1, <1>2, <1>3, <1>4 DEF DatabaseTyped
<1>6. GroupsTypeOK
  <2>1. \A k \in Slots : k.rolle \in Rollen
    BY ReplicasAssumption
  <2>2. ServiceProviderGroups(RollenOf(start.kontexte)) \subseteq Groups
    BY <2>1, <1>3, GroupsAssumption DEF ServiceProviderGroups, RollenOf
  <2>3. QED
    BY <1>1, <1>2, <2>2 DEF GroupsTypeOK
<1>7. ItslearningTyped
  <2>1. PICK relevant : relevant = Relevant(start.kontexte)
    OBVIOUS
  <2>2. relevant \subseteq Kontexte
    BY <2>1, <1>3, SlotsAreKontexte DEF Relevant
  <2>3. CASE relevant = {}
    <3>1. person = NoPerson /\ memberships = NoMemberships
      BY <1>1, <2>1, <2>3
    <3>2. DOMAIN memberships = {} /\ memberships \in [{} -> RolesOfMembers]
      BY <3>1 DEF NoMemberships
    <3>3. QED
      BY <1>2, <3>1, <3>2 DEF ItslearningTyped, ItslearningTypeOK, PersonsInRoot
  <2>4. CASE relevant # {}
    <3>1. PICK role : role = InstitutionRole(HighestRollenart(Arten(relevant), SYSADMIN))
      OBVIOUS
    <3>2. role \in RolesOfPersons
      BY <2>2, <3>1, RoleTyped
    <3>3. person = [name |-> u, role |-> role] /\ memberships = Target(relevant, {Root})
      BY <1>1, <2>1, <2>4, <3>1
    <3>4. person \in [name : Usernames, role : RolesOfPersons] /\ person # NoPerson
      BY <3>2, <3>3, ReplicasAssumption DEF NoPerson
    <3>5. /\ DOMAIN memberships = {k.orga : k \in relevant} \union ({Root} \intersect {Root})
          /\ DOMAIN memberships \subseteq Orgas \union {Root}
          /\ memberships \in [DOMAIN memberships -> RolesOfMembers]
      <4> DEFINE root == {Root}
      <4> HIDE DEF root
      <4>1. memberships = Target(relevant, root)
        BY <3>3 DEF root
      <4>2. QED
        BY <4>1, <2>2, TargetTyped DEF root
    <3>6. QED
      BY <1>2, <3>4, <3>5 DEF ItslearningTyped, ItslearningTypeOK, PersonsInRoot, RolesOfPersons, RolesOfMembers
  <2>5. QED
    BY <2>3, <2>4
<1>8. TokensTyped
  BY <1>1, <1>2, <1>3, <1>4 DEF TokensTyped, TokensTypeOK, OwnersAreUsers
<1>9. LdapTyped
  BY <1>1, <1>2, <1>4 DEF LdapTyped, LdapTypeOK
<1>10. QED
  BY <1>2, <1>5, <1>6, <1>7, <1>8, <1>9 DEF RepTyped, Requests

(* ... each step keeps them, ... *)
LEMMA ReplicasNextTyped == RepTyped /\ [ReplicasNext]_replicaVars => RepTyped'
<1> SUFFICES ASSUME RepTyped, [ReplicasNext]_replicaVars PROVE RepTyped'
  OBVIOUS
<1>1. CASE UNCHANGED replicaVars
  BY <1>1, KeptTyped DEF replicaVars, RepTyped, DatabaseTyped, database, counters, history
<1>2. ASSUME NEW c \in Clients,
         \/ UpdateBegins(c) \/ UpdateReads(c) \/ UpdateLoadsPerson(c) \/ PublishKontextUpdated(c)
         \/ MigrationBegins(c) \/ MigrationSaves(c) \/ RenameBegins(c) \/ PublishRenamed(c)
         \/ DeleteBegins(c) \/ PublishDeleted(c) \/ RemovePerson(c)
         \/ PublishOxUserChanged(c) \/ SyncBegins(c)
      PROVE RepTyped'
  BY <1>2, BeginnersTyped, UpdatesOnTyped, PublishUpdateTyped, MigrationTyped, PublishRenamedTyped, PublishDeletedTyped,
     RemoveTyped, OthersTyped
<1>3. QED
  BY <1>1, <1>2, TokenRequestTyped, ServeTyped, StepSyncTyped, StepsTyped DEF ReplicasNext

(* ... they are what TLC checks, ... *)
LEMMA TypedMeans == RepTyped => ReplicasTypeOK
<1>1. ASSUME RepTyped, NEW i \in 1..Len(queue) PROVE queue[i] \in Handlers
  BY <1>1 DEF RepTyped, ItslearningTyped, Waiting
<1>2. QED
  BY <1>1 DEF RepTyped, ReplicasTypeOK, DatabaseTyped, ItslearningTyped, TokensTyped, LdapTyped

(* ... and so they always hold. *)
LEMMA AlwaysTyped == ReplicasSpec => []RepTyped
BY ReplicasInitTyped, ReplicasNextTyped, PTL DEF ReplicasSpec

(* Database, replicas and the history have their types in every reachable   *)
(* state, and a person whose row is gone has no Kontexte.                    *)
THEOREM ReplicasTyped == ReplicasSpec => []ReplicasTypeOK
BY AlwaysTyped, TypedMeans, PTL

-----------------------------------------------------------------------------
(* Requests and what was told                                              *)

(* A person who is deleted, or whose deletion is published. *)
Gone == ~present \/ \E c \in Clients : At(c, "delete", "remove")

(* Handlers run for the system that is shown, and for no other. *)
OnlyShown ==
  /\ observed # "keycloak" => updates = {}
  /\ observed # "itslearning" => queue = <<>> /\ syncs = {}
  /\ observed # "privacyidea" => piTasks = {}
  /\ observed # "ldap" => ldapTasks = {} /\ \A c \in Clients : req[c].op # "migration"

(* A synchronisation is alone, and nothing is requested or waits. *)
AloneSync == \A s \in syncs : s.alone => ~Requested /\ queue = <<>> /\ \A x \in syncs : x = s

(* What a request has read, when no other is in progress. *)
Fresh(r) ==
  /\ r # Idle => present /\ r.name = name
  /\ r.op = "update" => /\ r.new \subseteq kontexte /\ r.removed \intersect kontexte = {}
                        /\ r.at \in {"load", "publish"} => r.current = kontexte
  /\ r.op = "migration" => r.kontext \notin kontexte
  /\ r.op = "rename" => r.old \in used \ {name}

OneRequest ==
  /\ \A c, d \in Clients : req[c] # Idle /\ req[d] # Idle => c = d
  /\ \A c \in Clients : Fresh(req[c])

Ordered == OnlyShown /\ AloneSync /\ (observed # "privacyidea" /\ inOrder => OneRequest)

(* How a request goes on. *)
LEMMA RequestGoesOn ==
  ASSUME req \in [Clients -> Requests], NEW c \in Clients
  PROVE  /\ EndRequest(c) => req'[c] = Idle /\ \A d \in Clients \ {c} : req'[d] = req[d]
         /\ \A r : req' = [req EXCEPT ![c] = r] => req'[c] = r /\ \A d \in Clients \ {c} : req'[d] = req[d]
         /\ \A at : Goto(c, at) => req'[c] = [req[c] EXCEPT !.at = at] /\ \A d \in Clients \ {c} : req'[d] = req[d]
BY DEF EndRequest, Goto

(* An update remembers what it added and removed, and what it has read. *)
LEMMA UpdateGoesOn ==
  ASSUME req \in [Clients -> Requests], NEW c \in Clients, UpdateReads(c) \/ (UpdateLoadsPerson(c) /\ present)
  PROVE  \E r : /\ req' = [req EXCEPT ![c] = r] /\ req[c].op = "update" /\ r.op = "update"
                /\ r.new = req[c].new /\ r.removed = req[c].removed
                /\ r.current = IF UpdateReads(c) THEN kontexte ELSE req[c].current
                /\ r.name = IF UpdateReads(c) THEN req[c].name ELSE name
                /\ req[c].at = IF UpdateReads(c) THEN "read" ELSE "load"
                /\ r.at = IF UpdateReads(c) THEN "load" ELSE "publish"
<1>1. PICK q : q = req[c]
  OBVIOUS
<1>2. q \in Requests /\ q.op = "update"
  BY <1>1 DEF UpdateReads, UpdateLoadsPerson, At
<1>3. q \in [op : {"update"}, at : {"read", "load", "publish"}, new : SUBSET Slots,
             removed : SUBSET Slots, current : SUBSET Slots, name : Usernames]
  BY <1>2, RequestKinds
<1>4. CASE UpdateReads(c)
  <2>1. PICK r : r = [q EXCEPT !.at = "load", !.current = kontexte]
    OBVIOUS
  <2>2. r.op = "update" /\ r.new = q.new /\ r.removed = q.removed /\ r.current = kontexte /\ r.name = q.name /\ r.at = "load"
    BY <2>1, <1>3
  <2>3. req' = [req EXCEPT ![c] = r]
    BY <1>4, <1>1, <2>1 DEF UpdateReads
  <2>4. q.at = "read"
    BY <1>4, <1>1 DEF UpdateReads, At
  <2>5. QED
    BY <1>1, <1>2, <1>4, <2>2, <2>3, <2>4
<1>5. CASE ~UpdateReads(c)
  <2>1. PICK r : r = [q EXCEPT !.at = "publish", !.name = name]
    OBVIOUS
  <2>2. r.op = "update" /\ r.new = q.new /\ r.removed = q.removed /\ r.current = q.current /\ r.name = name /\ r.at = "publish"
    BY <2>1, <1>3
  <2>3. req' = [req EXCEPT ![c] = r]
    BY <1>5, <1>1, <2>1 DEF UpdateLoadsPerson
  <2>4. q.at = "load"
    BY <1>5, <1>1 DEF UpdateLoadsPerson, At
  <2>5. QED
    BY <1>1, <1>2, <1>5, <2>2, <2>3, <2>4
<1>6. QED
  BY <1>4, <1>5

(* A deletion is published, and goes on to the removal. *)
LEMMA DeletionGoesOn ==
  ASSUME req \in [Clients -> Requests], NEW c \in Clients, PublishDeleted(c)
  PROVE  \E r : /\ req' = [req EXCEPT ![c] = r] /\ req[c].op = "delete" /\ r.op = "delete" /\ r.name = req[c].name
                /\ req[c].at = "publish" /\ r.at = "remove"
<1>1. PICK q : q = req[c]
  OBVIOUS
<1>2. q \in Requests /\ q.op = "delete" /\ q.at = "publish"
  BY <1>1 DEF PublishDeleted, At
<1>3. q \in [op : {"delete"}, at : {"publish", "remove"}, name : Usernames]
  BY <1>2, RequestKinds
<1>4. PICK r : r = [q EXCEPT !.at = "remove"]
  OBVIOUS
<1>5. r.op = "delete" /\ r.name = q.name /\ r.at = "remove"
  BY <1>3, <1>4
<1>6. req' = [req EXCEPT ![c] = r]
  BY <1>1, <1>4 DEF PublishDeleted, Goto
<1>7. QED
  BY <1>1, <1>2, <1>5, <1>6

(* Each step runs handlers only for the system that is shown, ... *)
LEMMA OnlyShownNext == RepTyped /\ OnlyShown /\ [ReplicasNext]_replicaVars => OnlyShown' /\ observed' = observed
<1> SUFFICES ASSUME RepTyped, OnlyShown, [ReplicasNext]_replicaVars PROVE OnlyShown' /\ observed' = observed
  OBVIOUS
<1> USE DEF OnlyShown
<1>r. req \in [Clients -> Requests] /\ Idle.op = "none"
  BY DEF RepTyped, Idle
<1>1. CASE UNCHANGED replicaVars
  BY <1>1 DEF replicaVars, history, groupVars, itslearningVars, tokenVars, ldapVars
<1>2. ASSUME NEW c \in Clients, NEW r, Begin(c, r), r.op # "migration" \/ observed = "ldap" PROVE OnlyShown' /\ observed' = observed
  <2>1. UNCHANGED <<observed, updates, queue, piTasks, ldapTasks>> /\ (syncs = {} => syncs' = {})
    BY <1>2 DEF Begin, groupVars, tokenVars, ldapVars
  <2>2. req'[c] = r /\ \A d \in Clients \ {c} : req'[d] = req[d]
    BY <1>2, <1>r DEF Begin
  <2>3. observed # "ldap" => \A d \in Clients : req'[d].op # "migration"
    BY <1>2, <2>2
  <2>4. QED
    BY <2>1, <2>3
<1>3. ASSUME NEW c \in Clients, UpdateBegins(c) \/ MigrationBegins(c) \/ RenameBegins(c) \/ DeleteBegins(c)
      PROVE OnlyShown' /\ observed' = observed
  <2>1. CASE UpdateBegins(c)
    <3>1. PICK target \in SUBSET Slots :
            Begin(c, [op |-> "update", at |-> "read", new |-> target \ kontexte,
                      removed |-> kontexte \ target, current |-> {}, name |-> name])
      BY <2>1, Zenon DEF UpdateBegins
    <3>2. PICK r : r = [op |-> "update", at |-> "read", new |-> target \ kontexte,
                      removed |-> kontexte \ target, current |-> {}, name |-> name]
      OBVIOUS
    <3>3. r.op # "migration"
      BY <3>2
    <3>4. QED
      BY <3>1, <3>2, <3>3, <1>2
  <2>2. CASE MigrationBegins(c)
    BY <2>2, <1>2 DEF MigrationBegins
  <2>3. CASE RenameBegins(c)
    <3>1. PICK u : Begin(c, [op |-> "rename", at |-> "publish", old |-> name, name |-> u])
      BY <2>3 DEF RenameBegins
    <3>2. PICK r : r = [op |-> "rename", at |-> "publish", old |-> name, name |-> u]
      OBVIOUS
    <3>3. r.op # "migration"
      BY <3>2
    <3>4. QED
      BY <3>1, <3>2, <3>3, <1>2
  <2>4. CASE DeleteBegins(c)
    <3>1. PICK r : r = [op |-> "delete", at |-> "publish", name |-> name]
      OBVIOUS
    <3>2. r.op # "migration" /\ Begin(c, r)
      BY <3>1, <2>4 DEF DeleteBegins
    <3>3. QED
      BY <3>2, <1>2
  <2>5. QED
    BY <1>3, <2>1, <2>2, <2>3, <2>4
<1>m. ASSUME NEW c \in Clients, req'[c].op # "migration" \/ req'[c].op = req[c].op, \A d \in Clients \ {c} : req'[d] = req[d], observed # "ldap"
      PROVE  \A d \in Clients : req'[d].op # "migration"
  BY <1>m
<1>4. ASSUME NEW c \in Clients, UpdateReads(c) \/ UpdateLoadsPerson(c) \/ RemovePerson(c)
      PROVE OnlyShown' /\ observed' = observed
  <2>1. UNCHANGED <<observed, updates, queue, syncs, piTasks, ldapTasks>>
    BY <1>4 DEF UpdateReads, UpdateLoadsPerson, RemovePerson, history, groupVars, itslearningVars, tokenVars, ldapVars
  <2>2. (\A d \in Clients \ {c} : req'[d] = req[d]) /\ (req'[c].op # "migration" \/ req'[c].op = req[c].op)
    <3>1. CASE UpdateReads(c) \/ (UpdateLoadsPerson(c) /\ present)
      <4>1. PICK r : req' = [req EXCEPT ![c] = r] /\ r.op = "update"
        BY <3>1, <1>r, UpdateGoesOn
      <4>2. QED
        BY <4>1, <1>r, RequestGoesOn
    <3>3. CASE EndRequest(c)
      BY <3>3, <1>r, RequestGoesOn
    <3>4. QED
      BY <1>4, <3>1, <3>3 DEF UpdateLoadsPerson, RemovePerson
  <2>3. QED
    BY <2>1, <2>2, <1>m
<1>5. ASSUME NEW c \in Clients, PublishKontextUpdated(c) PROVE OnlyShown' /\ observed' = observed
  <2>1. observed # "keycloak" => updates' = updates
    BY <1>5 DEF PublishKontextUpdated, Shown
  <2>2. observed # "itslearning" => queue' = queue \o <<>>
    BY <1>5 DEF PublishKontextUpdated, Enqueue
  <2>3. observed # "ldap" => ldapTasks' = ldapTasks
    BY <1>5 DEF PublishKontextUpdated, Shown, StartLdap
  <2>4. UNCHANGED <<syncs, piTasks, observed>> /\ EndRequest(c)
    BY <1>5 DEF PublishKontextUpdated, tokenVars
  <2>5. req'[c].op = "none" /\ \A d \in Clients \ {c} : req'[d] = req[d]
    BY <2>4, <1>r, RequestGoesOn
  <2>6. observed # "ldap" => \A d \in Clients : req'[d].op # "migration"
    BY <2>5, <1>m
  <2>7. observed # "itslearning" => queue' = <<>>
    BY <2>2
  <2>8. QED
    BY <2>1, <2>3, <2>4, <2>6, <2>7
<1>6. ASSUME NEW c \in Clients, MigrationSaves(c) PROVE OnlyShown' /\ observed' = observed
  <2>1. UNCHANGED <<updates, queue, syncs, piTasks, observed>>
    BY <1>6 DEF MigrationSaves, groupVars, itslearningVars, tokenVars
  <2>2. observed = "ldap"
    BY <1>6 DEF MigrationSaves, At
  <2>3. QED
    BY <2>1, <2>2
<1>7. ASSUME NEW c \in Clients, PublishRenamed(c) \/ PublishDeleted(c) PROVE OnlyShown' /\ observed' = observed
  <2>1. UNCHANGED <<updates, syncs, observed>>
    BY <1>7 DEF PublishRenamed, PublishDeleted, groupVars
  <2>2. observed # "itslearning" => queue' = queue \o <<>>
    BY <1>7 DEF PublishRenamed, PublishDeleted, Enqueue
  <2>3. observed # "ldap" => ldapTasks' = ldapTasks
    BY <1>7 DEF PublishRenamed, PublishDeleted, Shown, StartLdap
  <2>4. observed # "privacyidea" => piTasks' = piTasks
    BY <1>7 DEF PublishRenamed, PublishDeleted, StartTokenTask, Shown
  <2>5. (req'[c].op = "none" \/ req'[c].op = req[c].op) /\ \A d \in Clients \ {c} : req'[d] = req[d]
    <3>1. CASE EndRequest(c)
      BY <3>1, <1>r, RequestGoesOn
    <3>2. CASE PublishDeleted(c)
      <4>1. PICK r : req' = [req EXCEPT ![c] = r] /\ r.op = "delete" /\ req[c].op = "delete"
        BY <3>2, <1>r, DeletionGoesOn
      <4>2. QED
        BY <4>1, <1>r, RequestGoesOn
    <3>3. QED
      BY <1>7, <3>1, <3>2 DEF PublishRenamed, PublishDeleted
  <2>6. observed # "ldap" => \A d \in Clients : req'[d].op # "migration"
    BY <2>5, <1>m
  <2>7. observed # "itslearning" => queue' = <<>>
    BY <2>2
  <2>8. QED
    BY <2>1, <2>3, <2>4, <2>6, <2>7
<1>8. ASSUME NEW c \in Clients, PublishOxUserChanged(c) \/ SyncBegins(c) PROVE OnlyShown' /\ observed' = observed
  BY <1>8 DEF PublishOxUserChanged, SyncBegins, groupVars, tokenVars, ldapVars
<1>9. ASSUME TokenRequest PROVE OnlyShown' /\ observed' = observed
  BY <1>9 DEF TokenRequest, groupVars, itslearningVars, ldapVars
<1>10. ASSUME StepGroups PROVE OnlyShown' /\ observed' = observed
  BY <1>10 DEF StepGroups, itslearningVars, tokenVars, ldapVars
<1>11. ASSUME ServeQueue PROVE OnlyShown' /\ observed' = observed
  BY <1>11 DEF ServeQueue, groupVars, tokenVars, ldapVars
<1>12. ASSUME StepSync PROVE OnlyShown' /\ observed' = observed
  BY <1>12 DEF StepSync, groupVars, tokenVars, ldapVars
<1>13. ASSUME StepTokens PROVE OnlyShown' /\ observed' = observed
  BY <1>13 DEF StepTokens, groupVars, itslearningVars, ldapVars
<1>14. ASSUME StepLdap PROVE OnlyShown' /\ observed' = observed
  BY <1>14 DEF StepLdap, groupVars, itslearningVars, tokenVars
<1>15. ASSUME NEW c \in Clients,
         \/ UpdateBegins(c) \/ UpdateReads(c) \/ UpdateLoadsPerson(c) \/ PublishKontextUpdated(c)
         \/ MigrationBegins(c) \/ MigrationSaves(c) \/ RenameBegins(c) \/ PublishRenamed(c)
         \/ DeleteBegins(c) \/ PublishDeleted(c) \/ RemovePerson(c)
         \/ PublishOxUserChanged(c) \/ SyncBegins(c)
       PROVE OnlyShown' /\ observed' = observed
  BY <1>15, <1>3, <1>4, <1>5, <1>6, <1>7, <1>8
<1>16. QED
  BY <1>1, <1>9, <1>10, <1>11, <1>12, <1>13, <1>14, <1>15 DEF ReplicasNext

(* What begins a request, which the others then are not alone with. *)
LEMMA RequestBegins ==
  ASSUME RepTyped, NEW c \in Clients, UpdateBegins(c) \/ MigrationBegins(c) \/ RenameBegins(c) \/ DeleteBegins(c)
  PROVE  \E r : /\ Begin(c, r) /\ r # Idle /\ present /\ present' /\ r.name = name'
                /\ \/ /\ r.op = "update" /\ r.at = "read" /\ UNCHANGED <<name, used>>
                      /\ r.new = kontexte' \ kontexte /\ r.removed = kontexte \ kontexte'
                   \/ r.op = "migration" /\ r.kontext \notin kontexte /\ UNCHANGED <<name, used, kontexte>> /\ observed = "ldap"
                   \/ /\ r.op = "rename" /\ r.old = name /\ name' \notin used /\ used' = used \union {name'}
                      /\ UNCHANGED kontexte
                   \/ r.op = "delete" /\ r.at = "publish" /\ UNCHANGED <<name, used, kontexte>>
<1>1. CASE UpdateBegins(c)
  <2>1. PICK r : r = [op |-> "update", at |-> "read", new |-> kontexte' \ kontexte,
                      removed |-> kontexte \ kontexte', current |-> {}, name |-> name]
    OBVIOUS
  <2>2. Begin(c, r) /\ present /\ UNCHANGED <<present, name, used>>
    <3>1. \E target \in SUBSET Slots : kontexte' = target /\
            Begin(c, [op |-> "update", at |-> "read", new |-> target \ kontexte,
                      removed |-> kontexte \ target, current |-> {}, name |-> name])
      BY <1>1, Zenon DEF UpdateBegins
    <3>2. Begin(c, [op |-> "update", at |-> "read", new |-> kontexte' \ kontexte,
                      removed |-> kontexte \ kontexte', current |-> {}, name |-> name])
      BY <3>1
    <3>3. QED
      BY <1>1, <2>1, <3>2 DEF UpdateBegins
  <2>3. r.op = "update" /\ r.at = "read" /\ r.new = kontexte' \ kontexte /\ r.removed = kontexte \ kontexte' /\ r.name = name
    BY <2>1
  <2>4. QED
    BY <2>2, <2>3 DEF Idle
<1>2. CASE MigrationBegins(c)
  <2>1. PICK k \in Slots \ kontexte, standard \in BOOLEAN :
          Begin(c, [op |-> "migration", at |-> "save", kontext |-> k, standard |-> standard, name |-> name])
    BY <1>2, Zenon DEF MigrationBegins
  <2>2. PICK r : r = [op |-> "migration", at |-> "save", kontext |-> k, standard |-> standard, name |-> name]
    OBVIOUS
  <2>3. Begin(c, r) /\ present /\ UNCHANGED <<present, name, used, kontexte>> /\ observed = "ldap"
    BY <1>2, <2>1, <2>2 DEF MigrationBegins, database
  <2>4. r.op = "migration" /\ r.kontext \notin kontexte /\ r.name = name
    BY <2>2
  <2>5. QED
    BY <2>3, <2>4 DEF Idle
<1>3. CASE RenameBegins(c)
  <2>1. PICK r : r = [op |-> "rename", at |-> "publish", old |-> name, name |-> name']
    OBVIOUS
  <2>2. Begin(c, r) /\ present /\ UNCHANGED <<present, kontexte>> /\ name' \notin used /\ used' = used \union {name'}
    BY <1>3, <2>1 DEF RenameBegins
  <2>3. r.op = "rename" /\ r.old = name /\ r.name = name'
    BY <2>1
  <2>4. QED
    BY <2>2, <2>3 DEF Idle
<1>4. CASE DeleteBegins(c)
  <2>1. PICK r : r = [op |-> "delete", at |-> "publish", name |-> name]
    OBVIOUS
  <2>2. Begin(c, r) /\ present /\ UNCHANGED <<present, name, used, kontexte>>
    BY <1>4, <2>1 DEF DeleteBegins, database
  <2>3. r.op = "delete" /\ r.at = "publish" /\ r.name = name
    BY <2>1
  <2>4. QED
    BY <2>2, <2>3 DEF Idle
<1>5. QED
  BY <1>1, <1>2, <1>3, <1>4

(* A synchronisation that is no longer alone. *)
LEMMA NoneAlone ==
  ASSUME syncs \subseteq Syncs
  PROVE  \A x \in {[s EXCEPT !.alone = FALSE] : s \in syncs} : ~x.alone
BY DEF Syncs

(* ... lets nothing overlap a synchronisation that is alone, ... *)
LEMMA AloneNext == RepTyped /\ AloneSync /\ ReplicasNext => AloneSync'
<1> SUFFICES ASSUME RepTyped, AloneSync, ReplicasNext PROVE AloneSync'
  OBVIOUS
<1>r. req \in [Clients -> Requests] /\ syncs \subseteq Syncs
  BY DEF RepTyped, ItslearningTyped
<1>k. ASSUME Requested, UNCHANGED syncs PROVE AloneSync'
  BY <1>k DEF AloneSync
<1>u. ASSUME UNCHANGED <<req, queue, syncs>> PROVE AloneSync'
  BY <1>u DEF AloneSync, Requested
<1>1. ASSUME NEW c \in Clients, UpdateBegins(c) \/ MigrationBegins(c) \/ RenameBegins(c) \/ DeleteBegins(c) \/ PublishOxUserChanged(c)
      PROVE AloneSync'
  <2>1. syncs' = {[s EXCEPT !.alone = FALSE] : s \in syncs}
    <3>1. CASE PublishOxUserChanged(c)
      BY <3>1 DEF PublishOxUserChanged
    <3>2. CASE ~PublishOxUserChanged(c)
      BY <3>2, <1>1, RequestBegins DEF Begin
    <3>3. QED
      BY <3>1, <3>2
  <2>2. QED
    BY <2>1, <1>r, NoneAlone DEF AloneSync
<1>2. ASSUME NEW c \in Clients,
             \/ UpdateReads(c) \/ UpdateLoadsPerson(c) \/ PublishKontextUpdated(c) \/ MigrationSaves(c)
             \/ PublishRenamed(c) \/ PublishDeleted(c) \/ RemovePerson(c)
      PROVE AloneSync'
  <2>1. req[c].op \in {"update", "migration", "rename", "delete"}
    BY <1>2 DEF UpdateReads, UpdateLoadsPerson, PublishKontextUpdated, MigrationSaves, PublishRenamed, PublishDeleted, RemovePerson, At
  <2>2. Requested
    BY <2>1 DEF Requested, Idle
  <2>3. UNCHANGED syncs
    BY <1>2 DEF UpdateReads, UpdateLoadsPerson, PublishKontextUpdated, MigrationSaves, PublishRenamed, PublishDeleted, RemovePerson,
                itslearningVars
  <2>4. QED
    BY <2>2, <2>3, <1>k
<1>3. ASSUME NEW c \in Clients, SyncBegins(c) PROVE AloneSync'
  <2>1. PICK b : b = (~Requested /\ ItslearningQuiet)
    OBVIOUS
  <2>2. PICK n : n = [id |-> requests, alone |-> b, handler |-> [op |-> "sync", at |-> "findPerson"]]
    OBVIOUS
  <2>3. syncs' = {[s EXCEPT !.alone = FALSE] : s \in syncs} \union {n} /\ UNCHANGED <<req, queue>> /\ n.alone = b
    BY <1>3, <2>1, <2>2 DEF SyncBegins
  <2>4. \A x \in syncs' : x.alone => x = n /\ b
    BY <2>3, <1>r, NoneAlone
  <2>5. b => syncs' = {n} /\ queue' = <<>> /\ ~Requested'
    BY <2>1, <2>3 DEF ItslearningQuiet, Requested
  <2>6. QED
    BY <2>4, <2>5 DEF AloneSync
<1>4. ASSUME ServeQueue PROVE AloneSync'
  BY <1>4 DEF ServeQueue, AloneSync
<1>5. ASSUME StepSync PROVE AloneSync'
  <2>1. PICK s \in syncs : SyncReadsPerson(s) \/ SyncReadsKontexte(s) \/ SyncWrites(s) \/ SyncFails(s)
    BY <1>5 DEF StepSync
  <2>2. UNCHANGED <<req, queue>>
    BY <1>5 DEF StepSync
  <2>3. \/ syncs' = syncs \ {s}
        \/ \E n : syncs' = (syncs \ {s}) \union {n} /\ (n.alone => s.alone)
    <3>1. ASSUME NEW next, SyncOnward(s, next) PROVE syncs' = syncs \ {s} \/ \E n : syncs' = (syncs \ {s}) \union {n} /\ (n.alone => s.alone)
      <4>1. [s EXCEPT !.handler = next].alone = s.alone
        BY <1>r DEF Syncs
      <4>2. QED
        BY <3>1, <4>1 DEF SyncOnward
    <3>2. CASE SyncReadsPerson(s)
      <4>1. PICK next : next = IF present THEN [op |-> "sync", at |-> "findKontexte", name |-> name] ELSE Done
        OBVIOUS
      <4>2. QED
        BY <3>2, <4>1, <3>1 DEF SyncReadsPerson
    <3>3. CASE SyncReadsKontexte(s)
      <4>1. PICK next : next = SyncRead(s.handler.name, kontexte)
        OBVIOUS
      <4>2. QED
        BY <3>3, <4>1, <3>1 DEF SyncReadsKontexte
    <3>4. CASE SyncWrites(s)
      <4>1. PICK next : next = After(s.handler)
        OBVIOUS
      <4>2. QED
        BY <3>4, <4>1, <3>1 DEF SyncWrites
    <3>5. CASE SyncFails(s)
      <4>1. PICK next : next = AfterError(s.handler)
        OBVIOUS
      <4>2. syncs' = (syncs \ {s}) \union (IF next = Done THEN {} ELSE {[s EXCEPT !.handler = next, !.alone = FALSE]})
        BY <3>5, <4>1 DEF SyncFails
      <4>3. ~[s EXCEPT !.handler = next, !.alone = FALSE].alone
        BY <1>r DEF Syncs
      <4>4. QED
        BY <4>2, <4>3
    <3>6. QED
      BY <2>1, <3>2, <3>3, <3>4, <3>5
  <2>4. \A x \in syncs : x.alone => x = s /\ ~Requested /\ queue = <<>> /\ syncs = {s}
    BY DEF AloneSync
  <2>5. QED
    BY <2>2, <2>3, <2>4 DEF AloneSync, Requested
<1>6. ASSUME TokenRequest \/ StepGroups \/ StepTokens \/ StepLdap PROVE AloneSync'
  BY <1>6, <1>u DEF TokenRequest, StepGroups, StepTokens, StepLdap, itslearningVars
<1>7. QED
  BY <1>1, <1>2, <1>3, <1>4, <1>5, <1>6 DEF ReplicasNext

(* Only a synchronisation that was alone restores the order. *)
LEMMA OrderKept ==
  ASSUME OnlyShown, AloneSync, ReplicasNext, inOrder'
  PROVE  inOrder \/ (observed = "itslearning" /\ ~Requested /\ StepSync)
<1>1. ASSUME NEW c \in Clients,
         \/ UpdateBegins(c) \/ UpdateReads(c) \/ UpdateLoadsPerson(c) \/ PublishKontextUpdated(c)
         \/ MigrationBegins(c) \/ MigrationSaves(c) \/ RenameBegins(c) \/ PublishRenamed(c)
         \/ DeleteBegins(c) \/ PublishDeleted(c) \/ RemovePerson(c)
         \/ PublishOxUserChanged(c) \/ SyncBegins(c)
       PROVE inOrder
  <2>1. CASE UpdateBegins(c) \/ MigrationBegins(c) \/ RenameBegins(c) \/ DeleteBegins(c)
    BY <2>1 DEF UpdateBegins, MigrationBegins, RenameBegins, DeleteBegins, Begin
  <2>2. CASE UpdateReads(c) \/ UpdateLoadsPerson(c) \/ RemovePerson(c)
    BY <2>2 DEF UpdateReads, UpdateLoadsPerson, RemovePerson, history
  <2>3. CASE PublishKontextUpdated(c) \/ MigrationSaves(c) \/ PublishRenamed(c) \/ PublishDeleted(c)
    BY <2>3 DEF PublishKontextUpdated, MigrationSaves, PublishRenamed, PublishDeleted
  <2>4. CASE PublishOxUserChanged(c) \/ SyncBegins(c)
    BY <2>4 DEF PublishOxUserChanged, SyncBegins
  <2>5. QED
    BY <1>1, <2>1, <2>2, <2>3, <2>4
<1>2. CASE TokenRequest \/ StepGroups \/ ServeQueue \/ StepTokens \/ StepLdap
  BY <1>2 DEF TokenRequest, StepGroups, ServeQueue, StepTokens, StepLdap
<1>3. CASE StepSync
  <2>1. PICK s \in syncs : SyncReadsPerson(s) \/ SyncReadsKontexte(s) \/ SyncWrites(s) \/ SyncFails(s)
    BY <1>3 DEF StepSync
  <2>2. inOrder \/ s.alone
    BY <2>1 DEF SyncReadsPerson, SyncReadsKontexte, SyncWrites, SyncFails, SyncOnward
  <2>3. observed = "itslearning"
    BY <2>1 DEF OnlyShown
  <2>4. QED
    BY <1>3, <2>2, <2>3 DEF AloneSync
<1>4. QED
  BY <1>1, <1>2, <1>3 DEF ReplicasNext

(* ... and one request at a time, unless the order is lost. *)
LEMMA OrderedNext == RepTyped /\ Ordered /\ [ReplicasNext]_replicaVars => Ordered'
<1> SUFFICES ASSUME RepTyped, Ordered, [ReplicasNext]_replicaVars PROVE Ordered'
  OBVIOUS
<1>s. OnlyShown' /\ observed' = observed
  BY OnlyShownNext DEF Ordered
<1>r. req \in [Clients -> Requests]
  BY DEF RepTyped
<1>u. ASSUME OneRequest, UNCHANGED <<req, database>> PROVE OneRequest'
  BY <1>u DEF OneRequest, Fresh, database
<1>1. CASE UNCHANGED replicaVars
  <2>1. AloneSync'
    BY <1>1 DEF Ordered, AloneSync, Requested, replicaVars, itslearningVars
  <2>2. QED
    BY <1>1, <1>s, <1>u, <2>1 DEF Ordered, replicaVars, history
<1>2. CASE ReplicasNext
  <2>1. AloneSync'
    BY <1>2, AloneNext DEF Ordered
  <2>2. SUFFICES ASSUME observed # "privacyidea", inOrder' PROVE OneRequest'
    BY <2>1, <1>s DEF Ordered
  <2>i. ASSUME \A c \in Clients : req'[c] = Idle PROVE OneRequest'
    BY <2>i DEF OneRequest, Fresh, Idle
  <2>3. inOrder \/ (~Requested /\ StepSync)
    BY <1>2, <2>2, OrderKept DEF Ordered
  <2>4. CASE ~Requested /\ StepSync
    <3>1. \A c \in Clients : req'[c] = Idle
      BY <2>4 DEF Requested, StepSync
    <3>2. QED
      BY <3>1, <2>i
  <2>5. CASE inOrder
    <3>o. OneRequest
      BY <2>2, <2>5 DEF Ordered
    <3>e. ASSUME NEW c \in Clients, EndRequest(c), req[c] # Idle PROVE OneRequest'
      <4>1. \A d \in Clients : req'[d] = Idle
        BY <3>e, <3>o, <1>r, RequestGoesOn DEF OneRequest
      <4>2. QED
        BY <4>1, <2>i
    <3>g. ASSUME NEW c \in Clients, NEW r, req' = [req EXCEPT ![c] = r], req[c] # Idle, Fresh(r)' PROVE OneRequest'
      <4>1. req'[c] = r /\ \A d \in Clients \ {c} : req'[d] = Idle
        BY <3>g, <3>o, <1>r, RequestGoesOn DEF OneRequest
      <4>2. Fresh(Idle)'
        BY DEF Fresh, Idle
      <4>3. QED
        BY <3>g, <4>1, <4>2 DEF OneRequest
    <3>1. ASSUME NEW c \in Clients, UpdateBegins(c) \/ MigrationBegins(c) \/ RenameBegins(c) \/ DeleteBegins(c) PROVE OneRequest'
      <4>1. PICK r : /\ Begin(c, r) /\ r # Idle /\ present /\ present' /\ r.name = name'
                /\ \/ /\ r.op = "update" /\ r.at = "read" /\ UNCHANGED <<name, used>>
                      /\ r.new = kontexte' \ kontexte /\ r.removed = kontexte \ kontexte'
                   \/ r.op = "migration" /\ r.kontext \notin kontexte /\ UNCHANGED <<name, used, kontexte>> /\ observed = "ldap"
                   \/ /\ r.op = "rename" /\ r.old = name /\ name' \notin used /\ used' = used \union {name'}
                      /\ UNCHANGED kontexte
                   \/ r.op = "delete" /\ r.at = "publish" /\ UNCHANGED <<name, used, kontexte>>
        BY <3>1, RequestBegins
      <4>2. ~Requested /\ req' = [req EXCEPT ![c] = r]
        BY <4>1, <2>2 DEF Begin
      <4>3. req'[c] = r /\ \A d \in Clients \ {c} : req'[d] = Idle
        BY <4>2, <1>r, RequestGoesOn DEF Requested
      <4>4. name \in used
        BY DEF RepTyped, DatabaseTyped
      <4>5. Fresh(r)'
        BY <4>1, <4>4 DEF Fresh
      <4>6. Fresh(Idle)'
        BY DEF Fresh, Idle
      <4>7. QED
        BY <4>3, <4>5, <4>6 DEF OneRequest
    <3>2. ASSUME NEW c \in Clients, UpdateReads(c) PROVE OneRequest'
      <4>1. PICK r : /\ req' = [req EXCEPT ![c] = r] /\ req[c].op = "update" /\ r.op = "update"
                     /\ r.new = req[c].new /\ r.removed = req[c].removed /\ r.current = kontexte /\ r.name = req[c].name
        BY <3>2, <1>r, UpdateGoesOn
      <4>2. UNCHANGED database /\ req[c] # Idle /\ Fresh(req[c])
        BY <3>2, <3>o, <4>1 DEF UpdateReads, OneRequest, Idle
      <4>3. Fresh(r)'
        BY <4>1, <4>2 DEF Fresh, database
      <4>4. QED
        BY <4>1, <4>2, <4>3, <3>g
    <3>3. ASSUME NEW c \in Clients, UpdateLoadsPerson(c) PROVE OneRequest'
      <4>1. req[c].op = "update" /\ req[c].at = "load" /\ req[c] # Idle /\ UNCHANGED database /\ Fresh(req[c])
        BY <3>3, <3>o DEF UpdateLoadsPerson, At, Idle, OneRequest
      <4>2. present
        BY <4>1 DEF Fresh
      <4>3. PICK r : /\ req' = [req EXCEPT ![c] = r] /\ r.op = "update"
                     /\ r.new = req[c].new /\ r.removed = req[c].removed /\ r.current = req[c].current /\ r.name = name
        <5>1. ~UpdateReads(c)
          BY <4>1 DEF UpdateReads, At
        <5>2. QED
          BY <3>3, <4>2, <5>1, <1>r, UpdateGoesOn
      <4>4. Fresh(r)'
        BY <4>1, <4>3 DEF Fresh, database
      <4>5. QED
        BY <4>1, <4>3, <4>4, <3>g
    <3>4. ASSUME NEW c \in Clients, PublishKontextUpdated(c) \/ MigrationSaves(c) \/ PublishRenamed(c) \/ RemovePerson(c) PROVE OneRequest'
      <4>1. EndRequest(c) /\ req[c].op \in {"update", "migration", "rename", "delete"}
        BY <3>4 DEF PublishKontextUpdated, MigrationSaves, PublishRenamed, RemovePerson, At
      <4>2. QED
        BY <4>1, <3>e DEF Idle
    <3>5. ASSUME NEW c \in Clients, PublishDeleted(c) PROVE OneRequest'
      <4>1. PICK r : req' = [req EXCEPT ![c] = r] /\ req[c].op = "delete" /\ r.op = "delete" /\ r.name = req[c].name
        BY <3>5, <1>r, DeletionGoesOn
      <4>2. UNCHANGED database /\ req[c] # Idle /\ Fresh(req[c])
        BY <3>5, <3>o, <4>1 DEF PublishDeleted, OneRequest, Idle
      <4>3. Fresh(r)'
        BY <4>1, <4>2 DEF Fresh, database
      <4>4. QED
        BY <4>1, <4>2, <4>3, <3>g
    <3>6. ASSUME NEW c \in Clients, PublishOxUserChanged(c) \/ SyncBegins(c) PROVE OneRequest'
      BY <3>6, <3>o, <1>u DEF PublishOxUserChanged, SyncBegins
    <3>7. ASSUME TokenRequest \/ StepGroups \/ ServeQueue \/ StepSync \/ StepTokens \/ StepLdap PROVE OneRequest'
      BY <3>7, <3>o, <1>u DEF TokenRequest, StepGroups, ServeQueue, StepSync, StepTokens, StepLdap
    <3>8. QED
      BY <1>2, <3>1, <3>2, <3>3, <3>4, <3>5, <3>6, <3>7 DEF ReplicasNext
  <2>6. QED
    BY <2>3, <2>4, <2>5
<1>3. QED
  BY <1>1, <1>2

(* At first nothing is requested. *)
LEMMA OrderedInit == ReplicasInit => Ordered
BY DEF ReplicasInit, Ordered, OnlyShown, AloneSync, OneRequest, Fresh, Idle

(* The username that was told last: the name, or the old one as *)
(* long as a renaming is not published.                                     *)
ToldName(u) ==
  /\ u \in used
  /\ \A c \in Clients : req[c].op = "rename" => req[c].old = u /\ req[c].name = name /\ u # name
  /\ \A c, d \in Clients : req[c].op = "rename" /\ req[d].op = "rename" => c = d
  /\ (\A c \in Clients : req[c].op # "rename") => u = name

(* The Kontexte that were told last: what an update has changed is not told *)
(* until it is published.                                                   *)
ToldKontexte(T) ==
  /\ T \subseteq Slots
  /\ (\A c \in Clients : req[c].op # "update") => T = kontexte
  /\ \A c \in Clients : req[c].op = "update" => T = (kontexte \ req[c].new) \union req[c].removed

(* Requests other than renamings do not change which name was told. *)
LEMMA ToldNameKept ==
  ASSUME NEW u, ToldName(u), UNCHANGED <<name, used>>, req \in [Clients -> Requests], NEW c \in Clients,
         req[c].op # "rename", req'[c].op # "rename", \A d \in Clients \ {c} : req'[d] = req[d]
  PROVE  ToldName(u)'
BY DEF ToldName

(* What was told stays the same until the next event, in order. *)
LEMMA ToldKept ==
  ASSUME RepTyped, Ordered, observed # "privacyidea", inOrder, inOrder', ReplicasNext
  PROVE  /\ \A T : /\ ToldKontexte(T)
                   /\ \A c \in Clients : ~PublishKontextUpdated(c) /\ ~MigrationSaves(c) /\ ~RemovePerson(c)
                   => ToldKontexte(T)'
         /\ \A u : ToldName(u) /\ (\A c \in Clients : ~PublishRenamed(c)) => ToldName(u)'
<1>o. OneRequest /\ req \in [Clients -> Requests] /\ kontexte \in SUBSET Slots /\ name \in used /\ Idle.op = "none"
  BY DEF Ordered, RepTyped, DatabaseTyped, Idle
<1>g. ASSUME NEW c \in Clients, NEW r, req' = [req EXCEPT ![c] = r], r.op # "rename", req[c].op # "rename", UNCHANGED <<name, used>>
      PROVE  \A u : ToldName(u) => ToldName(u)'
  <2>1. req'[c] = r /\ \A d \in Clients \ {c} : req'[d] = req[d]
    BY <1>g, <1>o, RequestGoesOn
  <2>2. QED
    BY <1>g, <1>o, <2>1, ToldNameKept
<1>h. ASSUME NEW c \in Clients, NEW r, req' = [req EXCEPT ![c] = r], r.op # "update", req[c].op # "update", UNCHANGED kontexte
      PROVE  \A T : ToldKontexte(T) => ToldKontexte(T)'
  <2>1. req'[c] = r /\ \A d \in Clients \ {c} : req'[d] = req[d]
    BY <1>h, <1>o, RequestGoesOn
  <2>2. QED
    BY <1>h, <2>1 DEF ToldKontexte
<1>1. ASSUME NEW c \in Clients, UpdateBegins(c) \/ MigrationBegins(c) \/ RenameBegins(c) \/ DeleteBegins(c)
      PROVE (\A T : ToldKontexte(T) => ToldKontexte(T)') /\ (\A u : ToldName(u) => ToldName(u)')
  <2>1. PICK r : /\ Begin(c, r) /\ r # Idle /\ present /\ present' /\ r.name = name'
                /\ \/ /\ r.op = "update" /\ r.at = "read" /\ UNCHANGED <<name, used>>
                      /\ r.new = kontexte' \ kontexte /\ r.removed = kontexte \ kontexte'
                   \/ r.op = "migration" /\ r.kontext \notin kontexte /\ UNCHANGED <<name, used, kontexte>> /\ observed = "ldap"
                   \/ /\ r.op = "rename" /\ r.old = name /\ name' \notin used /\ used' = used \union {name'}
                      /\ UNCHANGED kontexte
                   \/ r.op = "delete" /\ r.at = "publish" /\ UNCHANGED <<name, used, kontexte>>
    BY <1>1, RequestBegins
  <2>2. ~Requested /\ req' = [req EXCEPT ![c] = r]
    BY <2>1 DEF Begin
  <2>3. req'[c] = r /\ (\A d \in Clients \ {c} : req'[d] = Idle) /\ \A d \in Clients : req[d] = Idle
    BY <2>2, <1>o, RequestGoesOn DEF Requested
  <2>4. \A u : ToldName(u) => ToldName(u)'
    <3>1. CASE r.op # "rename"
      BY <3>1, <2>1, <2>2, <2>3, <1>g, <1>o
    <3>2. CASE r.op = "rename"
      <4>1. SUFFICES ASSUME NEW u, ToldName(u) PROVE ToldName(u)'
        OBVIOUS
      <4>2. u = name
        BY <4>1, <2>3, <1>o DEF ToldName
      <4>3. \A d \in Clients : req'[d].op = "rename" => d = c
        BY <2>3, <1>o
      <4>4. QED
        BY <4>2, <4>3, <3>2, <2>1, <2>3, <1>o DEF ToldName
    <3>3. QED
      BY <3>1, <3>2
  <2>5. \A T : ToldKontexte(T) => ToldKontexte(T)'
    <3>1. CASE r.op # "update"
      BY <3>1, <2>1, <2>2, <2>3, <1>h, <1>o
    <3>2. CASE r.op = "update"
      <4>1. SUFFICES ASSUME NEW T, ToldKontexte(T) PROVE ToldKontexte(T)'
        OBVIOUS
      <4>2. T = kontexte
        BY <4>1, <2>3, <1>o DEF ToldKontexte
      <4>3. kontexte = (kontexte' \ r.new) \union r.removed
        BY <3>2, <2>1
      <4>4. \A d \in Clients : req'[d].op = "update" => d = c
        BY <2>3, <1>o
      <4>5. QED
        BY <4>1, <4>2, <4>3, <4>4, <3>2, <2>3 DEF ToldKontexte
    <3>3. QED
      BY <3>1, <3>2
  <2>6. QED
    BY <2>4, <2>5
<1>2. ASSUME NEW c \in Clients, UpdateReads(c) \/ UpdateLoadsPerson(c)
      PROVE (\A T : ToldKontexte(T) => ToldKontexte(T)') /\ (\A u : ToldName(u) => ToldName(u)')
  <2>1. req[c].op = "update" /\ UNCHANGED database /\ req[c] # Idle /\ Fresh(req[c])
    BY <1>2, <1>o DEF UpdateReads, UpdateLoadsPerson, At, OneRequest, Idle
  <2>2. present
    BY <2>1 DEF Fresh
  <2>3. PICK r : req' = [req EXCEPT ![c] = r] /\ r.op = "update" /\ r.new = req[c].new /\ r.removed = req[c].removed
    BY <1>2, <1>o, <2>2, UpdateGoesOn
  <2>4. req'[c] = r /\ \A d \in Clients \ {c} : req'[d] = req[d]
    BY <2>3, <1>o, RequestGoesOn
  <2>5. \A u : ToldName(u) => ToldName(u)'
    BY <2>1, <2>3, <1>g DEF database
  <2>6. \A T : ToldKontexte(T) => ToldKontexte(T)'
    BY <2>1, <2>3, <2>4 DEF ToldKontexte, database
  <2>7. QED
    BY <2>5, <2>6
<1>3. ASSUME NEW c \in Clients, PublishKontextUpdated(c) \/ MigrationSaves(c) \/ RemovePerson(c)
      PROVE \A u : ToldName(u) => ToldName(u)'
  <2>1. req[c].op # "rename" /\ UNCHANGED <<name, used>> /\ req' = [req EXCEPT ![c] = Idle]
    BY <1>3 DEF PublishKontextUpdated, MigrationSaves, RemovePerson, At, database, EndRequest
  <2>2. PICK r : r = Idle
    OBVIOUS
  <2>3. QED
    BY <2>1, <2>2, <1>g, <1>o
<1>4. ASSUME NEW c \in Clients, PublishRenamed(c) PROVE \A T : ToldKontexte(T) => ToldKontexte(T)'
  <2>1. req[c].op # "update" /\ UNCHANGED kontexte /\ req' = [req EXCEPT ![c] = Idle]
    BY <1>4 DEF PublishRenamed, At, database, EndRequest
  <2>2. PICK r : r = Idle
    OBVIOUS
  <2>3. QED
    BY <2>1, <2>2, <1>h, <1>o
<1>5. ASSUME NEW c \in Clients, PublishDeleted(c)
      PROVE (\A T : ToldKontexte(T) => ToldKontexte(T)') /\ (\A u : ToldName(u) => ToldName(u)')
  <2>1. PICK r : req' = [req EXCEPT ![c] = r] /\ req[c].op = "delete" /\ r.op = "delete"
    BY <1>5, <1>o, DeletionGoesOn
  <2>2. UNCHANGED database
    BY <1>5 DEF PublishDeleted
  <2>3. QED
    BY <2>1, <2>2, <1>g, <1>h DEF database
<1>6. ASSUME UNCHANGED <<database, req>>
      PROVE (\A T : ToldKontexte(T) => ToldKontexte(T)') /\ (\A u : ToldName(u) => ToldName(u)')
  BY <1>6 DEF ToldKontexte, ToldName, database
<1>7. ASSUME NEW c \in Clients, PublishOxUserChanged(c) \/ SyncBegins(c) PROVE UNCHANGED <<database, req>>
  BY <1>7 DEF PublishOxUserChanged, SyncBegins
<1>8. ASSUME TokenRequest \/ StepGroups \/ ServeQueue \/ StepSync \/ StepTokens \/ StepLdap PROVE UNCHANGED <<database, req>>
  BY <1>8 DEF TokenRequest, StepGroups, ServeQueue, StepSync, StepTokens, StepLdap
<1>9. QED
  BY <1>1, <1>2, <1>3, <1>4, <1>5, <1>6, <1>7, <1>8 DEF ReplicasNext

(* With its event a request ends, and what was told is what is. *)
LEMMA ToldNow ==
  ASSUME RepTyped, Ordered, observed # "privacyidea", inOrder, RepTyped', NEW c \in Clients
  PROVE  /\ PublishKontextUpdated(c) \/ MigrationSaves(c) \/ RemovePerson(c) => \A T : T = kontexte' => ToldKontexte(T)'
         /\ PublishRenamed(c) => \A u : u = name => ToldName(u)'
<1>o. OneRequest /\ req \in [Clients -> Requests] /\ kontexte' \in SUBSET Slots /\ Idle.op = "none"
  BY DEF Ordered, RepTyped, DatabaseTyped, Idle
<1>1. ASSUME EndRequest(c), req[c] # Idle PROVE \A d \in Clients : req'[d] = Idle
  BY <1>1, <1>o, RequestGoesOn DEF OneRequest
<1>2. ASSUME PublishKontextUpdated(c) \/ MigrationSaves(c) \/ RemovePerson(c), NEW T, T = kontexte' PROVE ToldKontexte(T)'
  <2>1. EndRequest(c) /\ req[c].op # "none"
    BY <1>2 DEF PublishKontextUpdated, MigrationSaves, RemovePerson, At
  <2>2. \A d \in Clients : req'[d].op = "none"
    BY <2>1, <1>1, <1>o
  <2>3. QED
    BY <2>2, <1>2, <1>o DEF ToldKontexte
<1>3. ASSUME PublishRenamed(c), NEW u, u = name PROVE ToldName(u)'
  <2>1. EndRequest(c) /\ req[c].op # "none" /\ UNCHANGED <<name, used>>
    BY <1>3 DEF PublishRenamed, At, database
  <2>2. \A d \in Clients : req'[d].op = "none"
    BY <2>1, <1>1, <1>o
  <2>3. name \in used
    BY DEF RepTyped, DatabaseTyped
  <2>4. QED
    BY <2>1, <2>2, <2>3, <1>3 DEF ToldName
<1>4. QED
  BY <1>2, <1>3

-----------------------------------------------------------------------------
(* PrivacyIDEA                                                             *)

(* A renaming to u on its way, and the tokens it takes along. *)
Moving(t, u) ==
  /\ t.new = u /\ t.user # u /\ t.left \subseteq t.serials
  /\ t.at \in {"exists", "list", "take", "add"} => piUsers \subseteq {t.user}
  /\ t.at \in {"give", "deleteUser"} => u \in piUsers /\ piUsers \subseteq {t.user, u}
  /\ \A s \in t.serials : rollout[s] # "none"
  /\ t.at = "take" => \A s \in t.serials \ t.left : owner[s] = Nobody
  /\ t.at = "add" => t.left = t.serials /\ \A s \in t.serials : owner[s] = Nobody
  /\ t.at = "give" => \A s \in t.left : owner[s] = Nobody

(* The tokens a renaming has found, taken and given are the person's. *)
MovedRight(t, u) ==
  /\ t.at \in {"take", "add", "give"} => t.serials = theirs
  /\ t.at \in {"exists", "list"} => \A s \in Serials : owner[s] = t.user <=> s \in theirs
  /\ t.at = "take" => \A s \in Serials : owner[s] = t.user <=> s \in t.left
  /\ t.at = "give" => \A s \in Serials : owner[s] = u <=> s \in t.serials \ t.left
  /\ t.at = "deleteUser" => \A s \in Serials : owner[s] = u <=> s \in theirs

(* What an operation in progress is for, with u the name that was told. *)
Operating(t, u) ==
  /\ t.op \in {"init", "assign", "reset", "verify"} => t.user = u /\ t.new = u
  /\ t.op = "delete" => Gone
  /\ t.op = "rename" => Moving(t, u)

(* One operation at a time, and only u has a user unless a renaming is on its way. *)
UnderName(u) ==
  /\ \A t, v \in piTasks : t = v
  /\ \A t \in piTasks : Operating(t, u)
  /\ (\A t \in piTasks : t.op # "rename") => piUsers \subseteq {u}

(* How far an operation has come with the token that waits to be verified. *)
Pending(t) ==
  /\ t.op = "init" /\ t.at \in {"add", "init"} => \A s \in Serials : rollout[s] # "verify"
  /\ t.at = "drop" => \A s \in t.left, v \in Serials : rollout[v] = "verify" => v = s
  /\ t.op = "reset" /\ t.at = "take" => \A s \in t.left : rollout[s] # "verify"

(* u owns what the person was given, and nothing else. *)
OwnedBy(u) == \A s \in Serials : owner[s] = u <=> s \in theirs

(* One token of the person waits to be verified, if any. *)
OneToVerify ==
  /\ \A s \in Serials : rollout[s] = "verify" => s \in theirs
  /\ \A s, v \in Serials : rollout[s] = "verify" /\ rollout[v] = "verify" => s = v

(* The tokens, as far as the operation in progress has come. *)
Owned(u) ==
  /\ \A t \in piTasks : (t.op = "rename" => MovedRight(t, u)) /\ Pending(t)
  /\ (\A t \in piTasks : t.op # "rename") => OwnedBy(u)
  /\ OneToVerify

TokensFit(u) == UnderName(u) /\ (~Gone => Owned(u))

(* As long as nothing overlaps or fails, the tokens fit the name that was told. *)
TokensInv == observed = "privacyidea" /\ inOrder => \E u \in Usernames : ToldName(u) /\ TokensFit(u)

-----------------------------------------------------------------------------
(* One operation goes on, or ends. *)
LEMMA OperationGoesOn ==
  ASSUME NEW u, NEW n, piTasks' = {n}, Operating(n, u)', n.op # "rename" => piUsers' \subseteq {u},
         ~Gone' => /\ n.op = "rename" => MovedRight(n, u)'
                   /\ n.op # "rename" => OwnedBy(u)'
                   /\ Pending(n)' /\ OneToVerify'
  PROVE  TokensFit(u)'
BY DEF TokensFit, UnderName, Owned

(* An operation ends with the tokens under the name. *)
LEMMA OperationEnds ==
  ASSUME NEW u, piTasks' = {}, piUsers' \subseteq {u}, ~Gone' => OwnedBy(u)' /\ OneToVerify'
  PROVE  TokensFit(u)'
BY DEF TokensFit, UnderName, Owned

(* Whoever owns a token is there; without users nobody does. *)
LEMMA OwnersThere ==
  ASSUME TokensTyped, NEW u, u \notin piUsers, u \in PiNames
  PROVE  \A s \in Serials : owner[s] # u
BY ReplicasAssumption DEF TokensTyped, OwnersAreUsers

(* A renaming goes on under the new name, with all tokens. *)
LEMMA RenamingFits ==
  ASSUME TokensTyped, NEW u \in Usernames, TokensFit(u), UNCHANGED <<present, req>>,
         NEW t \in piTasks, t.op = "rename", TokenStep(t)
  PROVE  TokensFit(u)'
<1>t. t \in TokenTasks /\ t.at \in {"exists", "list", "take", "add", "give", "deleteUser"} /\ u \in PiNames
      /\ t.user \in PiNames /\ Nobody \notin PiNames /\ t.serials \subseteq Serials /\ t.left \subseteq Serials
  <2>1. t \in TokenTasks
    BY DEF TokensTyped
  <2>2. QED
    BY <2>1, TaskSteps, ReplicasAssumption
<1>g. Gone' <=> Gone
  BY DEF Gone, At
<1>m. piTasks = {t} /\ Moving(t, u) /\ (~Gone => MovedRight(t, u) /\ OneToVerify)
  BY DEF TokensFit, UnderName, Operating, Owned
<1>o. owner \in [Serials -> PiNames \union {Nobody}] /\ theirs \subseteq Serials
      /\ rollout \in [Serials -> {"none", "verify", "enrolled"}]
  BY DEF TokensTyped, TokensTypeOK
<1>n. ASSUME NEW n, piTasks' = {n}, n.op = "rename", Moving(n, u)', ~Gone => MovedRight(n, u)' /\ OneToVerify', n.at # "drop"
      PROVE  TokensFit(u)'
  BY <1>n, <1>g, OperationGoesOn DEF Operating, Pending
<1>1. CASE CheckUserExists(t)
  <2>1. t.new \notin piUsers
    BY <1>1, <1>m DEF CheckUserExists, Moving
  <2>2. piTasks' = {[t EXCEPT !.at = "list"]} /\ UNCHANGED <<piUsers, owner, rollout, theirs>> /\ t.at = "exists"
    BY <1>1, <1>m, <2>1 DEF CheckUserExists, Proceed, stores
  <2>3. PICK n : n = [t EXCEPT !.at = "list"]
    OBVIOUS
  <2>4. n.op = t.op /\ n.at = "list" /\ n.user = t.user /\ n.new = t.new /\ n.serials = t.serials /\ n.left = t.left
    BY <2>3, <1>t DEF TokenTasks
  <2>5. Moving(n, u)'
    BY <2>2, <2>4, <1>m DEF Moving
  <2>6. ~Gone => MovedRight(n, u)' /\ OneToVerify'
    BY <2>2, <2>4, <1>m DEF MovedRight, OneToVerify
  <2>7. QED
    BY <2>2, <2>3, <2>4, <2>5, <2>6, <1>n
<1>2. CASE ListTokens(t)
  <2>1. t.at = "list" /\ UNCHANGED <<piUsers, owner, rollout, theirs>>
    BY <1>2 DEF ListTokens, stores
  <2>2. PICK S : S = TokensOf(t.user)
    OBVIOUS
  <2>3. S \subseteq Serials /\ \A s \in Serials : s \in S <=> owner[s] = t.user
    BY <2>2, <1>t, OwnersThere DEF TokensOf
  <2>4. PICK n : n = [t EXCEPT !.at = IF S = {} THEN "add" ELSE "take", !.serials = S, !.left = S]
    OBVIOUS
  <2>5. piTasks' = {n}
    BY <1>2, <1>m, <2>2, <2>4 DEF ListTokens, ProceedWith
  <2>6. n.op = t.op /\ n.at = (IF S = {} THEN "add" ELSE "take") /\ n.user = t.user /\ n.new = t.new /\ n.serials = S /\ n.left = S
    BY <2>4, <1>t DEF TokenTasks
  <2>7. \A s \in S : rollout[s] # "none"
    BY <2>3, <1>t DEF TokensTyped, TokensTypeOK
  <2>8. Moving(n, u)'
    BY <2>1, <2>3, <2>6, <2>7, <1>m DEF Moving
  <2>9. ~Gone => MovedRight(n, u)' /\ OneToVerify'
    <3>1. ~Gone => S = theirs
      BY <2>1, <2>3, <1>m, <1>o DEF MovedRight
    <3>2. QED
      BY <3>1, <2>1, <2>3, <2>6, <1>m DEF MovedRight, OneToVerify
  <2>10. QED
    BY <2>5, <2>6, <2>8, <2>9, <1>n
<1>3. CASE TakeToken(t)
  <2>1. PICK s \in t.left : t.at = "take" /\ owner' = [owner EXCEPT ![s] = Nobody] /\ UNCHANGED <<piUsers, rollout, theirs>>
                            /\ ProceedOne(t, s, "add")
    BY <1>3 DEF TakeToken
  <2>2. PICK L : L = IF t.left = {s} THEN t.serials ELSE t.left \ {s}
    OBVIOUS
  <2>3. PICK n : n = [t EXCEPT !.at = IF t.left = {s} THEN "add" ELSE t.at, !.left = L]
    OBVIOUS
  <2>4. n.op = t.op /\ n.at = (IF t.left = {s} THEN "add" ELSE "take") /\ n.user = t.user /\ n.new = t.new
        /\ n.serials = t.serials /\ n.left = L
    BY <2>1, <2>3, <1>t DEF TokenTasks
  <2>5. piTasks' = {n}
    <3>1. CASE t.left = {s}
      <4>1. n = [t EXCEPT !.at = "add", !.left = t.serials]
        BY <3>1, <2>2, <2>3
      <4>2. QED
        BY <3>1, <4>1, <2>1, <1>m DEF ProceedOne
    <3>2. CASE t.left # {s}
      <4>1. n = [t EXCEPT !.left = t.left \ {s}]
        BY <3>2, <2>2, <2>3, <1>t DEF TokenTasks
      <4>2. [t EXCEPT !.left = @ \ {s}] = [t EXCEPT !.left = t.left \ {s}]
        OBVIOUS
      <4>3. QED
        BY <3>2, <4>1, <4>2, <2>1, <1>m DEF ProceedOne
    <3>3. QED
      BY <3>1, <3>2
  <2>6. s \in Serials /\ owner'[s] = Nobody /\ \A v \in Serials \ {s} : owner'[v] = owner[v]
    BY <2>1, <1>t, <1>o
  <2>7. Moving(n, u)'
    <3>1. n.new = u /\ n.user # u /\ n.left \subseteq n.serials /\ piUsers' \subseteq {n.user} /\ \A v \in n.serials : rollout'[v] # "none"
      BY <2>1, <2>2, <2>4, <1>m DEF Moving
    <3>2. n.at = "take" => \A v \in n.serials \ n.left : owner'[v] = Nobody
      BY <2>1, <2>2, <2>4, <2>6, <1>m, <1>t DEF Moving
    <3>3. n.at = "add" => n.left = n.serials /\ \A v \in n.serials : owner'[v] = Nobody
      BY <2>1, <2>2, <2>4, <2>6, <1>m, <1>t DEF Moving
    <3>4. QED
      BY <3>1, <3>2, <3>3, <2>4 DEF Moving
  <2>8. ~Gone => MovedRight(n, u)' /\ OneToVerify'
    <3>1. SUFFICES ASSUME ~Gone PROVE MovedRight(n, u)' /\ OneToVerify'
      OBVIOUS
    <3>2. n.serials = theirs'
      BY <3>1, <2>1, <2>4, <1>m DEF MovedRight
    <3>3. n.at = "take" => \A v \in Serials : owner'[v] = n.user <=> v \in n.left
      <4>1. \A v \in Serials : owner[v] = t.user <=> v \in t.left
        BY <3>1, <2>1, <1>m DEF MovedRight
      <4>2. t.user # Nobody
        BY <1>t
      <4>3. QED
        BY <4>1, <4>2, <2>2, <2>4, <2>6
    <3>4. OneToVerify'
      BY <3>1, <2>1, <1>m DEF OneToVerify
    <3>5. QED
      BY <3>2, <3>3, <3>4, <2>4 DEF MovedRight
  <2>9. QED
    BY <2>4, <2>5, <2>7, <2>8, <1>n
<1>4. CASE AddUser(t)
  <2>1. t.at = "add" /\ UNCHANGED <<owner, rollout, theirs>>
    BY <1>4 DEF AddUser
  <2>2. u \notin piUsers /\ t.new = u
    BY <2>1, <1>m DEF Moving
  <2>3. PICK n : n = [t EXCEPT !.at = IF t.serials = {} THEN "deleteUser" ELSE "give"]
    OBVIOUS
  <2>4. piUsers' = piUsers \union {u} /\ piTasks' = {n}
    BY <1>4, <1>m, <2>2, <2>3 DEF AddUser, Proceed
  <2>5. n.op = t.op /\ n.at = (IF t.serials = {} THEN "deleteUser" ELSE "give") /\ n.user = t.user /\ n.new = t.new
        /\ n.serials = t.serials /\ n.left = t.left
    BY <2>3, <1>t DEF TokenTasks
  <2>6. Moving(n, u)'
    BY <2>1, <2>2, <2>4, <2>5, <1>m DEF Moving
  <2>7. ~Gone => MovedRight(n, u)' /\ OneToVerify'
    <3>1. \A s \in Serials : owner[s] # u
      BY <2>2, <1>t, OwnersThere
    <3>2. QED
      BY <3>1, <2>1, <2>5, <1>m DEF Moving, MovedRight, OneToVerify
  <2>8. QED
    BY <2>4, <2>5, <2>6, <2>7, <1>n
<1>5. CASE GiveToken(t)
  <2>1. t.at = "give" /\ UNCHANGED <<piUsers, rollout>> /\ u \in piUsers /\ t.new = u
    BY <1>5, <1>m DEF GiveToken, Moving
  <2>2. PICK s \in t.left : owner' = [owner EXCEPT ![s] = u] /\ UNCHANGED theirs /\ ProceedOne(t, s, "deleteUser")
    BY <1>5, <1>m, <2>1 DEF GiveToken, Moving
  <2>3. PICK L : L = IF t.left = {s} THEN t.serials ELSE t.left \ {s}
    OBVIOUS
  <2>4. PICK n : n = [t EXCEPT !.at = IF t.left = {s} THEN "deleteUser" ELSE t.at, !.left = L]
    OBVIOUS
  <2>5. n.op = t.op /\ n.at = (IF t.left = {s} THEN "deleteUser" ELSE "give") /\ n.user = t.user /\ n.new = t.new
        /\ n.serials = t.serials /\ n.left = L
    BY <2>1, <2>4, <1>t DEF TokenTasks
  <2>6. piTasks' = {n}
    <3>1. CASE t.left = {s}
      <4>1. n = [t EXCEPT !.at = "deleteUser", !.left = t.serials]
        BY <3>1, <2>3, <2>4
      <4>2. QED
        BY <3>1, <4>1, <2>2, <1>m DEF ProceedOne
    <3>2. CASE t.left # {s}
      <4>1. n = [t EXCEPT !.left = t.left \ {s}]
        BY <3>2, <2>3, <2>4, <1>t DEF TokenTasks
      <4>2. [t EXCEPT !.left = @ \ {s}] = [t EXCEPT !.left = t.left \ {s}]
        OBVIOUS
      <4>3. QED
        BY <3>2, <4>1, <4>2, <2>2, <1>m DEF ProceedOne
    <3>3. QED
      BY <3>1, <3>2
  <2>7. s \in Serials /\ owner'[s] = u /\ \A v \in Serials \ {s} : owner'[v] = owner[v]
    BY <2>2, <1>t, <1>o
  <2>8. Moving(n, u)'
    <3>1. n.new = u /\ n.user # u /\ n.left \subseteq n.serials /\ u \in piUsers' /\ piUsers' \subseteq {n.user, u}
          /\ \A v \in n.serials : rollout'[v] # "none"
      BY <2>1, <2>3, <2>5, <1>m DEF Moving
    <3>2. n.at = "give" => \A v \in n.left : owner'[v] = Nobody
      BY <2>1, <2>3, <2>5, <2>7, <1>m, <1>t DEF Moving
    <3>3. QED
      BY <3>1, <3>2, <2>5 DEF Moving
  <2>9. ~Gone => MovedRight(n, u)' /\ OneToVerify'
    <3>1. SUFFICES ASSUME ~Gone PROVE MovedRight(n, u)' /\ OneToVerify'
      OBVIOUS
    <3>2. t.serials = theirs /\ (\A v \in Serials : owner[v] = u <=> v \in t.serials \ t.left) /\ t.left \subseteq t.serials
      BY <3>1, <2>1, <1>m DEF MovedRight, Moving
    <3>3. n.at = "give" => \A v \in Serials : owner'[v] = u <=> v \in n.serials \ n.left
      BY <3>2, <2>3, <2>5, <2>7
    <3>4. n.at = "deleteUser" => \A v \in Serials : owner'[v] = u <=> v \in theirs'
      BY <3>2, <2>2, <2>3, <2>5, <2>7
    <3>5. OneToVerify'
      BY <3>1, <2>1, <2>2, <1>m DEF OneToVerify
    <3>6. QED
      BY <3>2, <3>3, <3>4, <3>5, <2>2, <2>5 DEF MovedRight
  <2>10. QED
    BY <2>5, <2>6, <2>8, <2>9, <1>n
<1>6. CASE DeleteUser(t)
  <2>1. t.at = "deleteUser" /\ piTasks' = {} /\ piUsers' = piUsers \ {t.user} /\ UNCHANGED <<rollout, theirs>>
        /\ owner' = [s \in Serials |-> IF owner[s] = t.user THEN Nobody ELSE owner[s]]
    BY <1>6, <1>m DEF DeleteUser, Finish
  <2>2. piUsers' \subseteq {u} /\ t.user # u
    BY <2>1, <1>m DEF Moving
  <2>3. ~Gone' => OwnedBy(u)' /\ OneToVerify'
    BY <2>1, <2>2, <1>g, <1>m, <1>t DEF MovedRight, OwnedBy, OneToVerify
  <2>4. QED
    BY <2>1, <2>2, <2>3, OperationEnds
<1>7. CASE FindPending(t) \/ DropPending(t) \/ InitToken(t) \/ CheckSerial(t) \/ ConfirmToken(t) \/ FindTokensToReset(t)
  BY <1>7, <1>t DEF FindPending, DropPending, InitToken, CheckSerial, ConfirmToken, FindTokensToReset
<1>8. QED
  BY <1>1, <1>2, <1>3, <1>4, <1>5, <1>6, <1>7 DEF TokenStep

(* The other operations leave every token to the user whose it is. *)
LEMMA OperationFits ==
  ASSUME TokensTyped, NEW u \in Usernames, TokensFit(u), UNCHANGED <<present, req>>,
         NEW t \in piTasks, t.op \in {"init", "assign", "reset", "verify"}, TokenStep(t)
  PROVE  TokensFit(u)'
<1>t. /\ t \in TokenTasks /\ u \in PiNames /\ Nobody \notin PiNames /\ t.serials \subseteq Serials /\ t.left \subseteq Serials
      /\ t.op = "init" => t.at \in {"exists", "pending", "add", "drop", "init"}
      /\ t.op = "assign" => t.at \in {"exists", "pending", "add", "drop", "status", "give"}
      /\ t.op = "reset" => t.at \in {"list", "take"}
      /\ t.op = "verify" => t.at \in {"list", "confirm"}
  <2>1. t \in TokenTasks
    BY DEF TokensTyped
  <2>2. QED
    BY <2>1, TaskSteps, ReplicasAssumption
<1>g. Gone' <=> Gone
  BY DEF Gone, At
<1>m. piTasks = {t} /\ t.user = u /\ t.new = u /\ piUsers \subseteq {u}
      /\ (~Gone => OwnedBy(u) /\ OneToVerify /\ Pending(t))
  BY DEF TokensFit, UnderName, Operating, Owned
<1>o. owner \in [Serials -> PiNames \union {Nobody}] /\ theirs \subseteq Serials
      /\ rollout \in [Serials -> {"none", "verify", "enrolled"}] /\ \A s \in Serials : rollout[s] = "none" => owner[s] = Nobody
  BY DEF TokensTyped, TokensTypeOK
<1>n. ASSUME NEW n, piTasks' = {n}, n.op = t.op, n.user = u, n.new = u, piUsers' \subseteq {u},
             ~Gone => OwnedBy(u)' /\ OneToVerify' /\ Pending(n)'
      PROVE  TokensFit(u)'
  BY <1>n, <1>g, OperationGoesOn DEF Operating
<1>e. ASSUME Finish(t), piUsers' \subseteq {u}, ~Gone => OwnedBy(u)' /\ OneToVerify' PROVE TokensFit(u)'
  BY <1>e, <1>g, <1>m, OperationEnds DEF Finish
<1>k. ASSUME UNCHANGED <<owner, rollout, theirs>>, ~Gone PROVE OwnedBy(u)' /\ OneToVerify'
  BY <1>k, <1>m DEF OwnedBy, OneToVerify
(* Whose tokens wait to be verified is known. *)
<1>v. ~Gone => \A s \in Serials : rollout[s] = "verify" => s \in ToVerify(u)
  <2>1. SUFFICES ASSUME ~Gone, NEW s \in Serials, rollout[s] = "verify" PROVE s \in ToVerify(u)
    OBVIOUS
  <2>2. owner[s] = u
    BY <2>1, <1>m DEF OwnedBy, OneToVerify
  <2>3. u \in piUsers
    BY <2>2, <1>t DEF TokensTyped, OwnersAreUsers
  <2>4. QED
    BY <2>1, <2>2, <2>3 DEF ToVerify, TokensOf
<1>p. ASSUME NEW at, Proceed(t, at), UNCHANGED <<owner, rollout, theirs>>, piUsers' \subseteq {u}, at \in {"pending", "add", "init", "status", "give"},
             ~Gone /\ t.op = "init" /\ at \in {"add", "init"} => \A s \in Serials : rollout[s] # "verify"
      PROVE  TokensFit(u)'
  <2>1. PICK n : n = [t EXCEPT !.at = at]
    OBVIOUS
  <2>2. piTasks' = {n}
    BY <1>p, <1>m, <2>1 DEF Proceed
  <2>3. n.op = t.op /\ n.at = at /\ n.user = u /\ n.new = u
    BY <2>1, <1>t, <1>m DEF TokenTasks
  <2>4. ~Gone => Pending(n)'
    BY <2>3, <1>p, <1>t DEF Pending
  <2>5. QED
    BY <2>2, <2>3, <2>4, <1>p, <1>k, <1>n
<1>1. CASE CheckUserExists(t)
  <2>1. t.at = "exists" /\ UNCHANGED <<piUsers, owner, rollout, theirs>> /\ t.op # "rename"
    BY <1>1 DEF CheckUserExists, stores
  <2>2. Proceed(t, IF u \in piUsers THEN "pending" ELSE "add")
    BY <1>1, <1>m DEF CheckUserExists
  <2>3. u \notin piUsers /\ ~Gone => \A s \in Serials : rollout[s] # "verify"
    BY <1>v DEF ToVerify, TokensOf
  <2>4. PICK at : at = IF u \in piUsers THEN "pending" ELSE "add"
    OBVIOUS
  <2>5. QED
    BY <2>1, <2>2, <2>3, <2>4, <1>m, <1>p
<1>2. CASE AddUser(t)
  <2>1. t.at = "add" /\ UNCHANGED <<owner, rollout, theirs>> /\ t.op \in {"init", "assign"}
    BY <1>2, <1>t DEF AddUser
  <2>2. CASE Finish(t) /\ UNCHANGED piUsers
    BY <2>1, <2>2, <1>e, <1>k, <1>m
  <2>3. CASE piUsers' = piUsers \union {u} /\ t.op = "init" /\ Proceed(t, "init")
    <3>1. ~Gone => \A s \in Serials : rollout[s] # "verify"
      BY <2>1, <2>3, <1>m DEF Pending
    <3>2. QED
      BY <2>1, <2>3, <3>1, <1>m, <1>p
  <2>4. CASE piUsers' = piUsers \union {u} /\ t.op = "assign" /\ Proceed(t, "status")
    BY <2>1, <2>4, <1>m, <1>p
  <2>5. QED
    BY <1>2, <2>1, <2>2, <2>3, <2>4, <1>m DEF AddUser
<1>3. CASE FindPending(t)
  <2>1. t.at = "pending" /\ UNCHANGED <<piUsers, owner, rollout, theirs>> /\ t.op \in {"init", "assign"}
    BY <1>3, <1>t DEF FindPending, stores
  <2>2. CASE ToVerify(u) = {} /\ Proceed(t, AfterPending(t))
    <3>1. ~Gone => \A s \in Serials : rollout[s] # "verify"
      BY <2>2, <1>v
    <3>2. PICK at : at = AfterPending(t)
      OBVIOUS
    <3>3. at \in {"init", "status"}
      BY <3>2 DEF AfterPending
    <3>4. QED
      BY <2>1, <2>2, <3>1, <3>2, <3>3, <1>m, <1>p
  <2>3. ASSUME NEW s \in ToVerify(u), piTasks' = {[t EXCEPT !.at = "drop", !.left = {s}]} PROVE TokensFit(u)'
    <3> DEFINE S == {s}
    <3>s. s \in S /\ \A x \in S : x = s
      OBVIOUS
    <3> HIDE DEF S
    <3>1. PICK n : n = [t EXCEPT !.at = "drop", !.left = S]
      OBVIOUS
    <3>2. piTasks' = {n}
      BY <2>3, <3>1 DEF S
    <3>3. n.op = t.op /\ n.at = "drop" /\ n.user = u /\ n.new = u /\ n.left = S
      BY <3>1, <1>t, <1>m DEF TokenTasks
    <3>4. rollout[s] = "verify" /\ s \in Serials
      BY <2>3 DEF ToVerify, TokensOf
    <3>5. ~Gone => Pending(n)'
      BY <3>3, <3>4, <3>s, <2>1, <1>m DEF Pending, OneToVerify
    <3>6. QED
      BY <3>2, <3>3, <3>5, <2>1, <1>k, <1>m, <1>n
  <2>4. QED
    BY <1>3, <2>2, <2>3, <1>m DEF FindPending
<1>4. CASE DropPending(t)
  <2>1. t.at = "drop" /\ UNCHANGED piUsers /\ t.op \in {"init", "assign"}
    BY <1>4, <1>t DEF DropPending
  <2>2. PICK s \in t.left : owner' = [owner EXCEPT ![s] = Nobody] /\ rollout' = [rollout EXCEPT ![s] = "none"] /\ theirs' = theirs \ {s}
    BY <1>4 DEF DropPending
  <2>3. s \in Serials /\ owner'[s] = Nobody /\ rollout'[s] = "none"
        /\ \A v \in Serials \ {s} : owner'[v] = owner[v] /\ rollout'[v] = rollout[v]
    BY <2>2, <1>t, <1>o
  <2>4. PICK n : n = [t EXCEPT !.at = AfterPending(t), !.serials = t.serials, !.left = t.serials]
    OBVIOUS
  <2>5. piTasks' = {n}
    BY <1>4, <2>4, <1>m DEF DropPending, ProceedWith
  <2>6. n.op = t.op /\ n.at \in {"init", "status"} /\ n.user = u /\ n.new = u
    BY <2>4, <1>t, <1>m DEF TokenTasks, AfterPending
  <2>7. ~Gone => \A v \in Serials : rollout'[v] # "verify"
    BY <2>1, <2>2, <2>3, <1>m DEF Pending
  <2>8. ~Gone => OwnedBy(u)' /\ OneToVerify'
    <3>1. ~Gone => OneToVerify'
      BY <2>7 DEF OneToVerify
    <3>2. ~Gone => OwnedBy(u)'
      BY <2>2, <2>3, <1>m, <1>t DEF OwnedBy
    <3>3. QED
      BY <3>1, <3>2
  <2>9. ~Gone => Pending(n)'
    BY <2>6, <2>7, <2>1 DEF Pending
  <2>10. QED
    BY <2>1, <2>5, <2>6, <2>8, <2>9, <1>m, <1>n
<1>5. CASE InitToken(t)
  <2>1. t.at = "init" /\ Finish(t) /\ UNCHANGED piUsers /\ t.op = "init"
    BY <1>5, <1>t DEF InitToken
  <2>2. CASE UNCHANGED <<owner, rollout, theirs>>
    BY <2>1, <2>2, <1>e, <1>k, <1>m
  <2>3. ASSUME NEW s \in Serials, rollout' = [rollout EXCEPT ![s] = "verify"], owner' = [owner EXCEPT ![s] = u], theirs' = theirs \union {s}
        PROVE  TokensFit(u)'
    <3>1. owner'[s] = u /\ rollout'[s] = "verify" /\ \A v \in Serials \ {s} : owner'[v] = owner[v] /\ rollout'[v] = rollout[v]
      BY <2>3, <1>o
    <3>2. ~Gone => \A v \in Serials : rollout[v] # "verify"
      BY <2>1, <1>m DEF Pending
    <3>3. ~Gone => OwnedBy(u)'
      BY <2>3, <3>1, <1>m DEF OwnedBy
    <3>4. ~Gone => OneToVerify'
      BY <2>3, <3>1, <3>2 DEF OneToVerify
    <3>5. QED
      BY <2>1, <3>3, <3>4, <1>m, <1>e
  <2>4. QED
    <3>1. u \notin piUsers => UNCHANGED <<owner, rollout, theirs>>
      BY <1>5, <1>m DEF InitToken
    <3>2. u \in piUsers => \E s \in Serials : rollout' = [rollout EXCEPT ![s] = "verify"] /\ owner' = [owner EXCEPT ![s] = u]
                                             /\ theirs' = theirs \union {s}
      BY <1>5, <1>m DEF InitToken
    <3>3. QED
      BY <3>1, <3>2, <2>2, <2>3
<1>6. CASE CheckSerial(t)
  <2>1. UNCHANGED <<piUsers, owner, rollout, theirs>> /\ (Finish(t) \/ Proceed(t, "give"))
    BY <1>6 DEF CheckSerial, stores
  <2>2. Finish(t) => TokensFit(u)'
    BY <2>1, <1>e, <1>k, <1>m
  <2>3. Proceed(t, "give") => TokensFit(u)'
    BY <2>1, <1>p, <1>m
  <2>4. QED
    BY <2>1, <2>2, <2>3
<1>7. CASE GiveToken(t)
  <2>1. t.at = "give" /\ UNCHANGED <<piUsers, rollout>> /\ t.op = "assign"
    BY <1>7, <1>t DEF GiveToken
  <2>2. CASE Finish(t) /\ UNCHANGED <<owner, theirs>>
    BY <2>1, <2>2, <1>e, <1>k, <1>m
  <2>3. ASSUME NEW s \in t.left, owner' = [owner EXCEPT ![s] = u], theirs' = theirs \union {s}, Finish(t) PROVE TokensFit(u)'
    <3>1. s \in Serials /\ owner'[s] = u /\ \A v \in Serials \ {s} : owner'[v] = owner[v]
      BY <2>3, <1>t, <1>o
    <3>2. ~Gone => OwnedBy(u)'
      BY <2>3, <3>1, <1>m DEF OwnedBy
    <3>3. ~Gone => OneToVerify'
      BY <2>1, <2>3, <1>m DEF OneToVerify
    <3>4. QED
      BY <2>1, <2>3, <3>2, <3>3, <1>m, <1>e
  <2>4. QED
    BY <1>7, <2>1, <2>2, <2>3, <1>m DEF GiveToken
<1>8. CASE ListTokens(t)
  <2>1. t.at = "list" /\ UNCHANGED <<piUsers, owner, rollout, theirs>> /\ t.op \in {"reset", "verify"}
    BY <1>8, <1>t DEF ListTokens, stores
  <2>2. ASSUME Finish(t) PROVE TokensFit(u)'
    BY <2>1, <2>2, <1>e, <1>k, <1>m
  <2>3. ASSUME NEW s \in TokensOf(u), NEW at, ProceedWith(t, at, {s}), at \in {"confirm", "take"}, t.op = "reset" => s \notin ToVerify(u)
        PROVE  TokensFit(u)'
    <3> DEFINE S == {s}
    <3>s. s \in S /\ \A x \in S : x = s
      OBVIOUS
    <3> HIDE DEF S
    <3>1. PICK n : n = [t EXCEPT !.at = at, !.serials = S, !.left = S]
      OBVIOUS
    <3>2. piTasks' = {n}
      BY <2>3, <3>1, <1>m DEF S, ProceedWith
    <3>3. n.op = t.op /\ n.at = at /\ n.user = u /\ n.new = u /\ n.left = S
      BY <3>1, <1>t, <1>m DEF TokenTasks
    <3>4. t.op = "reset" => rollout[s] # "verify"
      BY <2>3 DEF ToVerify
    <3>5. ~Gone => Pending(n)'
      BY <3>3, <3>4, <3>s, <2>1, <2>3 DEF Pending
    <3>6. QED
      BY <3>2, <3>3, <3>5, <2>1, <1>k, <1>m, <1>n
  <2>4. t.op = "verify" => Finish(t) \/ \E s \in ToVerify(u) : ProceedWith(t, "confirm", {s})
    BY <1>8, <1>m DEF ListTokens
  <2>5. t.op = "reset" => Finish(t) \/ \E s \in Enrolled(u) : ProceedWith(t, "take", {s})
    BY <1>8, <1>m DEF ListTokens
  <2>6. CASE t.op = "verify"
    BY <2>2, <2>3, <2>4, <2>6 DEF ToVerify
  <2>7. CASE t.op = "reset"
    BY <2>2, <2>3, <2>5, <2>7 DEF Enrolled
  <2>8. QED
    BY <2>1, <2>6, <2>7
<1>9. CASE TakeToken(t)
  <2>1. t.at = "take" /\ UNCHANGED <<piUsers, rollout>> /\ t.op = "reset"
    BY <1>9, <1>t DEF TakeToken
  <2>2. PICK s \in t.left : owner' = [owner EXCEPT ![s] = Nobody] /\ theirs' = theirs \ {s} /\ Finish(t)
    BY <1>9, <2>1 DEF TakeToken
  <2>3. s \in Serials /\ owner'[s] = Nobody /\ \A v \in Serials \ {s} : owner'[v] = owner[v]
    BY <2>2, <1>t, <1>o
  <2>4. ~Gone => OwnedBy(u)'
    BY <2>2, <2>3, <1>m, <1>t DEF OwnedBy
  <2>5. ~Gone => OneToVerify'
    BY <2>1, <2>2, <1>m DEF OneToVerify, Pending
  <2>6. QED
    BY <2>1, <2>2, <2>4, <2>5, <1>m, <1>e
<1>10. CASE ConfirmToken(t)
  <2>1. Finish(t) /\ UNCHANGED <<piUsers, owner, theirs>>
    BY <1>10 DEF ConfirmToken
  <2>2. \A s \in Serials : rollout'[s] = "verify" => rollout[s] = "verify"
    BY <1>10 DEF ConfirmToken
  <2>3. ~Gone => OwnedBy(u)' /\ OneToVerify'
    BY <2>1, <2>2, <1>m DEF OwnedBy, OneToVerify
  <2>4. QED
    BY <2>1, <2>3, <1>m, <1>e
<1>11. CASE FindTokensToReset(t) \/ DeleteUser(t)
  BY <1>11, <1>t DEF FindTokensToReset, DeleteUser
<1>12. QED
  BY <1>1, <1>2, <1>3, <1>4, <1>5, <1>6, <1>7, <1>8, <1>9, <1>10, <1>11 DEF TokenStep

(* The deletion of a user, whose person goes, adds none. *)
LEMMA DeletionFits ==
  ASSUME TokensTyped, NEW u \in Usernames, TokensFit(u), UNCHANGED <<present, req>>,
         NEW t \in piTasks, t.op = "delete", TokenStep(t)
  PROVE  TokensFit(u)'
<1>t. t \in TokenTasks /\ t.at \in {"tokens", "list", "take", "deleteUser"}
  <2>1. t \in TokenTasks
    BY DEF TokensTyped
  <2>2. QED
    BY <2>1, TaskSteps
<1>m. piTasks = {t} /\ piUsers \subseteq {u} /\ Gone
  BY DEF TokensFit, UnderName, Operating
<1>g. Gone'
  BY <1>m DEF Gone, At
<1>1. piUsers' \subseteq {u}
  BY <1>t, <1>m DEF TokenStep, CheckUserExists, AddUser, FindPending, DropPending, InitToken, CheckSerial, GiveToken, ListTokens,
                    TakeToken, ConfirmToken, FindTokensToReset, DeleteUser, stores
<1>n. ASSUME NEW n, piTasks' = {n}, n.op = "delete" PROVE TokensFit(u)'
  BY <1>n, <1>1, <1>g, OperationGoesOn DEF Operating
<1>e. Finish(t) => TokensFit(u)'
  BY <1>1, <1>g, <1>m, OperationEnds DEF Finish
<1>p. ASSUME NEW at, Proceed(t, at) PROVE TokensFit(u)'
  <2>1. [t EXCEPT !.at = at].op = "delete"
    BY <1>t DEF TokenTasks
  <2>2. PICK n : n = [t EXCEPT !.at = at]
    OBVIOUS
  <2>3. QED
    BY <2>1, <2>2, <1>p, <1>m, <1>n DEF Proceed
<1>w. ASSUME NEW at, NEW S, ProceedWith(t, at, S) PROVE TokensFit(u)'
  <2>1. [t EXCEPT !.at = at, !.serials = S, !.left = S].op = "delete"
    BY <1>t DEF TokenTasks
  <2>2. PICK n : n = [t EXCEPT !.at = at, !.serials = S, !.left = S]
    OBVIOUS
  <2>3. QED
    BY <2>1, <2>2, <1>w, <1>m, <1>n DEF ProceedWith
<1>2. CASE ListTokens(t)
  <2>1. Finish(t) \/ \E s \in Enrolled(t.user) : ProceedWith(t, "take", {s})
    BY <1>2 DEF ListTokens
  <2>2. ASSUME NEW s \in Enrolled(t.user), ProceedWith(t, "take", {s}) PROVE TokensFit(u)'
    <3> DEFINE S == {s}
    <3> HIDE DEF S
    <3>1. ProceedWith(t, "take", S) => TokensFit(u)'
      BY <1>w
    <3>2. QED
      BY <2>2, <3>1 DEF S
  <2>3. QED
    BY <2>1, <2>2, <1>e
<1>3. CASE TakeToken(t)
  BY <1>3, <1>p DEF TakeToken
<1>4. CASE FindTokensToReset(t)
  <2>1. Proceed(t, "deleteUser") \/ Proceed(t, "list")
    BY <1>4 DEF FindTokensToReset
  <2>2. QED
    BY <2>1, <1>p
<1>5. CASE DeleteUser(t)
  BY <1>5, <1>e DEF DeleteUser
<1>6. CASE CheckUserExists(t) \/ AddUser(t) \/ FindPending(t) \/ DropPending(t) \/ InitToken(t) \/ CheckSerial(t) \/ GiveToken(t) \/ ConfirmToken(t)
  BY <1>6, <1>t DEF CheckUserExists, AddUser, FindPending, DropPending, InitToken, CheckSerial, GiveToken, ConfirmToken
<1>7. QED
  BY <1>2, <1>3, <1>4, <1>5, <1>6 DEF TokenStep


-----------------------------------------------------------------------------
(* As long as PrivacyIDEA is as it was, it fits the same name. *)
LEMMA TokensFitKept ==
  ASSUME NEW u, TokensFit(u), UNCHANGED tokenVars, Gone => Gone'
  PROVE  TokensFit(u)'
<1>1. UnderName(u)'
  BY DEF TokensFit, UnderName, Operating, Moving, tokenVars
<1>2. ~Gone' => Owned(u)'
  BY DEF TokensFit, Owned, MovedRight, Pending, OwnedBy, OneToVerify, tokenVars
<1>3. QED
  BY <1>1, <1>2 DEF TokensFit

(* A request about tokens starts an operation under the name that was told. *)
LEMMA TokenRequestFits ==
  ASSUME RepTyped, TokensInv, observed = "privacyidea", TokenRequest, inOrder'
  PROVE  TokensInv'
<1>1. inOrder /\ piTasks = {} /\ ~Requested /\ present /\ UNCHANGED <<database, req, observed>>
  BY DEF TokenRequest
<1>2. PICK u \in Usernames : ToldName(u) /\ TokensFit(u)
  BY <1>1 DEF TokensInv
<1>3. u = name
  BY <1>1, <1>2 DEF ToldName, Requested, Idle
<1>4. ~Gone' /\ ~Gone /\ ToldName(u)'
  BY <1>1, <1>2 DEF Gone, Requested, At, Idle, ToldName, database
<1>5. PICK t : StartTokenTask(t) /\ t.op \in {"init", "assign", "reset", "verify"} /\ t.user = u /\ t.new = u /\ t.at \in {"exists", "list"}
  <2>1. \/ StartTokenTask(InitializeSoftwareToken(u)) \/ (\E s \in Hardware : StartTokenTask(AssignHardwareToken(u, s)))
        \/ StartTokenTask(ResetToken(u)) \/ StartTokenTask(VerifyTokenEnrollment(u))
    BY <1>3, Zenon DEF TokenRequest
  <2>2. CASE StartTokenTask(InitializeSoftwareToken(u))
    BY <2>2 DEF InitializeSoftwareToken, Task
  <2>3. ASSUME NEW s \in Hardware, StartTokenTask(AssignHardwareToken(u, s))
        PROVE  \E t : StartTokenTask(t) /\ t.op \in {"init", "assign", "reset", "verify"} /\ t.user = u /\ t.new = u /\ t.at \in {"exists", "list"}
    <3>1. PICK t : t = AssignHardwareToken(u, s)
      OBVIOUS
    <3>2. t.op = "assign" /\ t.user = u /\ t.new = u /\ t.at = "exists"
      BY <3>1 DEF AssignHardwareToken, Task
    <3>3. QED
      BY <2>3, <3>1, <3>2
  <2>4. CASE StartTokenTask(ResetToken(u))
    BY <2>4 DEF ResetToken, Task
  <2>5. CASE StartTokenTask(VerifyTokenEnrollment(u))
    BY <2>5 DEF VerifyTokenEnrollment, Task
  <2>6. QED
    BY <2>1, <2>2, <2>3, <2>4, <2>5
<1>6. piTasks' = {t} /\ UNCHANGED <<piUsers, owner, rollout, theirs>>
  BY <1>1, <1>5 DEF StartTokenTask, Shown
<1>7. piUsers \subseteq {u} /\ OwnedBy(u) /\ OneToVerify
  BY <1>1, <1>2, <1>4 DEF TokensFit, UnderName, Owned
<1>8. OwnedBy(u)' /\ OneToVerify' /\ Pending(t)'
  BY <1>5, <1>6, <1>7 DEF OwnedBy, OneToVerify, Pending
<1>9. TokensFit(u)'
  BY <1>5, <1>6, <1>7, <1>8, OperationGoesOn DEF Operating
<1>10. QED
  BY <1>4, <1>9 DEF TokensInv

(* A renaming is told: the tokens are now due to the new name. *)
LEMMA PublishRenamedFits ==
  ASSUME RepTyped, TokensInv, observed = "privacyidea", NEW c \in Clients, PublishRenamed(c), inOrder'
  PROVE  TokensInv'
<1>1. inOrder /\ piTasks = {} /\ EndRequest(c) /\ req[c].op = "rename" /\ UNCHANGED <<database, observed>>
      /\ StartTokenTask(UpdateUsername(req[c].old, req[c].name))
  BY DEF PublishRenamed, At
<1>2. PICK u \in Usernames : ToldName(u) /\ TokensFit(u)
  BY <1>1 DEF TokensInv
<1>3. PICK v \in Usernames : v = name
  BY DEF RepTyped, DatabaseTyped
<1>4. req[c].old = u /\ req[c].name = v /\ u # v /\ v \in used
  BY <1>1, <1>2, <1>3 DEF ToldName, RepTyped, DatabaseTyped
<1>5. req'[c] = Idle /\ \A d \in Clients \ {c} : req'[d] = req[d]
  BY <1>1, RequestGoesOn DEF RepTyped
<1>6. \A d \in Clients : req'[d].op # "rename"
  BY <1>1, <1>2, <1>5 DEF ToldName, Idle
<1>7. ToldName(v)'
  BY <1>1, <1>3, <1>4, <1>6 DEF ToldName, database
<1>8. PICK t : t = UpdateUsername(u, v)
  OBVIOUS
<1>9. t.op = "rename" /\ t.at = "exists" /\ t.user = u /\ t.new = v /\ t.serials = {} /\ t.left = {}
  BY <1>8 DEF UpdateUsername, Task
<1>10. piTasks' = {t} /\ UNCHANGED <<piUsers, owner, rollout, theirs>>
  BY <1>1, <1>4, <1>8 DEF StartTokenTask, Shown
<1>11. Gone' <=> Gone
  BY <1>1, <1>5 DEF Gone, At, database, Idle
<1>12. piUsers \subseteq {u} /\ (~Gone => OwnedBy(u) /\ OneToVerify)
  BY <1>1, <1>2 DEF TokensFit, UnderName, Owned
<1>13. Moving(t, v)'
  BY <1>4, <1>9, <1>10, <1>12 DEF Moving
<1>14. ~Gone => MovedRight(t, v)' /\ OneToVerify' /\ Pending(t)'
  BY <1>9, <1>10, <1>12 DEF MovedRight, OneToVerify, Pending, OwnedBy
<1>15. TokensFit(v)'
  BY <1>9, <1>10, <1>11, <1>13, <1>14, OperationGoesOn DEF Operating
<1>16. QED
  BY <1>7, <1>15 DEF TokensInv

(* A deletion starts one that may take all. *)
LEMMA PublishDeletedFits ==
  ASSUME RepTyped, TokensInv, observed = "privacyidea", NEW c \in Clients, PublishDeleted(c), inOrder'
  PROVE  TokensInv'
<1>1. inOrder /\ piTasks = {} /\ req[c].op = "delete" /\ UNCHANGED <<database, observed>>
      /\ StartTokenTask(PersonDeleted(req[c].name))
  BY DEF PublishDeleted, At
<1>2. PICK u \in Usernames : ToldName(u) /\ TokensFit(u)
  BY <1>1 DEF TokensInv
<1>3. PICK r : req' = [req EXCEPT ![c] = r] /\ r.op = "delete" /\ r.at = "remove"
  BY DeletionGoesOn DEF RepTyped
<1>4. req'[c] = r /\ \A d \in Clients \ {c} : req'[d] = req[d]
  BY <1>3, RequestGoesOn DEF RepTyped
<1>5. ToldName(u)' /\ Gone'
  BY <1>1, <1>2, <1>3, <1>4, ToldNameKept DEF RepTyped, database, Gone, At
<1>6. PICK t : t = PersonDeleted(req[c].name)
  OBVIOUS
<1>7. t.op = "delete"
  BY <1>6 DEF PersonDeleted, Task
<1>8. piTasks' = {t} /\ UNCHANGED piUsers
  BY <1>1, <1>6 DEF StartTokenTask, Shown
<1>9. piUsers \subseteq {u}
  BY <1>1, <1>2 DEF TokensFit, UnderName
<1>10. TokensFit(u)'
  BY <1>5, <1>7, <1>8, <1>9, OperationGoesOn DEF Operating
<1>11. QED
  BY <1>5, <1>10 DEF TokensInv

(* Each step keeps the invariant, ... *)
LEMMA TokensNext == RepTyped /\ Ordered /\ TokensInv /\ [ReplicasNext]_replicaVars => TokensInv'
<1> SUFFICES ASSUME RepTyped, Ordered, TokensInv, [ReplicasNext]_replicaVars, observed' = "privacyidea", inOrder' PROVE TokensInv'
  BY DEF TokensInv
<1>s. observed = "privacyidea" /\ OnlyShown /\ AloneSync
  BY OnlyShownNext DEF Ordered
<1>r. req \in [Clients -> Requests]
  BY DEF RepTyped
<1>1. CASE UNCHANGED replicaVars
  <2>1. inOrder /\ UNCHANGED <<database, req, tokenVars>>
    BY <1>1 DEF replicaVars, history
  <2>2. PICK u \in Usernames : ToldName(u) /\ TokensFit(u)
    BY <1>s, <2>1 DEF TokensInv
  <2>3. ToldName(u)' /\ (Gone => Gone')
    BY <2>1, <2>2 DEF ToldName, Gone, At, database
  <2>4. QED
    BY <2>1, <2>2, <2>3, TokensFitKept DEF TokensInv
<1>2. CASE ReplicasNext
  <2>o. inOrder
    BY <1>2, <1>s, OrderKept
  <2>u. PICK u \in Usernames : ToldName(u) /\ TokensFit(u)
    BY <1>s, <2>o DEF TokensInv
  <2>k. ASSUME UNCHANGED tokenVars, ToldName(u)', Gone => Gone' PROVE TokensInv'
    BY <2>k, <2>u, TokensFitKept DEF TokensInv
  <2>i. Idle.op = "none" /\ Idle.at = "idle"
    BY DEF Idle
  <2>1. ASSUME NEW c \in Clients, UpdateBegins(c) \/ MigrationBegins(c) \/ RenameBegins(c) \/ DeleteBegins(c) PROVE TokensInv'
    <3>1. PICK r : /\ Begin(c, r) /\ r # Idle /\ present /\ present' /\ r.name = name'
                /\ \/ /\ r.op = "update" /\ r.at = "read" /\ UNCHANGED <<name, used>>
                      /\ r.new = kontexte' \ kontexte /\ r.removed = kontexte \ kontexte'
                   \/ r.op = "migration" /\ r.kontext \notin kontexte /\ UNCHANGED <<name, used, kontexte>> /\ observed = "ldap"
                   \/ /\ r.op = "rename" /\ r.old = name /\ name' \notin used /\ used' = used \union {name'}
                      /\ UNCHANGED kontexte
                   \/ r.op = "delete" /\ r.at = "publish" /\ UNCHANGED <<name, used, kontexte>>
      BY <2>1, RequestBegins
    <3>2. req' = [req EXCEPT ![c] = r] /\ req[c] = Idle /\ UNCHANGED tokenVars
      BY <3>1 DEF Begin
    <3>3. req'[c] = r /\ \A d \in Clients \ {c} : req'[d] = req[d]
      BY <3>2, <1>r, RequestGoesOn
    <3>4. Gone => Gone'
      BY <3>1, <3>2, <3>3, <2>i DEF Gone, At
    <3>5. ToldName(u)'
      <4>1. CASE r.op # "rename"
        BY <4>1, <3>1, <3>2, <3>3, <2>i, <2>u, <1>r, ToldNameKept
      <4>2. CASE r.op = "rename"
        <5>1. \A d \in Clients : req[d].op # "rename"
          BY <3>1, <4>2, <1>s DEF Begin
        <5>2. u = name /\ name \in used
          BY <5>1, <2>u DEF ToldName
        <5>3. \A d \in Clients : req'[d].op = "rename" => d = c
          BY <3>3, <5>1
        <5>4. QED
          BY <3>1, <3>3, <4>2, <5>2, <5>3 DEF ToldName
      <4>3. QED
        BY <4>1, <4>2
    <3>6. QED
      BY <3>2, <3>4, <3>5, <2>k
  <2>3. ASSUME NEW c \in Clients, NEW r, req' = [req EXCEPT ![c] = r], UNCHANGED <<name, used, tokenVars>>,
               req[c].op # "rename", r.op # "rename", present' => present /\ ~At(c, "delete", "remove")
        PROVE TokensInv'
    <3>1. req'[c] = r /\ \A d \in Clients \ {c} : req'[d] = req[d]
      BY <2>3, <1>r, RequestGoesOn
    <3>2. ToldName(u)'
      BY <2>3, <3>1, <2>u, <1>r, ToldNameKept
    <3>3. Gone => Gone'
      BY <2>3, <3>1 DEF Gone, At
    <3>4. QED
      BY <2>3, <3>2, <3>3, <2>k
  <2>4. ASSUME NEW c \in Clients, UpdateReads(c) \/ UpdateLoadsPerson(c) PROVE TokensInv'
    <3>1. req[c].op = "update" /\ UNCHANGED <<present, name, used, tokenVars>>
      BY <2>4 DEF UpdateReads, UpdateLoadsPerson, At, database
    <3>2. \E r : req' = [req EXCEPT ![c] = r] /\ r.op # "rename"
      <4>1. CASE UpdateReads(c) \/ (UpdateLoadsPerson(c) /\ present)
        <5>1. PICK r : req' = [req EXCEPT ![c] = r] /\ r.op = "update"
          BY <4>1, <1>r, UpdateGoesOn
        <5>2. QED
          BY <5>1
      <4>2. CASE UpdateLoadsPerson(c) /\ ~present
        BY <4>2, <2>i DEF UpdateLoadsPerson, EndRequest
      <4>3. QED
        BY <2>4, <4>1, <4>2
    <3>3. PICK r : req' = [req EXCEPT ![c] = r] /\ r.op # "rename"
      BY <3>2
    <3>4. ~At(c, "delete", "remove")
      BY <3>1 DEF At
    <3>5. QED
      BY <3>1, <3>3, <3>4, <2>3
  <2>5. ASSUME NEW c \in Clients, PublishKontextUpdated(c) \/ MigrationSaves(c) \/ RemovePerson(c) PROVE TokensInv'
    <3>1. req[c].op \in {"update", "migration", "delete"} /\ UNCHANGED <<name, used, tokenVars>> /\ req' = [req EXCEPT ![c] = Idle]
      BY <2>5 DEF PublishKontextUpdated, MigrationSaves, RemovePerson, At, database, EndRequest
    <3>2. present' => present /\ ~At(c, "delete", "remove")
      BY <2>5 DEF PublishKontextUpdated, MigrationSaves, RemovePerson, At, database
    <3>3. PICK r : r = Idle
      OBVIOUS
    <3>4. QED
      BY <3>1, <3>2, <3>3, <2>i, <2>3
  <2>6. ASSUME NEW c \in Clients, PublishOxUserChanged(c) \/ SyncBegins(c) PROVE TokensInv'
    BY <2>6, <1>s DEF PublishOxUserChanged, SyncBegins
  <2>7. ASSUME StepGroups \/ ServeQueue \/ StepSync \/ StepLdap PROVE TokensInv'
    <3>1. UNCHANGED <<database, req, tokenVars>>
      BY <2>7 DEF StepGroups, ServeQueue, StepSync, StepLdap
    <3>2. ToldName(u)' /\ (Gone => Gone')
      BY <3>1, <2>u DEF ToldName, Gone, At, database
    <3>3. QED
      BY <3>1, <3>2, <2>k
  <2>8. ASSUME StepTokens PROVE TokensInv'
    <3>1. UNCHANGED <<database, req>>
      BY <2>8 DEF StepTokens
    <3>2. PICK t \in piTasks : TokenStep(t)
      BY <2>8 DEF StepTokens
    <3>3. TokensTyped
      BY DEF RepTyped
    <3>4. t.op \in {"init", "assign", "reset", "verify", "rename", "delete"}
      BY <3>3, TaskSteps DEF TokensTyped
    <3>5. UNCHANGED <<present, req, name, used>>
      BY <3>1 DEF database
    <3>6. TokensFit(u)'
      BY <3>2, <3>3, <3>4, <3>5, <2>u, RenamingFits, OperationFits, DeletionFits
    <3>7. ToldName(u)'
      BY <3>5, <2>u DEF ToldName
    <3>8. QED
      BY <3>6, <3>7 DEF TokensInv
  <2>9. QED
    BY <1>2, <1>s, <2>1, <2>4, <2>5, <2>6, <2>7, <2>8, TokenRequestFits, PublishRenamedFits, PublishDeletedFits DEF ReplicasNext
<1>3. QED
  BY <1>1, <1>2

(* ... which holds at first, ... *)
LEMMA TokensInit == ReplicasInit => TokensInv
<1> SUFFICES ASSUME ReplicasInit PROVE TokensInv
  OBVIOUS
<1>1. PICK start \in Starts, u \in Usernames :
       /\ name = u /\ used = {u}
       /\ rollout = start.rollout /\ theirs = start.theirs
       /\ owner = [s \in Serials |-> IF s \in start.theirs THEN u ELSE Nobody]
       /\ piUsers = IF start.theirs = {} THEN {} ELSE {u}
  BY Zenon DEF ReplicasInit
<1>2. piTasks = {} /\ \A c \in Clients : req[c].op = "none"
  BY DEF ReplicasInit, Idle
<1>3. u # Nobody
  BY ReplicasAssumption
<1>4. ToldName(u)
  BY <1>1, <1>2 DEF ToldName
<1>5. UnderName(u)
  BY <1>1, <1>2 DEF UnderName
<1>6. OneToVerify
  <2>1. \A s \in Serials : start.rollout[s] = "verify" => s \in start.theirs
    BY StartsAssumption
  <2>2. \A s, v \in start.theirs : start.rollout[s] = "verify" /\ start.rollout[v] = "verify" => s = v
    BY StartsAssumption
  <2>3. QED
    BY <1>1, <2>1, <2>2 DEF OneToVerify
<1>7. Owned(u)
  BY <1>1, <1>2, <1>3, <1>6 DEF Owned, OwnedBy
<1>8. QED
  BY <1>4, <1>5, <1>7 DEF TokensInv, TokensFit

(* Once nothing is requested and nothing goes on. *)
LEMMA TokensMean == RepTyped /\ TokensInv => TokensFollowName
<1> SUFFICES ASSUME RepTyped, TokensInv, observed = "privacyidea", inOrder, ~Requested, piTasks = {}
             PROVE  /\ present => TokensOf(name) = theirs /\ Cardinality(ToVerify(name)) <= 1
                    /\ \A u \in used \ {name} : u \notin piUsers
  BY DEF TokensFollowName
<1>1. PICK u \in Usernames : ToldName(u) /\ TokensFit(u)
  BY DEF TokensInv
<1>2. u = name
  BY <1>1 DEF ToldName, Requested, Idle
<1>3. piUsers \subseteq {name}
  BY <1>1, <1>2 DEF TokensFit, UnderName
<1>4. ASSUME present PROVE TokensOf(name) = theirs /\ Cardinality(ToVerify(name)) <= 1
  <2>1. ~Gone
    BY <1>4 DEF Gone, Requested, At, Idle
  <2>2. OwnedBy(name) /\ OneToVerify
    BY <1>1, <1>2, <2>1 DEF TokensFit, Owned
  <2>3. TokensOf(name) = theirs
    <3>1. theirs = {s \in Serials : owner[s] = name}
      BY <2>2 DEF OwnedBy, RepTyped, TokensTyped, TokensTypeOK
    <3>2. name \notin piUsers => theirs = {}
      BY <3>1, <1>2, OwnersThere, ReplicasAssumption DEF RepTyped
    <3>3. QED
      BY <3>1, <3>2 DEF TokensOf
  <2>4. Cardinality(ToVerify(name)) <= 1
    <3>1. ToVerify(name) = {} \/ \E s : ToVerify(name) = {s}
      BY <2>2, <2>3 DEF ToVerify, OneToVerify, RepTyped, TokensTyped, TokensTypeOK
    <3>2. PICK V : V = ToVerify(name)
      OBVIOUS
    <3>3. CASE V = {}
      <4>1. Cardinality(V) = 0
        BY <3>3, FS_EmptySet
      <4>2. QED
        BY <3>2, <4>1
    <3>4. ASSUME NEW s, V = {s} PROVE Cardinality(ToVerify(name)) <= 1
      <4>1. Cardinality({s}) = 1
        BY FS_Singleton
      <4>2. QED
        BY <3>2, <3>4, <4>1
    <3>5. QED
      BY <3>1, <3>2, <3>3, <3>4
  <2>5. QED
    BY <2>3, <2>4
<1>5. QED
  BY <1>3, <1>4

(* ... and so always. *)
LEMMA TokensAlways == ReplicasSpec => [](RepTyped /\ Ordered /\ TokensInv)
BY ReplicasInitTyped, ReplicasNextTyped, OrderedInit, OrderedNext, TokensInit, TokensNext, PTL DEF ReplicasSpec

(* A person's tokens follow the name, none is lost and none is the user's    *)
(* that the person was not given, in whatever order operations and requests  *)
(* go on that do not fail and do not overlap an event's.                     *)
THEOREM TokensFollow == ReplicasSpec => []TokensFollowName
BY TokensAlways, TokensMean, PTL

-----------------------------------------------------------------------------
(* Keycloak groups                                                         *)

(* Updates bring a user into the groups D and out of all others; whatever   *)
(* is not as it is to be is some update's.                                  *)
Converging(D) ==
  /\ \A u \in updates : \A g \in u.names : u.remove <=> g \notin D
  /\ \A g \in Groups : (g \in groups <=> g \in D) \/ \E u \in updates : g \in u.names

(* The updates bring the user into the groups of the Kontexte that were told. *)
KeycloakInv ==
  observed = "keycloak" /\ inOrder =>
    \E T \in SUBSET Slots : ToldKontexte(T) /\ (present => Converging(ServiceProviderGroups(RollenOf(T))))

-----------------------------------------------------------------------------
(* Updates in progress keep going for the same groups. *)
LEMMA UpdatesConverge ==
  ASSUME GroupsTypeOK, NEW D, Converging(D), NEW u \in updates, ListGroups(u) \/ ModifyGroup(u)
  PROVE  Converging(D)'
<1>t. u \in Update /\ u.names \subseteq Groups
  BY DEF GroupsTypeOK, Update
<1>1. CASE ListGroups(u)
  <2>1. PICK todo : todo = IF u.remove THEN u.names \intersect groups ELSE u.names \ groups
    OBVIOUS
  <2>2. PICK n : n = [u EXCEPT !.at = "modify", !.names = todo]
    OBVIOUS
  <2>3. n.names = todo /\ n.remove = u.remove
    BY <2>2, <1>t DEF Update
  <2>4. groups' = groups /\ updates' = (updates \ {u}) \union (IF todo = {} THEN {} ELSE {n})
    BY <1>1, <2>1, <2>2 DEF ListGroups
  <2>5. \A v \in updates' : \A g \in v.names : v.remove <=> g \notin D
    BY <2>1, <2>3, <2>4 DEF Converging
  <2>6. ASSUME NEW g \in Groups, ~(g \in groups' <=> g \in D) PROVE \E v \in updates' : g \in v.names
    <3>1. PICK v \in updates : g \in v.names
      BY <2>4, <2>6 DEF Converging
    <3>2. CASE v # u
      BY <3>1, <3>2, <2>4
    <3>3. CASE v = u
      <4>1. u.remove <=> g \notin D
        BY <3>1, <3>3 DEF Converging
      <4>2. g \in todo
        BY <4>1, <3>1, <3>3, <2>1, <2>4, <2>6
      <4>3. QED
        BY <4>2, <2>3, <2>4
    <3>4. QED
      BY <3>2, <3>3
  <2>7. QED
    BY <2>5, <2>6 DEF Converging
<1>2. CASE ModifyGroup(u)
  <2>1. PICK g \in u.names :
          /\ groups' = IF u.remove THEN groups \ {g} ELSE groups \union {g}
          /\ updates' = (updates \ {u}) \union (IF u.names = {g} THEN {} ELSE {[u EXCEPT !.names = @ \ {g}]})
    BY <1>2 DEF ModifyGroup
  <2>2. PICK rest : rest = u.names \ {g}
    OBVIOUS
  <2>3. PICK n : n = [u EXCEPT !.names = rest]
    OBVIOUS
  <2>4. n.names = rest /\ n.remove = u.remove
    BY <2>3, <1>t DEF Update
  <2>5. updates' = (updates \ {u}) \union (IF rest = {} THEN {} ELSE {n})
    <3>1. [u EXCEPT !.names = @ \ {g}] = n
      BY <2>2, <2>3
    <3>2. u.names = {g} <=> rest = {}
      BY <2>1, <2>2
    <3>3. QED
      BY <2>1, <3>1, <3>2
  <2>6. g \in groups' <=> g \in D
    BY <2>1 DEF Converging
  <2>7. \A h \in Groups \ {g} : h \in groups' <=> h \in groups
    BY <2>1
  <2>8. \A v \in updates' : \A h \in v.names : v.remove <=> h \notin D
    BY <2>2, <2>4, <2>5 DEF Converging
  <2>9. ASSUME NEW h \in Groups, ~(h \in groups' <=> h \in D) PROVE \E v \in updates' : h \in v.names
    <3>1. h # g /\ ~(h \in groups <=> h \in D)
      BY <2>6, <2>7, <2>9
    <3>2. PICK v \in updates : h \in v.names
      BY <3>1 DEF Converging
    <3>3. CASE v # u
      BY <3>2, <3>3, <2>5
    <3>4. CASE v = u
      BY <3>1, <3>2, <3>4, <2>2, <2>4, <2>5
    <3>5. QED
      BY <3>3, <3>4
  <2>10. QED
    BY <2>8, <2>9 DEF Converging
<1>3. QED
  BY <1>1, <1>2

(* The updates of an event bring from the groups before to those after, if  *)
(* no new Rolle shares a group with one that goes.                          *)
LEMMA UpdatesOfEvent ==
  ASSUME NEW new \in SUBSET Slots, NEW removed \in SUBSET Slots, NEW ks \in SUBSET Slots, NEW T, NEW e,
         new \subseteq ks, T = (ks \ new) \union removed,
         \A x \in RollenOf(new), y \in RollenOf(removed) \ RollenOf(new) : KeycloakGroup[x] \intersect KeycloakGroup[y] = {}
  PROVE  LET U == UpdatesOf(e, RollenOf(new), RollenOf(removed), RollenOf(ks))
             D == ServiceProviderGroups(RollenOf(ks))
         IN /\ \A u \in U : \A g \in u.names : u.remove <=> g \notin D
            /\ \A g \in Groups : (g \in ServiceProviderGroups(RollenOf(T)) <=> g \in D) \/ \E u \in U : g \in u.names
<1> DEFINE RN == RollenOf(new)
           RR == RollenOf(removed)
           RK == RollenOf(ks)
           kept == RK \ RN
           Names(r) == KeycloakGroup[r] \ ServiceProviderGroups(kept)
           One(r, remove) == [event |-> e, rolle |-> r, remove |-> remove, at |-> "list", names |-> Names(r)]
           D == ServiceProviderGroups(RK)
           U == UpdatesOf(e, RN, RR, RK)
<1>1. U = {u \in (IF RK = {} THEN {} ELSE {One(r, FALSE) : r \in RN \ RR}) \union {One(r, TRUE) : r \in RR \ RN} : u.names # {}}
  BY DEF UpdatesOf, FilteredDifference
<1>2. RN \subseteq RK
  BY DEF RollenOf
<1>3. \A g : g \in D <=> \E r \in RK : g \in KeycloakGroup[r]
  BY DEF ServiceProviderGroups
<1>4. \A g : g \in ServiceProviderGroups(RollenOf(T)) <=> \E r \in RollenOf(T) : g \in KeycloakGroup[r]
  BY DEF ServiceProviderGroups
<1>5. \A r, g : g \in Names(r) <=> g \in KeycloakGroup[r] /\ \A x \in kept : g \notin KeycloakGroup[x]
  BY DEF ServiceProviderGroups
<1>6. RollenOf(T) = RollenOf(ks \ new) \union RR
  BY DEF RollenOf
<1>7. kept \subseteq RollenOf(ks \ new) /\ RollenOf(ks \ new) \subseteq RK /\ RK = RollenOf(ks \ new) \union RN
  BY DEF RollenOf
<1>8. \A r, b : One(r, b).names = Names(r) /\ One(r, b).remove = b
  OBVIOUS
<1>9. \A x \in RN, y \in RR \ RN : KeycloakGroup[x] \intersect KeycloakGroup[y] = {}
  OBVIOUS
<1>10. ASSUME NEW u \in U, NEW g \in u.names PROVE u.remove <=> g \notin D
  <2>1. CASE \E r \in RN \ RR : u = One(r, FALSE)
    <3>1. PICK r \in RN \ RR : u = One(r, FALSE)
      BY <2>1
    <3>2. g \in Names(r) /\ ~u.remove /\ r \in RK
      BY <3>1, <1>2, <1>8, <1>10
    <3>3. g \in D
      BY <3>2, <1>3, <1>5
    <3>4. QED
      BY <3>2, <3>3
  <2>2. CASE \E r \in RR \ RN : u = One(r, TRUE)
    <3>1. PICK r \in RR \ RN : u = One(r, TRUE)
      BY <2>2
    <3>2. g \in Names(r) /\ u.remove
      BY <3>1, <1>8, <1>10
    <3>3. \A x \in RN : g \notin KeycloakGroup[x]
      BY <3>1, <3>2, <1>5, <1>9
    <3>4. \A x \in kept : g \notin KeycloakGroup[x]
      BY <3>2, <1>5
    <3>5. g \notin D
      BY <3>3, <3>4, <1>3
    <3>6. QED
      BY <3>2, <3>5
  <2>3. QED
    <3>1. u \in {One(r, FALSE) : r \in RN \ RR} \/ u \in {One(r, TRUE) : r \in RR \ RN}
      BY <1>1, <1>10
    <3>2. QED
      BY <3>1, <2>1, <2>2
<1>11. ASSUME NEW g \in Groups, ~(g \in ServiceProviderGroups(RollenOf(T)) <=> g \in D) PROVE \E u \in U : g \in u.names
  <2>1. CASE g \in D
    <3>1. PICK r \in RK : g \in KeycloakGroup[r]
      BY <2>1, <1>3
    <3>2. \A x \in RollenOf(ks \ new) \union RR : g \notin KeycloakGroup[x]
      BY <2>1, <1>4, <1>6, <1>11
    <3>3. r \in RN \ RR
      BY <3>1, <3>2, <1>7
    <3>4. g \in Names(r)
      BY <3>1, <3>2, <1>5, <1>7
    <3>5. One(r, FALSE) \in U
      <4>1. One(r, FALSE) \in {One(x, FALSE) : x \in RN \ RR}
        BY <3>3
      <4>2. RK # {} /\ One(r, FALSE).names # {}
        BY <3>1, <3>4, <1>8
      <4>3. QED
        BY <4>1, <4>2, <1>1
    <3>6. QED
      BY <3>4, <3>5, <1>8
  <2>2. CASE g \notin D
    <3>1. PICK r \in RollenOf(ks \ new) \union RR : g \in KeycloakGroup[r]
      BY <2>2, <1>4, <1>6, <1>11
    <3>2. r \in RR \ RN
      BY <3>1, <2>2, <1>3, <1>7
    <3>3. g \in Names(r)
      BY <3>1, <2>2, <1>3, <1>5, <1>7
    <3>4. One(r, TRUE) \in U
      <4>1. One(r, TRUE) \in {One(x, TRUE) : x \in RR \ RN}
        BY <3>2
      <4>2. One(r, TRUE).names # {}
        BY <3>3, <1>8
      <4>3. QED
        BY <4>1, <4>2, <1>1
    <3>5. QED
      BY <3>3, <3>4, <1>8
  <2>3. QED
    BY <2>1, <2>2
<1>12. QED
  BY <1>10, <1>11

-----------------------------------------------------------------------------

(* What does not touch the groups keeps it. *)
LEMMA ConvergingKept == ASSUME NEW D, Converging(D), UNCHANGED groupVars PROVE Converging(D)'
BY DEF Converging, groupVars

(* An event is published when nothing is left of the one before. *)
LEMMA PublishConverges ==
  ASSUME RepTyped, Ordered, KeycloakInv, observed = "keycloak", NEW c \in Clients, PublishKontextUpdated(c), inOrder', RepTyped'
  PROVE  KeycloakInv'
<1>1. inOrder /\ updates = {} /\ ~Shared(req[c]) /\ req[c].op = "update" /\ req[c].at = "publish"
      /\ UNCHANGED <<database, groups>>
  BY DEF PublishKontextUpdated, At
<1>2. PICK T \in SUBSET Slots : ToldKontexte(T) /\ (present => Converging(ServiceProviderGroups(RollenOf(T))))
  BY <1>1 DEF KeycloakInv
<1>3. PICK r : r = req[c]
  OBVIOUS
<1>4. Fresh(r) /\ r \in Requests
  BY <1>1, <1>3 DEF Ordered, OneRequest, RepTyped
<1>5. r.current = kontexte /\ r.new \subseteq kontexte /\ r.new \in SUBSET Slots /\ r.removed \in SUBSET Slots /\ present
  <2>1. r.new \in SUBSET Slots /\ r.removed \in SUBSET Slots
    BY <1>1, <1>3, <1>4, RequestKinds
  <2>2. QED
    BY <2>1, <1>1, <1>3, <1>4 DEF Fresh, Idle
<1>6. T = (kontexte \ r.new) \union r.removed
  BY <1>1, <1>2, <1>3 DEF ToldKontexte
<1>7. PICK ks \in SUBSET Slots : ks = kontexte
  BY DEF RepTyped, DatabaseTyped
<1>8. PICK e : e = published
  OBVIOUS
<1>9. \A x \in RollenOf(r.new), y \in RollenOf(r.removed) \ RollenOf(r.new) : KeycloakGroup[x] \intersect KeycloakGroup[y] = {}
  BY <1>1, <1>3 DEF Shared
<1>10. PICK U : U = UpdatesOf(e, RollenOf(r.new), RollenOf(r.removed), RollenOf(ks))
  OBVIOUS
<1>11. PICK D : D = ServiceProviderGroups(RollenOf(ks))
  OBVIOUS
<1>12. /\ \A u \in U : \A g \in u.names : u.remove <=> g \notin D
       /\ \A g \in Groups : (g \in ServiceProviderGroups(RollenOf(T)) <=> g \in D) \/ \E u \in U : g \in u.names
  BY <1>5, <1>6, <1>7, <1>9, <1>10, <1>11, UpdatesOfEvent
<1>13. updates' = U
  BY <1>1, <1>3, <1>5, <1>7, <1>8, <1>10 DEF PublishKontextUpdated, Shown
<1>14. \A g \in Groups : g \in groups <=> g \in ServiceProviderGroups(RollenOf(T))
  BY <1>1, <1>2, <1>5 DEF Converging
<1>15. Converging(D)'
  BY <1>1, <1>12, <1>13, <1>14 DEF Converging
<1>16. ks = kontexte'
  BY <1>1, <1>7 DEF database
<1>17. ToldKontexte(ks)'
  BY <1>1, <1>16, ToldNow
<1>18. QED
  BY <1>11, <1>15, <1>17 DEF KeycloakInv

(* Each step keeps the invariant, ... *)
LEMMA KeycloakNext == RepTyped /\ Ordered /\ KeycloakInv /\ [ReplicasNext]_replicaVars => KeycloakInv'
<1> SUFFICES ASSUME RepTyped, Ordered, KeycloakInv, [ReplicasNext]_replicaVars, observed' = "keycloak", inOrder' PROVE KeycloakInv'
  BY DEF KeycloakInv
<1>s. observed = "keycloak" /\ OnlyShown /\ AloneSync /\ RepTyped'
  BY OnlyShownNext, ReplicasNextTyped DEF Ordered
<1>1. CASE UNCHANGED replicaVars
  <2>1. inOrder /\ UNCHANGED <<database, req, groupVars>>
    BY <1>1 DEF replicaVars, history
  <2>2. PICK T \in SUBSET Slots : ToldKontexte(T) /\ (present => Converging(ServiceProviderGroups(RollenOf(T))))
    BY <1>s, <2>1 DEF KeycloakInv
  <2>3. ToldKontexte(T)' /\ present' = present
    BY <2>1, <2>2 DEF ToldKontexte, database
  <2>4. QED
    BY <2>1, <2>2, <2>3, ConvergingKept DEF KeycloakInv
<1>2. CASE ReplicasNext
  <2>o. inOrder
    BY <1>2, <1>s, OrderKept
  <2>t. PICK T \in SUBSET Slots : ToldKontexte(T) /\ (present => Converging(ServiceProviderGroups(RollenOf(T))))
    BY <1>s, <2>o DEF KeycloakInv
  <2>1. ASSUME NEW c \in Clients, MigrationSaves(c) PROVE KeycloakInv'
    BY <2>1, <1>s DEF MigrationSaves, At, OnlyShown
  <2>2. ASSUME NEW c \in Clients, RemovePerson(c) PROVE KeycloakInv'
    <3>1. PICK K : K = kontexte'
      OBVIOUS
    <3>2. ToldKontexte(K)' /\ K \in SUBSET Slots /\ ~present'
      BY <2>2, <2>o, <1>s, <3>1, ToldNow DEF RemovePerson, ToldKontexte
    <3>3. QED
      BY <3>2 DEF KeycloakInv
  <2>3. ASSUME \A c \in Clients : ~PublishKontextUpdated(c) /\ ~MigrationSaves(c) /\ ~RemovePerson(c) PROVE KeycloakInv'
    <3>1. ToldKontexte(T)'
      BY <1>2, <1>s, <2>o, <2>t, <2>3, ToldKept
    <3>2. present' => present
      <4>1. \A c \in Clients : UpdateBegins(c) \/ MigrationBegins(c) \/ RenameBegins(c) \/ DeleteBegins(c) => present
        BY RequestBegins
      <4>2. \A c \in Clients : UpdateReads(c) \/ UpdateLoadsPerson(c) \/ PublishRenamed(c) \/ PublishDeleted(c)
                               \/ PublishOxUserChanged(c) \/ SyncBegins(c) => UNCHANGED present
        BY DEF UpdateReads, UpdateLoadsPerson, PublishRenamed, PublishDeleted, PublishOxUserChanged, SyncBegins, database
      <4>3. TokenRequest \/ StepGroups \/ ServeQueue \/ StepSync \/ StepTokens \/ StepLdap => UNCHANGED present
        BY DEF TokenRequest, StepGroups, ServeQueue, StepSync, StepTokens, StepLdap, database
      <4>4. QED
        BY <1>2, <2>3, <4>1, <4>2, <4>3 DEF ReplicasNext
    <3>3. CASE StepGroups
      <4>1. PICK u \in updates : ListGroups(u) \/ ModifyGroup(u)
        BY <3>3 DEF StepGroups
      <4>2. PICK D : D = ServiceProviderGroups(RollenOf(T))
        OBVIOUS
      <4>3. present => Converging(D)'
        BY <2>t, <4>1, <4>2, UpdatesConverge DEF RepTyped
      <4>4. QED
        BY <3>1, <3>2, <4>2, <4>3 DEF KeycloakInv
    <3>4. CASE ~StepGroups
      <4>1. UNCHANGED groupVars
        <5>1. \A c \in Clients : UpdateBegins(c) \/ MigrationBegins(c) \/ RenameBegins(c) \/ DeleteBegins(c) => UNCHANGED groupVars
          BY RequestBegins DEF Begin
        <5>2. \A c \in Clients : UpdateReads(c) \/ UpdateLoadsPerson(c) \/ PublishRenamed(c) \/ PublishDeleted(c)
                                 \/ PublishOxUserChanged(c) \/ SyncBegins(c) => UNCHANGED groupVars
          BY DEF UpdateReads, UpdateLoadsPerson, PublishRenamed, PublishDeleted, PublishOxUserChanged, SyncBegins
        <5>3. TokenRequest \/ ServeQueue \/ StepSync \/ StepTokens \/ StepLdap => UNCHANGED groupVars
          BY DEF TokenRequest, ServeQueue, StepSync, StepTokens, StepLdap
        <5>4. QED
          BY <1>2, <2>3, <3>4, <5>1, <5>2, <5>3 DEF ReplicasNext
      <4>2. QED
        BY <2>t, <3>1, <3>2, <4>1, ConvergingKept DEF KeycloakInv
    <3>5. QED
      BY <3>3, <3>4
  <2>4. QED
    BY <1>s, <2>1, <2>2, <2>3, PublishConverges
<1>3. QED
  BY <1>1, <1>2

(* ... which holds at first, ... *)
LEMMA KeycloakInit == ReplicasInit => KeycloakInv
<1> SUFFICES ASSUME ReplicasInit PROVE KeycloakInv
  OBVIOUS
<1>1. PICK start \in Starts : kontexte = start.kontexte /\ groups = ServiceProviderGroups(RollenOf(start.kontexte))
  BY DEF ReplicasInit
<1>2. updates = {} /\ \A c \in Clients : req[c].op = "none"
  BY DEF ReplicasInit, Idle
<1>3. start.kontexte \in SUBSET Slots
  BY StartsAssumption
<1>4. ToldKontexte(start.kontexte) /\ Converging(ServiceProviderGroups(RollenOf(start.kontexte)))
  BY <1>1, <1>2, <1>3 DEF ToldKontexte, Converging
<1>5. QED
  BY <1>3, <1>4 DEF KeycloakInv

(* ... and means that the groups are right when nothing is in progress. *)
LEMMA KeycloakMeans == RepTyped /\ KeycloakInv /\ inOrder /\ ~Requested => KeycloakFollows
<1> SUFFICES ASSUME RepTyped, KeycloakInv, inOrder, ~Requested, observed = "keycloak", present, updates = {}
             PROVE  groups = ServiceProviderGroups(RollenOf(kontexte))
  BY DEF KeycloakFollows
<1>1. PICK T \in SUBSET Slots : ToldKontexte(T) /\ Converging(ServiceProviderGroups(RollenOf(T)))
  BY DEF KeycloakInv
<1>2. T = kontexte
  BY <1>1 DEF ToldKontexte, Requested, Idle
<1>3. PICK D : D = ServiceProviderGroups(RollenOf(kontexte))
  OBVIOUS
<1>4. D \subseteq Groups
  <2>1. \A k \in kontexte : k.rolle \in Rollen
    BY ReplicasAssumption DEF RepTyped, DatabaseTyped
  <2>2. QED
    BY <2>1, <1>3, GroupsAssumption DEF ServiceProviderGroups, RollenOf
<1>5. groups \subseteq Groups /\ \A g \in Groups : g \in groups <=> g \in D
  BY <1>1, <1>2, <1>3 DEF Converging, RepTyped, GroupsTypeOK
<1>6. QED
  BY <1>3, <1>4, <1>5

-----------------------------------------------------------------------------
(* LDAP                                                                    *)

DueAt(T) == IF Gone THEN {} ELSE LehrerAt(T)

(* Handlers in progress serve the name l that LDAP has, or rename it to u. *)
TasksFor(l, u, D) ==
  /\ \A t \in ldapTasks : t.op = "renamed" => ldapTasks = {t} /\ t.old = l /\ t.name = u /\ l # u /\ ~Gone
  /\ (\A t \in ldapTasks : t.op # "renamed") => l = u
  /\ \A t \in ldapTasks : t.op = "kontexte" => t.name = l /\ t.remove \intersect D = {} /\ t.create \subseteq D
  /\ \A t \in ldapTasks : t.op = "migration" => t.name = l /\ t.at \in D
  /\ \A t \in ldapTasks : t.op = "deleted" => t.name = l /\ Gone

(* A handler is going to put the person into the group of s, ... *)
Joining(s) == \E t \in ldapTasks : (t.op = "kontexte" /\ s \in t.create) \/ (t.op = "migration" /\ t.at = s)

(* ... or out of it. *)
Leaving(s) == \E t \in ldapTasks : t.op = "kontexte" /\ s \in t.remove

(* The entry of l, and the groups it is in or is going to be in. *)
EntryOf(l, D) ==
  /\ entries \subseteq {l} /\ \A s \in Kennungen : members[s] \subseteq {l}
  /\ \A s \in D \ leftOut : s \in GroupsOf(l) \/ Joining(s)
  /\ \A s \in GroupsOf(l) : s \in D \union lingering \/ Leaving(s)
  /\ ~Gone /\ GroupsOf(l) # {} => l \in entries
  /\ Gone /\ l \in entries => \E t \in ldapTasks : t.op = "deleted"

(* The handlers in progress bring LDAP to the name and the Kontexte that were told. *)
LdapInv ==
  observed = "ldap" /\ inOrder =>
    \E T \in SUBSET Slots, u, l \in Usernames :
      ToldKontexte(T) /\ ToldName(u) /\ TasksFor(l, u, DueAt(T)) /\ EntryOf(l, DueAt(T))

-----------------------------------------------------------------------------
(* A call of a handler that removes from groups, or creates. *)
LEMMA OneLessMeans ==
  ASSUME LdapRest, NEW t \in ldapTasks, t.op = "kontexte", NEW field \in {"remove", "create"}, NEW s, OneLess(t, field, s)
  PROVE  \E n : /\ n.op = "kontexte" /\ n.name = t.name
                /\ n.remove = (IF field = "remove" THEN t.remove \ {s} ELSE t.remove)
                /\ n.create = (IF field = "create" THEN t.create \ {s} ELSE t.create)
                /\ ldapTasks' = (ldapTasks \ {t}) \union (IF n.remove \union n.create = {} THEN {} ELSE {n})
                /\ UNCHANGED <<lingering, leftOut>>
<1>1. t \in [op : {"kontexte"}, event : Nat, name : Usernames, create : SUBSET Kennungen, remove : SUBSET Kennungen]
  BY LdapTaskKinds DEF LdapRest
<1>2. PICK n : n = [t EXCEPT ![field] = @ \ {s}]
  OBVIOUS
<1>3. ldapTasks' = (ldapTasks \ {t}) \union (IF n.remove \union n.create = {} THEN {} ELSE {n}) /\ UNCHANGED <<lingering, leftOut>>
  BY <1>2 DEF OneLess
<1>4. CASE field = "remove"
  <2>1. n.op = "kontexte" /\ n.name = t.name /\ n.remove = t.remove \ {s} /\ n.create = t.create
    BY <1>1, <1>2, <1>4
  <2>2. QED
    BY <2>1, <1>3, <1>4
<1>5. CASE field = "create"
  <2>1. n.op = "kontexte" /\ n.name = t.name /\ n.create = t.create \ {s} /\ n.remove = t.remove
    BY <1>1, <1>2, <1>5
  <2>2. QED
    BY <2>1, <1>3, <1>5
<1>6. QED
  BY <1>4, <1>5

(* A handler's call serves the same name, or the new one when LDAP has it. *)
LEMMA LdapStepFits ==
  ASSUME LdapTyped, NEW T, NEW u \in Usernames, NEW l \in Usernames, TasksFor(l, u, DueAt(T)), EntryOf(l, DueAt(T)),
         UNCHANGED <<present, req>>, NEW t \in ldapTasks, LdapStep(t)
  PROVE  \E k \in Usernames : (TasksFor(k, u, DueAt(T)) /\ EntryOf(k, DueAt(T)))'
<1>t. t \in LdapTasks /\ LdapRest /\ Usernames = LdapNames /\ members \in [Kennungen -> SUBSET LdapNames]
      /\ t.op \in {"kontexte", "renamed", "deleted", "migration"}
  <2>1. t \in LdapTasks /\ LdapRest /\ members \in [Kennungen -> SUBSET LdapNames]
    BY DEF LdapTyped, LdapRest, LdapTypeOK
  <2>2. QED
    BY <2>1, LdapTaskKinds, ReplicasAssumption
<1>d. PICK D : D = DueAt(T) /\ D = DueAt(T)'
  BY DEF DueAt, Gone, At
<1>g. (Gone' <=> Gone) /\ (Gone => D = {})
  BY <1>d DEF Gone, At, DueAt
<1>i. TasksFor(l, u, D) /\ EntryOf(l, D)
  BY <1>d
<1>s. ASSUME NEW k \in Usernames, TasksFor(k, u, D)', EntryOf(k, D)' PROVE \E x \in Usernames : (TasksFor(x, u, DueAt(T)) /\ EntryOf(x, DueAt(T)))'
  <2>1. TasksFor(k, u, DueAt(T))' /\ EntryOf(k, DueAt(T))'
    BY <1>s, <1>d
  <2>2. QED
    BY <2>1
<1>1. CASE RemovePersonFromGroup(t)
  <2>1. t.op = "kontexte" /\ UNCHANGED entries
    BY <1>1 DEF RemovePersonFromGroup
  <2>2. PICK s \in t.remove : Leave(t.name, s) /\ OneLess(t, "remove", s)
    BY <1>1 DEF RemovePersonFromGroup
  <2>3. PICK n : /\ n.op = "kontexte" /\ n.name = t.name /\ n.remove = t.remove \ {s} /\ n.create = t.create
                 /\ ldapTasks' = (ldapTasks \ {t}) \union (IF n.remove \union n.create = {} THEN {} ELSE {n})
                 /\ UNCHANGED <<lingering, leftOut>>
    BY <2>1, <2>2, <1>t, OneLessMeans
  <2>4. t.name = l /\ t.remove \intersect D = {} /\ t.create \subseteq D /\ l = u /\ \A x \in ldapTasks : x.op # "renamed"
    BY <2>1, <1>i DEF TasksFor
  <2>5. s \in Kennungen /\ s \notin D
    BY <2>1, <2>2, <2>4, <1>t, LdapTaskKinds
  <2>6. members' = [members EXCEPT ![s] = @ \ {l}]
    BY <2>2, <2>4 DEF Leave
  <2>7. members'[s] = members[s] \ {l} /\ \A x \in Kennungen \ {s} : members'[x] = members[x]
    BY <2>5, <2>6, <1>t
  <2>8. \A x \in Kennungen : x \in GroupsOf(l)' <=> x \in GroupsOf(l) \ {s}
    BY <2>7 DEF GroupsOf
  <2>9. GroupsOf(l) \subseteq Kennungen /\ GroupsOf(l)' \subseteq Kennungen
    BY DEF GroupsOf
  <2>10. \A x : Joining(x) => Joining(x)'
    BY <2>1, <2>3 DEF Joining
  <2>11. \A x : Leaving(x) /\ x # s => Leaving(x)'
    BY <2>1, <2>3 DEF Leaving
  <2>12. TasksFor(l, u, D)'
    BY <2>3, <2>4, <1>g, <1>i DEF TasksFor
  <2>13. (\E x \in ldapTasks : x.op = "deleted") => \E x \in ldapTasks' : x.op = "deleted"
    BY <2>1, <2>3
  <2>14. EntryOf(l, D)'
    <3>1. entries' \subseteq {l} /\ \A x \in Kennungen : members'[x] \subseteq {l}
      BY <2>1, <2>5, <2>7, <1>i DEF EntryOf
    <3>2. \A x \in D \ leftOut' : x \in GroupsOf(l)' \/ Joining(x)'
      BY <2>3, <2>5, <2>8, <2>9, <2>10, <1>i DEF EntryOf
    <3>3. \A x \in GroupsOf(l)' : x \in D \union lingering' \/ Leaving(x)'
      BY <2>3, <2>8, <2>9, <2>11, <1>i DEF EntryOf
    <3>4. ~Gone' /\ GroupsOf(l)' # {} => l \in entries'
      BY <2>1, <2>8, <2>9, <1>g, <1>i DEF EntryOf
    <3>5. Gone' /\ l \in entries' => \E x \in ldapTasks' : x.op = "deleted"
      BY <2>1, <2>13, <1>g, <1>i DEF EntryOf
    <3>6. QED
      BY <3>1, <3>2, <3>3, <3>4, <3>5 DEF EntryOf
  <2>15. QED
    BY <2>12, <2>14, <1>s
<1>2. CASE CreateLehrer(t)
  <2>1. t.op = "kontexte" /\ entries' = entries \union {t.name} /\ t.remove = {}
    BY <1>2 DEF CreateLehrer
  <2>2. PICK s \in t.create : Join(t.name, s) /\ OneLess(t, "create", s)
    BY <1>2 DEF CreateLehrer
  <2>3. PICK n : /\ n.op = "kontexte" /\ n.name = t.name /\ n.remove = t.remove /\ n.create = t.create \ {s}
                 /\ ldapTasks' = (ldapTasks \ {t}) \union (IF n.remove \union n.create = {} THEN {} ELSE {n})
                 /\ UNCHANGED <<lingering, leftOut>>
    BY <2>1, <2>2, <1>t, OneLessMeans
  <2>4. t.name = l /\ t.create \subseteq D /\ l = u /\ \A x \in ldapTasks : x.op # "renamed"
    BY <2>1, <1>i DEF TasksFor
  <2>5. s \in Kennungen /\ s \in D /\ ~Gone
    BY <2>1, <2>2, <2>4, <1>t, <1>g, LdapTaskKinds
  <2>6. members' = [members EXCEPT ![s] = @ \union {l}]
    BY <2>2, <2>4 DEF Join
  <2>7. members'[s] = members[s] \union {l} /\ \A x \in Kennungen \ {s} : members'[x] = members[x]
    BY <2>5, <2>6, <1>t
  <2>8. \A x \in Kennungen : x \in GroupsOf(l)' <=> x \in GroupsOf(l) \union {s}
    BY <2>5, <2>7 DEF GroupsOf
  <2>9. GroupsOf(l) \subseteq Kennungen /\ GroupsOf(l)' \subseteq Kennungen
    BY DEF GroupsOf
  <2>10. \A x : Joining(x) /\ x # s => Joining(x)'
    BY <2>1, <2>3 DEF Joining
  <2>11. \A x : Leaving(x) => Leaving(x)'
    BY <2>1, <2>3 DEF Leaving
  <2>12. TasksFor(l, u, D)'
    BY <2>1, <2>3, <2>4, <1>g, <1>i DEF TasksFor
  <2>13. EntryOf(l, D)'
    <3>1. entries' \subseteq {l} /\ l \in entries' /\ \A x \in Kennungen : members'[x] \subseteq {l}
      BY <2>1, <2>4, <2>5, <2>7, <1>i DEF EntryOf
    <3>2. \A x \in D \ leftOut' : x \in GroupsOf(l)' \/ Joining(x)'
      BY <2>3, <2>5, <2>8, <2>9, <2>10, <1>i DEF EntryOf
    <3>3. \A x \in GroupsOf(l)' : x \in D \union lingering' \/ Leaving(x)'
      BY <2>3, <2>5, <2>8, <2>9, <2>11, <1>i DEF EntryOf
    <3>4. QED
      BY <3>1, <3>2, <3>3, <2>5, <1>g DEF EntryOf
  <2>14. QED
    BY <2>12, <2>13, <1>s
<1>3. CASE ModifyPersonAttributes(t)
  <2>1. t.op = "renamed" /\ Ends(t)
    BY <1>3 DEF ModifyPersonAttributes
  <2>2. ldapTasks = {t} /\ t.old = l /\ t.name = u /\ l # u /\ ~Gone
    BY <2>1, <1>i DEF TasksFor
  <2>3. ldapTasks' = {} /\ UNCHANGED <<lingering, leftOut>>
    BY <2>1, <2>2 DEF Ends
  <2>4. ~Gone' /\ TasksFor(u, u, D)'
    BY <2>2, <2>3, <1>g DEF TasksFor
  <2>5. (\A x : ~Joining(x)) /\ \A x : ~Leaving(x)
    BY <2>1, <2>2 DEF Joining, Leaving
  <2>6. entries \subseteq {l} /\ (\A s \in Kennungen : members[s] \subseteq {l}) /\ (GroupsOf(l) # {} => l \in entries)
    BY <2>2, <1>i DEF EntryOf
  <2>7. CASE l \in entries
    <3>1. EntryRenamed(l, u)
      BY <2>2, <2>6, <2>7, <1>3 DEF ModifyPersonAttributes
    <3>2. entries' = {u}
      BY <3>1, <2>6, <2>7 DEF EntryRenamed
    <3>3. \A s \in Kennungen : members'[s] = IF l \in members[s] THEN {u} ELSE {}
      <4>1. SUFFICES ASSUME NEW s \in Kennungen PROVE members'[s] = IF l \in members[s] THEN {u} ELSE {}
        OBVIOUS
      <4>2. members'[s] = {IF v = l THEN u ELSE v : v \in members[s]}
        BY <3>1 DEF EntryRenamed
      <4>3. members[s] \subseteq {l}
        BY <2>6
      <4>4. QED
        BY <4>2, <4>3
    <3>4. GroupsOf(u)' = GroupsOf(l)
      BY <3>3 DEF GroupsOf
    <3>5. EntryOf(u, D)'
      BY <3>2, <3>3, <3>4, <2>3, <2>4, <2>5, <1>i DEF EntryOf
    <3>6. QED
      BY <3>5, <2>4, <1>s
  <2>8. CASE l \notin entries
    <3>1. UNCHANGED <<entries, members>> /\ entries = {} /\ GroupsOf(l) = {}
      BY <2>2, <2>6, <2>8, <1>3 DEF ModifyPersonAttributes
    <3>2. \A s \in Kennungen : members[s] = {}
      BY <3>1, <2>6 DEF GroupsOf
    <3>3. GroupsOf(u)' = {}
      BY <3>1, <3>2 DEF GroupsOf
    <3>4. EntryOf(u, D)'
      BY <3>1, <3>2, <3>3, <2>3, <2>4, <2>5, <1>i DEF EntryOf
    <3>5. QED
      BY <3>4, <2>4, <1>s
  <2>9. QED
    BY <2>7, <2>8
<1>4. CASE DeleteLehrer(t)
  <2>1. t.op = "deleted" /\ Ends(t) /\ entries' = entries \ {t.name} /\ UNCHANGED members
    BY <1>4 DEF DeleteLehrer
  <2>2. t.name = l /\ Gone /\ \A x \in ldapTasks : x.op # "renamed"
    BY <2>1, <1>i DEF TasksFor
  <2>3. entries' = {} /\ ldapTasks' = ldapTasks \ {t} /\ UNCHANGED <<lingering, leftOut>>
    BY <2>1, <2>2, <1>i DEF EntryOf, Ends
  <2>4. TasksFor(l, u, D)'
    BY <2>2, <2>3, <1>g, <1>i DEF TasksFor
  <2>5. \A x : Leaving(x) => Leaving(x)'
    BY <2>1, <2>3 DEF Leaving
  <2>6. GroupsOf(l)' = GroupsOf(l)
    BY <2>1 DEF GroupsOf
  <2>7. EntryOf(l, D)'
    BY <2>1, <2>2, <2>3, <2>5, <2>6, <1>g, <1>i DEF EntryOf
  <2>8. QED
    BY <2>4, <2>7, <1>s
<1>5. CASE IsLehrerExisting(t)
  <2>1. t.op = "migration" /\ UNCHANGED <<entries, members, lingering>>
        /\ leftOut' = leftOut \union (IF t.name \in entries THEN {t.at} ELSE {})
    BY <1>5 DEF IsLehrerExisting
  <2>2. t.name = l /\ t.at \in D /\ ~Gone /\ l = u /\ \A x \in ldapTasks : x.op # "renamed"
    BY <2>1, <1>g, <1>i DEF TasksFor
  <2>3. PICK at, none : at = {t.at} /\ none = {}
    OBVIOUS
  <2>4. PICK n : n = [op |-> "kontexte", event |-> t.event, name |-> l, create |-> at, remove |-> none]
    OBVIOUS
  <2>5. n.op = "kontexte" /\ n.name = l /\ n.create = {t.at} /\ n.remove = {}
    BY <2>3, <2>4
  <2>6. ldapTasks' = (ldapTasks \ {t}) \union (IF l \in entries THEN {} ELSE {n})
    BY <1>5, <2>2, <2>3, <2>4 DEF IsLehrerExisting
  <2>7. TasksFor(l, u, D)'
    BY <2>2, <2>5, <2>6, <1>g, <1>i DEF TasksFor
  <2>8. \A x : Leaving(x) => Leaving(x)'
    BY <2>1, <2>6 DEF Leaving
  <2>9. \A x : Joining(x) => Joining(x)' \/ x \in leftOut'
    BY <2>1, <2>2, <2>5, <2>6 DEF Joining
  <2>10. GroupsOf(l)' = GroupsOf(l)
    BY <2>1 DEF GroupsOf
  <2>11. EntryOf(l, D)'
    BY <2>1, <2>2, <2>8, <2>9, <2>10, <1>g, <1>i DEF EntryOf
  <2>12. QED
    BY <2>7, <2>11, <1>s
<1>6. QED
  BY <1>1, <1>2, <1>3, <1>4, <1>5 DEF LdapStep

-----------------------------------------------------------------------------
(* Nothing is in progress: LDAP has what was told last. *)
LEMMA QuietEntry ==
  ASSUME NEW l, NEW u, NEW D, TasksFor(l, u, D), EntryOf(l, D), ldapTasks = {}
  PROVE  /\ l = u /\ entries \subseteq {u} /\ \A s \in Kennungen : members[s] \subseteq {u}
         /\ \A s \in D \ leftOut : s \in GroupsOf(u)
         /\ \A s \in GroupsOf(u) : s \in D \union lingering
         /\ ~Gone /\ GroupsOf(u) # {} => u \in entries
         /\ Gone => u \notin entries
BY DEF TasksFor, EntryOf, Joining, Leaving

(* Where a teacher is with two sets of Kontexte. *)
LEMMA LehrerOfUnion ==
  ASSUME NEW A, NEW B
  PROVE  LehrerAt(A \union B) = LehrerAt(A) \union LehrerAt(B) /\ LehrerAt(A) \subseteq {k.orga : k \in A}
BY DEF LehrerAt

(* An update that is published starts the handlers for what it changed. *)
LEMMA PublishUpdateFits ==
  ASSUME RepTyped, RepTyped', Ordered, LdapInv, observed = "ldap", NEW c \in Clients, PublishKontextUpdated(c), inOrder'
  PROVE  LdapInv'
<1>1. inOrder /\ ldapTasks = {} /\ req[c].op = "update" /\ req[c].at = "publish" /\ UNCHANGED database /\ EndRequest(c)
  BY DEF PublishKontextUpdated, At
<1>2. PICK T \in SUBSET Slots, u \in Usernames, l \in Usernames :
        ToldKontexte(T) /\ ToldName(u) /\ TasksFor(l, u, DueAt(T)) /\ EntryOf(l, DueAt(T))
  BY <1>1 DEF LdapInv
<1>3. PICK r : r = req[c]
  OBVIOUS
<1>4. Fresh(r) /\ r \in Requests
  BY <1>1, <1>3 DEF Ordered, OneRequest, RepTyped
<1>5. r.current = kontexte /\ r.new \subseteq kontexte /\ r.name = name /\ present
  BY <1>1, <1>3, <1>4 DEF Fresh, Idle
<1>6. T = (kontexte \ r.new) \union r.removed
  BY <1>1, <1>2, <1>3 DEF ToldKontexte
<1>7. ~Gone /\ ~Gone'
  <2>1. ~Gone
    BY <1>1, <1>5 DEF Gone, Ordered, OneRequest, At, Idle
  <2>2. req'[c] = Idle /\ \A d \in Clients \ {c} : req'[d] = req[d]
    BY <1>1, RequestGoesOn DEF RepTyped
  <2>3. QED
    BY <1>1, <2>1, <2>2 DEF Gone, At, Idle, database
<1>8. u = name
  BY <1>1, <1>2 DEF ToldName, Ordered, OneRequest, Idle
<1>9. PICK ks \in SUBSET Slots : ks = kontexte /\ ks = kontexte'
  BY <1>1 DEF RepTyped, DatabaseTyped, database
<1>10. PICK D : D = LehrerAt(ks)
  OBVIOUS
<1>11. PICK Old : Old = LehrerAt(T)
  OBVIOUS
<1>12. Old = LehrerAt(ks \ r.new) \union LehrerAt(r.removed) /\ D = LehrerAt(ks \ r.new) \union LehrerAt(r.new)
  <2>1. ks = (ks \ r.new) \union r.new
    BY <1>5, <1>9
  <2>2. QED
    BY <2>1, <1>6, <1>9, <1>10, <1>11, LehrerOfUnion
<1>13. D \subseteq {k.orga : k \in ks}
  BY <1>10, LehrerOfUnion
<1>14. PICK t : t = [op |-> "kontexte", event |-> published, name |-> r.name, create |-> LehrerAt(r.new),
                     remove |-> {s \in LehrerAt(r.removed) : ~HatZuordnungNachLoeschen(r.current, s)}]
  OBVIOUS
<1>15. t.op = "kontexte" /\ t.name = u /\ t.create = LehrerAt(r.new) /\ t.remove = {s \in LehrerAt(r.removed) : s \notin {k.orga : k \in ks}}
  BY <1>5, <1>8, <1>9, <1>14 DEF HatZuordnungNachLoeschen
<1>16. PICK E : E = IF t.remove \union t.create = {} THEN {} ELSE {t}
  OBVIOUS
<1>17. /\ ldapTasks' = E /\ UNCHANGED <<entries, members, leftOut>>
       /\ lingering' = lingering \union ((LehrerAt(r.removed) \ D) \intersect {k.orga : k \in ks})
  <2>1. Shown("ldap", LdapUpdate(published, r.name, r.new, r.removed, r.current)) = E
    BY <1>14, <1>16 DEF Shown, LdapUpdate
  <2>2. StartLdap(Shown("ldap", LdapUpdate(published, r.name, r.new, r.removed, r.current)),
                  Shown("ldap", (LehrerAt(r.removed) \ LehrerAt(r.current)) \intersect {k.orga : k \in r.current}))
    BY <1>3 DEF PublishKontextUpdated
  <2>3. QED
    BY <1>1, <1>5, <1>9, <1>10, <2>1, <2>2 DEF StartLdap, Shown
<1>18. /\ l = u /\ entries \subseteq {u} /\ \A s \in Kennungen : members[s] \subseteq {u}
       /\ \A s \in Old \ leftOut : s \in GroupsOf(u)
       /\ \A s \in GroupsOf(u) : s \in Old \union lingering
       /\ (GroupsOf(u) # {} => u \in entries)
  BY <1>1, <1>2, <1>7, <1>11, QuietEntry DEF DueAt
<1>19. \A x \in E : x = t
  BY <1>16
<1>20. \A s \in t.remove \union t.create : t \in E
  BY <1>16
<1>21. t.remove \intersect D = {} /\ t.create \subseteq D
  BY <1>12, <1>13, <1>15
<1>22. \A s \in D \ leftOut' : s \in GroupsOf(u) \/ \E x \in E : (x.op = "kontexte" /\ s \in x.create) \/ (x.op = "migration" /\ x.at = s)
  BY <1>12, <1>15, <1>17, <1>18, <1>20
<1>23. \A s \in GroupsOf(u) : s \in D \union lingering' \/ \E x \in E : x.op = "kontexte" /\ s \in x.remove
  BY <1>12, <1>13, <1>15, <1>17, <1>18, <1>20
<1>24. (TasksFor(u, u, D) /\ EntryOf(u, D))'
  <2>1. TasksFor(u, u, D)'
    BY <1>7, <1>15, <1>17, <1>18, <1>19, <1>21 DEF TasksFor
  <2>2. GroupsOf(u)' = GroupsOf(u)
    BY <1>17 DEF GroupsOf
  <2>3. \A s \in D \ leftOut' : s \in GroupsOf(u)' \/ Joining(s)'
    BY <1>17, <1>22, <2>2 DEF Joining
  <2>4. \A s \in GroupsOf(u)' : s \in D \union lingering' \/ Leaving(s)'
    BY <1>17, <1>23, <2>2 DEF Leaving
  <2>5. EntryOf(u, D)'
    BY <1>7, <1>17, <1>18, <2>2, <2>3, <2>4 DEF EntryOf
  <2>6. QED
    BY <2>1, <2>5
<1>25. D = DueAt(ks)'
  BY <1>7, <1>10 DEF DueAt
<1>26. ToldKontexte(ks)' /\ ToldName(u)'
  <2>1. ToldKontexte(ks)'
    BY <1>1, <1>9, ToldNow
  <2>2. req'[c] = Idle /\ \A d \in Clients \ {c} : req'[d] = req[d]
    BY <1>1, RequestGoesOn DEF RepTyped
  <2>3. ToldName(u)'
    BY <1>1, <1>2, <2>2 DEF ToldName, Idle, database
  <2>4. QED
    BY <2>1, <2>3
<1>27. QED
  BY <1>24, <1>25, <1>26 DEF LdapInv

(* A migration starts one for its Kontext. *)
LEMMA MigrationFits ==
  ASSUME RepTyped, RepTyped', Ordered, LdapInv, observed = "ldap", NEW c \in Clients, MigrationSaves(c), inOrder'
  PROVE  LdapInv'
<1>3. PICK r : r = req[c]
  OBVIOUS
<1>a. r.op = "migration" /\ r.at = "save" /\ EndRequest(c) /\ UNCHANGED <<present, name, used>>
  BY <1>3 DEF MigrationSaves, At
<1>b. inOrder
  BY DEF MigrationSaves
<1>4. Fresh(r) /\ r \in Requests
  BY <1>b, <1>3 DEF Ordered, OneRequest, RepTyped
<1>5. present /\ r.name = name /\ r.kontext \notin kontexte
  BY <1>4, <1>a DEF Fresh, Idle
<1>1. /\ kontexte' = kontexte \union {r.kontext} /\ StartLdapMigration(published, r.name, r.kontext, r.standard)
      /\ ldapTasks = {}
  BY <1>3, <1>5 DEF MigrationSaves
<1>2. PICK T \in SUBSET Slots, u \in Usernames, l \in Usernames :
        ToldKontexte(T) /\ ToldName(u) /\ TasksFor(l, u, DueAt(T)) /\ EntryOf(l, DueAt(T))
  BY <1>b DEF LdapInv
<1>6. T = kontexte
  BY <1>2, <1>3, <1>a, <1>b DEF ToldKontexte, Ordered, OneRequest, Idle
<1>q. req'[c] = Idle /\ \A d \in Clients \ {c} : req'[d] = req[d]
  BY <1>a, RequestGoesOn DEF RepTyped
<1>7. ~Gone /\ ~Gone'
  <2>1. ~Gone
    BY <1>b, <1>3, <1>a, <1>5 DEF Gone, Ordered, OneRequest, At, Idle
  <2>3. QED
    BY <1>a, <1>q, <2>1 DEF Gone, At, Idle
<1>8. u = name
  BY <1>a, <1>b, <1>3, <1>2 DEF ToldName, Ordered, OneRequest, Idle
<1>9. PICK ks \in SUBSET Slots : ks = kontexte'
  BY DEF RepTyped, DatabaseTyped
<1>k. PICK K : K = {r.kontext}
  OBVIOUS
<1>10. PICK D : D = LehrerAt(ks)
  OBVIOUS
<1>11. PICK Old, More : Old = LehrerAt(T) /\ More = LehrerAt(K)
  OBVIOUS
<1>12. D = Old \union More
  BY <1>1, <1>6, <1>9, <1>k, <1>10, <1>11, LehrerOfUnion
<1>14. PICK E : E = IF r.standard THEN {[op |-> "migration", event |-> published, name |-> r.name, at |-> s] : s \in More} ELSE {}
  OBVIOUS
<1>15. ldapTasks' = E /\ UNCHANGED <<entries, members, lingering>> /\ leftOut' = leftOut \union (IF r.standard THEN {} ELSE More)
  BY <1>1, <1>k, <1>11, <1>14 DEF StartLdapMigration
<1>16. \A x \in E : x.op = "migration" /\ x.name = u /\ x.at \in More
  BY <1>5, <1>8, <1>14
<1>17. r.standard => \A s \in More : \E x \in E : x.op = "migration" /\ x.at = s
  <2>1. SUFFICES ASSUME r.standard, NEW s \in More PROVE \E x \in E : x.op = "migration" /\ x.at = s
    OBVIOUS
  <2>2. PICK x : x = [op |-> "migration", event |-> published, name |-> r.name, at |-> s]
    OBVIOUS
  <2>3. x \in E /\ x.op = "migration" /\ x.at = s
    BY <2>1, <2>2, <1>14
  <2>4. QED
    BY <2>3
<1>18. /\ l = u /\ entries \subseteq {u} /\ \A s \in Kennungen : members[s] \subseteq {u}
       /\ \A s \in Old \ leftOut : s \in GroupsOf(u)
       /\ \A s \in GroupsOf(u) : s \in Old \union lingering
       /\ (GroupsOf(u) # {} => u \in entries)
  BY <1>1, <1>2, <1>7, <1>11, QuietEntry DEF DueAt
<1>22. \A s \in D \ leftOut' : s \in GroupsOf(u) \/ \E x \in E : (x.op = "kontexte" /\ s \in x.create) \/ (x.op = "migration" /\ x.at = s)
  BY <1>12, <1>15, <1>17, <1>18
<1>23. \A s \in GroupsOf(u) : s \in D \union lingering' \/ \E x \in E : x.op = "kontexte" /\ s \in x.remove
  BY <1>12, <1>15, <1>18
<1>24. (TasksFor(u, u, D) /\ EntryOf(u, D))'
  <2>1. TasksFor(u, u, D)'
    BY <1>7, <1>12, <1>15, <1>16, <1>18 DEF TasksFor
  <2>2. GroupsOf(u)' = GroupsOf(u)
    BY <1>15 DEF GroupsOf
  <2>3. \A s \in D \ leftOut' : s \in GroupsOf(u)' \/ Joining(s)'
    BY <1>15, <1>22, <2>2 DEF Joining
  <2>4. \A s \in GroupsOf(u)' : s \in D \union lingering' \/ Leaving(s)'
    BY <1>15, <1>23, <2>2 DEF Leaving
  <2>5. EntryOf(u, D)'
    BY <1>7, <1>15, <1>18, <2>2, <2>3, <2>4 DEF EntryOf
  <2>6. QED
    BY <2>1, <2>5
<1>25. D = DueAt(ks)'
  BY <1>7, <1>10 DEF DueAt
<1>26. ToldKontexte(ks)' /\ ToldName(u)'
  <2>1. ToldKontexte(ks)'
    BY <1>b, <1>9, ToldNow
  <2>3. ToldName(u)'
    BY <1>2, <1>3, <1>a, <1>q DEF ToldName, Idle
  <2>4. QED
    BY <2>1, <2>3
<1>27. QED
  BY <1>24, <1>25, <1>26 DEF LdapInv

(* A renaming starts one from the old name to the new. *)
LEMMA PublishRenameFits ==
  ASSUME RepTyped, RepTyped', Ordered, LdapInv, observed = "ldap", NEW c \in Clients, PublishRenamed(c), inOrder'
  PROVE  LdapInv'
<1>1. inOrder /\ ldapTasks = {} /\ req[c].op = "rename" /\ UNCHANGED <<database, observed>> /\ EndRequest(c)
  BY DEF PublishRenamed, At
<1>2. PICK T \in SUBSET Slots, u \in Usernames, l \in Usernames :
        ToldKontexte(T) /\ ToldName(u) /\ TasksFor(l, u, DueAt(T)) /\ EntryOf(l, DueAt(T))
  BY <1>1 DEF LdapInv
<1>3. PICK v \in Usernames : v = name
  BY DEF RepTyped, DatabaseTyped
<1>4. req[c].old = u /\ req[c].name = v /\ u # v
  BY <1>1, <1>2, <1>3 DEF ToldName
<1>q. req'[c] = Idle /\ \A d \in Clients \ {c} : req'[d] = req[d]
  BY <1>1, RequestGoesOn DEF RepTyped
<1>5. present
  BY <1>1 DEF Ordered, OneRequest, Fresh, Idle
<1>6. ~Gone /\ ~Gone'
  <2>1. ~Gone
    BY <1>1, <1>5 DEF Gone, Ordered, OneRequest, At, Idle
  <2>2. QED
    BY <1>1, <1>q, <2>1 DEF Gone, At, Idle, database
<1>7. PICK t : t = LdapRenamed(u, v)
  OBVIOUS
<1>8. t.op = "renamed" /\ t.old = u /\ t.name = v
  BY <1>7 DEF LdapRenamed
<1>9. PICK E : E = {t}
  OBVIOUS
<1>10. ldapTasks' = E /\ UNCHANGED <<entries, members, leftOut>> /\ lingering' = lingering
  BY <1>1, <1>4, <1>7, <1>9 DEF PublishRenamed, StartLdap, Shown
<1>11. PICK D : D = DueAt(T)
  OBVIOUS
<1>12. /\ l = u /\ entries \subseteq {u} /\ \A s \in Kennungen : members[s] \subseteq {u}
       /\ \A s \in D \ leftOut : s \in GroupsOf(u)
       /\ \A s \in GroupsOf(u) : s \in D \union lingering
       /\ (GroupsOf(u) # {} => u \in entries)
  BY <1>1, <1>2, <1>6, <1>11, QuietEntry
<1>e. (\A x \in E : x = t) /\ t \in E
  BY <1>9
<1>f. \A x \in E : x.op = "renamed" /\ x.old = u /\ x.name = v /\ E = {x}
  BY <1>e, <1>8, <1>9
<1>h. \A x \in E : x.op # "kontexte" /\ x.op # "migration" /\ x.op # "deleted"
  BY <1>f
<1>i. ~\A x \in E : x.op # "renamed"
  BY <1>e, <1>f
<1>j. \A s \in D \ leftOut' : s \in GroupsOf(u) \/ \E x \in E : (x.op = "kontexte" /\ s \in x.create) \/ (x.op = "migration" /\ x.at = s)
  BY <1>10, <1>12
<1>k. \A s \in GroupsOf(u) : s \in D \union lingering' \/ \E x \in E : x.op = "kontexte" /\ s \in x.remove
  BY <1>10, <1>12
<1>l. ~Gone' /\ GroupsOf(u) # {} => u \in entries
  BY <1>12
<1>13. (TasksFor(u, v, D) /\ EntryOf(u, D))'
  <2>1. TasksFor(u, v, D)'
    BY <1>4, <1>6, <1>f, <1>h, <1>i, <1>10 DEF TasksFor
  <2>2. GroupsOf(u)' = GroupsOf(u)
    BY <1>10 DEF GroupsOf
  <2>3. EntryOf(u, D)'
    BY <1>6, <1>10, <1>12, <2>2 DEF EntryOf
  <2>4. QED
    BY <2>1, <2>3
<1>14. D = DueAt(T)'
  BY <1>6, <1>11 DEF DueAt
<1>15. ToldName(v)'
  BY <1>1, <1>3, ToldNow
<1>16. ToldKontexte(T)'
  BY <1>1, <1>2, <1>q DEF ToldKontexte, Idle, database
<1>17. QED
  BY <1>13, <1>14, <1>15, <1>16 DEF LdapInv

(* A deletion starts one that removes the entry. *)
LEMMA PublishDeleteFits ==
  ASSUME RepTyped, RepTyped', Ordered, LdapInv, observed = "ldap", NEW c \in Clients, PublishDeleted(c), inOrder'
  PROVE  LdapInv'
<1>1. inOrder /\ ldapTasks = {} /\ req[c].op = "delete" /\ req[c].at = "publish" /\ UNCHANGED <<database, observed>>
  BY DEF PublishDeleted, At
<1>2. PICK T \in SUBSET Slots, u \in Usernames, l \in Usernames :
        ToldKontexte(T) /\ ToldName(u) /\ TasksFor(l, u, DueAt(T)) /\ EntryOf(l, DueAt(T))
  BY <1>1 DEF LdapInv
<1>3. present /\ req[c].name = name
  BY <1>1 DEF Ordered, OneRequest, Fresh, Idle
<1>4. u = name /\ T = kontexte
  BY <1>1, <1>2 DEF ToldName, ToldKontexte, Ordered, OneRequest, Idle
<1>5. PICK r : req' = [req EXCEPT ![c] = r] /\ r.op = "delete" /\ r.at = "remove"
  BY DeletionGoesOn DEF RepTyped
<1>q. req'[c] = r /\ \A d \in Clients \ {c} : req'[d] = req[d]
  BY <1>5, RequestGoesOn DEF RepTyped
<1>6. ~Gone /\ Gone'
  <2>1. ~Gone
    BY <1>1, <1>3 DEF Gone, Ordered, OneRequest, At, Idle
  <2>2. QED
    BY <1>5, <1>q, <2>1 DEF Gone, At
<1>7. PICK d, none : d = LdapDeleted(u) /\ none = {}
  OBVIOUS
<1>8. d.op = "deleted" /\ d.name = u
  BY <1>7 DEF LdapDeleted
<1>9. PICK t : t = [op |-> "kontexte", event |-> published, name |-> u, create |-> LehrerAt(none),
                    remove |-> {s \in LehrerAt(T) : ~HatZuordnungNachLoeschen(none, s)}]
  OBVIOUS
<1>10. t.op = "kontexte" /\ t.name = u /\ t.create = {} /\ t.remove = LehrerAt(T)
  BY <1>7, <1>9 DEF HatZuordnungNachLoeschen, LehrerAt
<1>11. PICK E : E = {d} \union (IF t.remove \union t.create = {} THEN {} ELSE {t})
  OBVIOUS
<1>12. ldapTasks' = E /\ UNCHANGED <<entries, members, leftOut>> /\ lingering' = lingering
  <2>1. LdapUpdate(published, u, {}, T, {}) = IF t.remove \union t.create = {} THEN {} ELSE {t}
    BY <1>7, <1>9 DEF LdapUpdate
  <2>2. Shown("ldap", {LdapDeleted(u)} \union LdapUpdate(published, u, {}, T, {})) = E
    BY <1>7, <1>11, <2>1 DEF Shown
  <2>3. StartLdap(Shown("ldap", {LdapDeleted(u)} \union LdapUpdate(published, u, {}, T, {})), {})
    BY <1>3, <1>4 DEF PublishDeleted
  <2>4. QED
    BY <1>1, <2>2, <2>3 DEF StartLdap
<1>13. PICK Old : Old = LehrerAt(T)
  OBVIOUS
<1>14. /\ l = u /\ entries \subseteq {u} /\ \A s \in Kennungen : members[s] \subseteq {u}
       /\ \A s \in GroupsOf(u) : s \in Old \union lingering
  BY <1>1, <1>2, <1>6, <1>13, QuietEntry DEF DueAt
<1>15. \A x \in E : x = d \/ x = t
  BY <1>11
<1>16. d \in E /\ \A s \in t.remove : t \in E
  BY <1>11
<1>17. \A s \in GroupsOf(u) : s \in none \union lingering' \/ \E x \in E : x.op = "kontexte" /\ s \in x.remove
  BY <1>10, <1>12, <1>13, <1>14, <1>16
<1>18. (TasksFor(u, u, none) /\ EntryOf(u, none))'
  <2>1. TasksFor(u, u, none)'
    BY <1>6, <1>7, <1>8, <1>10, <1>12, <1>14, <1>15 DEF TasksFor
  <2>2. GroupsOf(u)' = GroupsOf(u)
    BY <1>12 DEF GroupsOf
  <2>3. \A s \in none \ leftOut' : s \in GroupsOf(u)' \/ Joining(s)'
    BY <1>12, <1>7, <2>2 DEF Joining
  <2>4. \A s \in GroupsOf(u)' : s \in none \union lingering' \/ Leaving(s)'
    BY <1>12, <1>17, <2>2 DEF Leaving
  <2>5. EntryOf(u, none)'
    BY <1>6, <1>7, <1>8, <1>12, <1>14, <1>16, <2>2, <2>3, <2>4 DEF EntryOf
  <2>6. QED
    BY <2>1, <2>5
<1>19. none = DueAt(T)'
  BY <1>6, <1>7 DEF DueAt
<1>20. ToldName(u)' /\ ToldKontexte(T)'
  BY <1>1, <1>2, <1>5, <1>q DEF ToldName, ToldKontexte, database
<1>21. QED
  BY <1>18, <1>19, <1>20 DEF LdapInv
(* Only a deletion that is published makes that someone is gone. *)
LEMMA GoneKept ==
  ASSUME RepTyped, ReplicasNext,
         \A c \in Clients : /\ ~PublishKontextUpdated(c) /\ ~MigrationSaves(c) /\ ~RemovePerson(c)
                             /\ ~PublishRenamed(c) /\ ~PublishDeleted(c)
  PROVE  Gone' <=> Gone
<1>r. req \in [Clients -> Requests]
  BY DEF RepTyped
<1>g. ASSUME NEW c \in Clients, ~At(c, "delete", "remove"), ~At(c, "delete", "remove")', \A d \in Clients \ {c} : req'[d] = req[d],
             UNCHANGED present
      PROVE  Gone' <=> Gone
  BY <1>g DEF Gone, At
<1>1. ASSUME NEW c \in Clients, UpdateBegins(c) \/ MigrationBegins(c) \/ RenameBegins(c) \/ DeleteBegins(c)
      PROVE Gone' <=> Gone
  <2>1. PICK r : Begin(c, r) /\ present /\ present' /\ (r.op = "delete" => r.at = "publish")
    <3>1. PICK r : Begin(c, r) /\ present /\ present' /\ (r.op = "update" \/ r.op = "migration" \/ r.op = "rename" \/ (r.op = "delete" /\ r.at = "publish"))
      BY <1>1, RequestBegins
    <3>2. QED
      BY <3>1
  <2>2. req[c] = Idle /\ req'[c] = r /\ \A d \in Clients \ {c} : req'[d] = req[d]
    BY <2>1, <1>r DEF Begin
  <2>3. present \in BOOLEAN /\ present' = present
    <3>1. UNCHANGED present
      BY <1>1 DEF UpdateBegins, MigrationBegins, RenameBegins, DeleteBegins, database
    <3>2. QED
      BY <3>1 DEF RepTyped, DatabaseTyped
  <2>4. QED
    BY <2>1, <2>2, <2>3, <1>g DEF At, Idle
<1>2. ASSUME NEW c \in Clients, UpdateReads(c) \/ UpdateLoadsPerson(c) PROVE Gone' <=> Gone
  <2>1. UNCHANGED present /\ req[c].op = "update"
    BY <1>2 DEF UpdateReads, UpdateLoadsPerson, At, database
  <2>2. CASE UpdateReads(c) \/ (UpdateLoadsPerson(c) /\ present)
    <3>1. PICK r : req' = [req EXCEPT ![c] = r] /\ r.op = "update"
      BY <2>2, <1>r, UpdateGoesOn
    <3>2. req'[c] = r /\ \A d \in Clients \ {c} : req'[d] = req[d]
      BY <3>1, <1>r, RequestGoesOn
    <3>3. QED
      BY <2>1, <3>1, <3>2, <1>g DEF At
  <2>3. CASE EndRequest(c)
    <3>1. req'[c] = Idle /\ \A d \in Clients \ {c} : req'[d] = req[d]
      BY <2>3, <1>r, RequestGoesOn
    <3>2. QED
      BY <2>1, <3>1, <1>g DEF At, Idle
  <2>4. QED
    BY <1>2, <2>2, <2>3 DEF UpdateLoadsPerson
<1>3. ASSUME \/ \E c \in Clients : PublishOxUserChanged(c) \/ SyncBegins(c)
             \/ TokenRequest \/ StepGroups \/ ServeQueue \/ StepSync \/ StepTokens \/ StepLdap
      PROVE  Gone' <=> Gone
  <2>1. UNCHANGED <<present, req>>
    BY <1>3 DEF PublishOxUserChanged, SyncBegins, TokenRequest, StepGroups, ServeQueue, StepSync, StepTokens, StepLdap, database
  <2>2. QED
    BY <2>1 DEF Gone, At
<1>4. QED
  BY <1>1, <1>2, <1>3 DEF ReplicasNext

(* Each step keeps the invariant, ... *)
LEMMA LdapNext == RepTyped /\ Ordered /\ LdapInv /\ [ReplicasNext]_replicaVars => LdapInv'
<1> SUFFICES ASSUME RepTyped, Ordered, LdapInv, [ReplicasNext]_replicaVars, observed' = "ldap", inOrder' PROVE LdapInv'
  BY DEF LdapInv
<1>s. observed = "ldap" /\ OnlyShown /\ AloneSync /\ RepTyped'
  BY OnlyShownNext, ReplicasNextTyped DEF Ordered
<1>k. ASSUME inOrder, NEW T \in SUBSET Slots, NEW u \in Usernames, NEW l \in Usernames,
             TasksFor(l, u, DueAt(T)), EntryOf(l, DueAt(T)), UNCHANGED ldapVars, DueAt(T)' = DueAt(T), Gone' <=> Gone
      PROVE  (TasksFor(l, u, DueAt(T)) /\ EntryOf(l, DueAt(T)))'
  <2>1. PICK D : D = DueAt(T)
    OBVIOUS
  <2>2. (\A s : Joining(s)' <=> Joining(s)) /\ (\A s : Leaving(s)' <=> Leaving(s)) /\ GroupsOf(l)' = GroupsOf(l)
    BY <1>k DEF Joining, Leaving, GroupsOf, ldapVars
  <2>3. TasksFor(l, u, D)'
    BY <1>k, <2>1 DEF TasksFor, ldapVars
  <2>4. EntryOf(l, D)'
    BY <1>k, <2>1, <2>2 DEF EntryOf, ldapVars
  <2>5. QED
    BY <1>k, <2>1, <2>3, <2>4
<1>1. CASE UNCHANGED replicaVars
  <2>1. inOrder /\ UNCHANGED <<database, req, ldapVars>>
    BY <1>1 DEF replicaVars, history
  <2>2. PICK T \in SUBSET Slots, u \in Usernames, l \in Usernames :
          ToldKontexte(T) /\ ToldName(u) /\ TasksFor(l, u, DueAt(T)) /\ EntryOf(l, DueAt(T))
    BY <1>s, <2>1 DEF LdapInv
  <2>3. ToldKontexte(T)' /\ ToldName(u)' /\ (Gone' <=> Gone)
    BY <2>1, <2>2 DEF ToldKontexte, ToldName, Gone, At, database
  <2>4. DueAt(T)' = DueAt(T)
    BY <2>3 DEF DueAt
  <2>5. QED
    BY <2>1, <2>2, <2>3, <2>4, <1>k DEF LdapInv
<1>2. CASE ReplicasNext
  <2>o. inOrder
    BY <1>2, <1>s, OrderKept
  <2>t. PICK T \in SUBSET Slots, u \in Usernames, l \in Usernames :
          ToldKontexte(T) /\ ToldName(u) /\ TasksFor(l, u, DueAt(T)) /\ EntryOf(l, DueAt(T))
    BY <1>s, <2>o DEF LdapInv
  <2>g. /\ (\A c \in Clients : ~PublishKontextUpdated(c) /\ ~MigrationSaves(c) /\ ~RemovePerson(c)) => ToldKontexte(T)'
        /\ (\A c \in Clients : ~PublishRenamed(c)) => ToldName(u)'
    BY <1>2, <1>s, <2>o, <2>t, ToldKept
  <2>1. ASSUME NEW c \in Clients, RemovePerson(c) PROVE LdapInv'
    <3>1. PICK K : K = kontexte'
      OBVIOUS
    <3>2. ToldKontexte(K)' /\ K \in SUBSET Slots
      BY <2>1, <2>o, <1>s, <3>1, ToldNow DEF ToldKontexte
    <3>3. Gone /\ Gone' /\ UNCHANGED ldapVars
      BY <2>1 DEF RemovePerson, Gone
    <3>4. ~PublishRenamed(c) /\ \A d \in Clients : ~PublishRenamed(d)
      <4>1. req[c] # Idle /\ req[c].op = "delete"
        BY <2>1 DEF RemovePerson, At, Idle
      <4>2. OneRequest
        BY <1>s, <2>o DEF Ordered
      <4>3. \A d \in Clients : req[d].op # "rename"
        BY <4>1, <4>2 DEF OneRequest, Idle
      <4>4. QED
        BY <4>3 DEF PublishRenamed, At
    <3>5. ToldName(u)'
      BY <2>g, <3>4
    <3>6. DueAt(T) = {} /\ DueAt(T)' = {} /\ DueAt(K)' = {}
      BY <3>3 DEF DueAt
    <3>7. (TasksFor(l, u, DueAt(T)) /\ EntryOf(l, DueAt(T)))'
      BY <2>o, <2>t, <3>3, <3>6, <1>k
    <3>8. (TasksFor(l, u, DueAt(K)) /\ EntryOf(l, DueAt(K)))'
      <4>1. PICK none : none = {}
        OBVIOUS
      <4>2. none = DueAt(T)' /\ none = DueAt(K)'
        BY <3>6, <4>1
      <4>3. TasksFor(l, u, none)' /\ EntryOf(l, none)'
        BY <3>7, <4>2
      <4>4. QED
        BY <4>2, <4>3
    <3>9. QED
      BY <3>2, <3>5, <3>8 DEF LdapInv
  <2>2. ASSUME \A c \in Clients : /\ ~PublishKontextUpdated(c) /\ ~MigrationSaves(c) /\ ~RemovePerson(c)
                                  /\ ~PublishRenamed(c) /\ ~PublishDeleted(c)
        PROVE  LdapInv'
    <3>1. ToldKontexte(T)' /\ ToldName(u)'
      BY <2>g, <2>2
    <3>2. Gone' <=> Gone
      BY <1>2, <1>s, <2>o, <2>2, GoneKept
    <3>3. DueAt(T)' = DueAt(T)
      BY <3>2 DEF DueAt
    <3>4. CASE StepLdap
      <4>1. PICK t \in ldapTasks : LdapStep(t)
        BY <3>4 DEF StepLdap
      <4>2. LdapTyped /\ UNCHANGED <<present, req>>
        BY <3>4 DEF StepLdap, RepTyped, database
      <4>3. PICK k \in Usernames : (TasksFor(k, u, DueAt(T)) /\ EntryOf(k, DueAt(T)))'
        BY <2>t, <4>1, <4>2, LdapStepFits
      <4>4. QED
        BY <3>1, <4>3 DEF LdapInv
    <3>5. CASE ~StepLdap
      <4>1. UNCHANGED ldapVars
        <5>1. \A c \in Clients : UpdateBegins(c) \/ MigrationBegins(c) \/ RenameBegins(c) \/ DeleteBegins(c) => UNCHANGED ldapVars
          BY RequestBegins DEF Begin
        <5>2. \A c \in Clients : UpdateReads(c) \/ UpdateLoadsPerson(c) \/ PublishOxUserChanged(c) \/ SyncBegins(c) => UNCHANGED ldapVars
          BY DEF UpdateReads, UpdateLoadsPerson, PublishOxUserChanged, SyncBegins
        <5>3. TokenRequest \/ StepGroups \/ ServeQueue \/ StepSync \/ StepTokens => UNCHANGED ldapVars
          BY DEF TokenRequest, StepGroups, ServeQueue, StepSync, StepTokens
        <5>4. QED
          BY <1>2, <2>2, <3>5, <5>1, <5>2, <5>3 DEF ReplicasNext
      <4>2. (TasksFor(l, u, DueAt(T)) /\ EntryOf(l, DueAt(T)))'
        BY <2>o, <2>t, <3>2, <3>3, <4>1, <1>k
      <4>3. QED
        BY <3>1, <4>2 DEF LdapInv
    <3>6. QED
      BY <3>4, <3>5
  <2>3. QED
    BY <1>s, <2>1, <2>2, PublishUpdateFits, MigrationFits, PublishRenameFits, PublishDeleteFits
<1>3. QED
  BY <1>1, <1>2

(* ... which holds at first, ... *)
LEMMA LdapInit == ReplicasInit => LdapInv
<1> SUFFICES ASSUME ReplicasInit PROVE LdapInv
  OBVIOUS
<1>1. PICK start \in Starts, u \in Usernames :
        /\ kontexte = start.kontexte /\ name = u /\ used = {u}
        /\ entries = IF LehrerAt(start.kontexte) = {} THEN {} ELSE {u}
        /\ members = [s \in Kennungen |-> IF s \in LehrerAt(start.kontexte) THEN {u} ELSE {}]
  BY DEF ReplicasInit
<1>2. present /\ ldapTasks = {} /\ lingering = {} /\ leftOut = {} /\ \A c \in Clients : req[c].op = "none"
  BY DEF ReplicasInit, Idle
<1>3. PICK T \in SUBSET Slots : T = start.kontexte
  BY StartsAssumption
<1>4. ToldKontexte(T) /\ ToldName(u) /\ ~Gone
  BY <1>1, <1>2, <1>3 DEF ToldKontexte, ToldName, Gone, At
<1>5. PICK D : D = LehrerAt(T)
  OBVIOUS
<1>6. D = DueAt(T) /\ D \subseteq Kennungen
  BY <1>4, <1>5 DEF DueAt, LehrerAt
<1>7. \A s \in Kennungen : members[s] = IF s \in D THEN {u} ELSE {}
  BY <1>1, <1>3, <1>5
<1>8. GroupsOf(u) = D
  BY <1>6, <1>7 DEF GroupsOf
<1>9. TasksFor(u, u, D)
  BY <1>2 DEF TasksFor
<1>10. EntryOf(u, D)
  BY <1>1, <1>2, <1>3, <1>4, <1>5, <1>7, <1>8 DEF EntryOf
<1>11. QED
  BY <1>3, <1>4, <1>6, <1>9, <1>10 DEF LdapInv

(* ... and means that entry and groups are right when nothing is in progress. *)
LEMMA LdapMeans == RepTyped /\ LdapInv /\ inOrder /\ ~Requested => LdapFollows
<1> SUFFICES ASSUME RepTyped, LdapInv, inOrder, ~Requested, observed = "ldap", ldapTasks = {} PROVE LdapFollows
  BY DEF LdapFollows
<1>1. PICK T \in SUBSET Slots, u \in Usernames, l \in Usernames :
        ToldKontexte(T) /\ ToldName(u) /\ TasksFor(l, u, DueAt(T)) /\ EntryOf(l, DueAt(T))
  BY DEF LdapInv
<1>2. T = kontexte /\ u = name
  BY <1>1 DEF ToldKontexte, ToldName, Requested, Idle
<1>3. Gone <=> ~present
  BY DEF Gone, At, Requested, Idle
<1>4. PICK D : D = DueAt(T)
  OBVIOUS
<1>5. D = LehrerAt(kontexte)
  <2>1. CASE present
    BY <2>1, <1>2, <1>3, <1>4 DEF DueAt
  <2>2. CASE ~present
    <3>1. kontexte = {}
      BY <2>2 DEF RepTyped, DatabaseTyped
    <3>2. QED
      BY <2>2, <3>1, <1>3, <1>4 DEF DueAt, LehrerAt
  <2>3. QED
    BY <2>1, <2>2
<1>6. /\ entries \subseteq {name} /\ \A s \in Kennungen : members[s] \subseteq {name}
      /\ \A s \in D \ leftOut : s \in GroupsOf(name)
      /\ \A s \in GroupsOf(name) : s \in D \union lingering
      /\ ~Gone /\ GroupsOf(name) # {} => name \in entries
      /\ Gone => name \notin entries
  BY <1>1, <1>2, <1>4, QuietEntry
<1>7. \A v \in used \ {name} : GroupsOf(v) = {}
  BY <1>6 DEF GroupsOf
<1>8. LehrerAt(kontexte) \ leftOut # {} => name \in entries
  <2>1. ASSUME NEW s \in D \ leftOut PROVE name \in entries
    <3>1. GroupsOf(name) # {}
      BY <2>1, <1>6
    <3>2. ~Gone
      BY <2>1, <1>4 DEF DueAt
    <3>3. QED
      BY <3>1, <3>2, <1>6
  <2>2. QED
    BY <2>1, <1>5
<1>9. entries \subseteq (IF present THEN {name} ELSE {})
  BY <1>3, <1>6
<1>10. QED
  BY <1>5, <1>6, <1>7, <1>8, <1>9 DEF LdapFollows

-----------------------------------------------------------------------------

(* Both invariants always hold. *)
LEMMA GroupsAlways == ReplicasSpec => [](RepTyped /\ KeycloakInv /\ LdapInv)
<1>1. RepTyped /\ Ordered /\ KeycloakInv /\ LdapInv /\ [ReplicasNext]_replicaVars
        => RepTyped' /\ Ordered' /\ KeycloakInv' /\ LdapInv'
  BY ReplicasNextTyped, OrderedNext, KeycloakNext, LdapNext
<1>2. QED
  BY <1>1, ReplicasInitTyped, OrderedInit, KeycloakInit, LdapInit, PTL DEF ReplicasSpec

(* The groups in Keycloak are those of the person's Rollen and a teacher's   *)
(* in LDAP those of the Schulen, under the name as it is, whenever updates   *)
(* and handlers that did not overlap or fail are done; the Kontexte, the     *)
(* groups of a Rolle and the calls in progress may be any number.            *)
THEOREM GroupsFollow == ReplicasSpec => []GroupsFollowRollen
<1>1. RepTyped /\ KeycloakInv /\ LdapInv => GroupsFollowRollen
  BY KeycloakMeans, LdapMeans DEF GroupsFollowRollen
<1>2. QED
  BY <1>1, GroupsAlways, PTL

-----------------------------------------------------------------------------
(* itslearning                                                             *)

(* The institution role and the Kontexte it is taken from. *)
RoleOf(ks) == InstitutionRole(HighestRollenart(Arten(ks), SYSADMIN))
ForItslearning(ks) == {k \in ks : k.rolle \in ItslearningRolle}

(* The Kontexte that itslearning is to have. *)
DueIn(T) == IF Gone THEN {} ELSE Relevant(T)

(* What a handler with Kontexte has written so far, in person p with        *)
(* memberships m, ...                                                       *)
Wrote(h, p, m) ==
  /\ h.at \in {"memberships", "remove", "create"} => p = [name |-> h.name, role |-> h.role]
  /\ h.at = "remove" => h.has = DOMAIN m
  /\ h.at = "create" => DOMAIN m \subseteq {k.orga : k \in h.kontexte} \union {Root} /\ Root \in h.has
  /\ h.at = "delete" <=> h.kontexte = {}

(* ... and when it is done. *)
Stored(h, p, m) ==
  IF h.kontexte = {} THEN p = NoPerson
  ELSE p = [name |-> h.name, role |-> h.role] /\ m = Target(h.kontexte, {Root})

(* The handler that holds the mutex, and one that waits for it. *)
HeadFits(h, p, m) ==
  /\ h.op = "updated" => Wrote(h, p, m)
  /\ h.op \in {"renamed", "email"} /\ h.at = "person" =>
       p # NoPerson /\ h.role = p.role /\ (h.op = "email" => h.name = p.name)

NotBegun(h) ==
  /\ h.op \in {"renamed", "email"} => h.at = "read"
  /\ h.op = "updated" => h.at = IF h.kontexte = {} THEN "delete" ELSE "person"

(* The handler at i is the last in the queue of its kinds; ... *)
LastOf(q, ops, i) == q[i].op \in ops /\ \A j \in 1..Len(q) : j > i => q[j].op \notin ops

(* ... there is none of these kinds. *)
NoneOf(q, ops) == \A i \in 1..Len(q) : q[i].op \notin ops

(* Person p with memberships m is as the relevant Kontexte R of T have it. *)
Right(p, m, R, T) ==
  IF R = {} THEN p = NoPerson
  ELSE p # NoPerson /\ p.role \in {RoleOf(R), RoleOf(ForItslearning(T))} /\ m = Target(R, {Root})

(* Once the handlers in q are done, the person is as R has it, under name   *)
(* u: the last of them that writes the memberships, or the name, writes     *)
(* these, and what nobody is going to write is right.                       *)
QueueFits(q, p, m, R, T, u) ==
  /\ \A i \in 1..Len(q) : i > 1 => NotBegun(q[i])
  /\ q # <<>> => HeadFits(q[1], p, m)
  /\ \A i \in 1..Len(q) : LastOf(q, {"updated"}, i) => q[i].kontexte = R /\ q[i].role = RoleOf(R)
  /\ \A i \in 1..Len(q) : LastOf(q, {"updated", "renamed"}, i) => q[i].name = u
  /\ NoneOf(q, {"updated"}) => Right(p, m, R, T)
  /\ NoneOf(q, {"updated", "renamed"}) /\ R # {} => p.name = u

(* What a synchronisation that is alone has read and written. *)
SyncFits(h) ==
  /\ h.at # "findPerson" => h.name = name
  /\ h.at \notin {"findPerson", "findKontexte"} =>
       h.kontexte = Relevant(kontexte) /\ h.role = RoleOf(ForItslearning(kontexte)) /\ Wrote(h, person, memberships)

(* The handlers that wait fit what was told last. *)
ToldFits ==
  \E T \in SUBSET Slots, u \in Usernames :
    ToldKontexte(T) /\ ToldName(u) /\ QueueFits(queue, person, memberships, DueIn(T), T, u)

(* A synchronisation that is alone writes what is due; without one, the queue does. *)
ItslearningInv ==
  observed = "itslearning" =>
    /\ \A s \in syncs : s.alone => present /\ SyncFits(s.handler)
    /\ inOrder => \A s \in syncs : s.alone
    /\ inOrder /\ syncs = {} => ToldFits

-----------------------------------------------------------------------------
(* The root group is among those that are due if it was read. *)
LEMMA RootIsDue ==
  ASSUME NEW ks, NEW has, Root \in has
  PROVE  Target(ks, has) = Target(ks, {Root})
<1>1. has \intersect {Root} = {Root} /\ {Root} \intersect {Root} = {Root}
  OBVIOUS
<1>2. QED
  BY <1>1, Zenon DEF Target

(* A handler with Kontexte writes person and memberships, call by call. *)
LEMMA KontexteServed ==
  ASSUME ItslearningTypeOK, PersonsInRoot, NEW h \in KontextHandlers, Wrote(h, person, memberships), Effect(h)
  PROVE  \E n : /\ n = After(h)
                /\ \/ n = Done /\ Stored(h, person', memberships')
                   \/ /\ n \in KontextHandlers /\ n # Done
                      /\ n.op = h.op /\ n.name = h.name /\ n.kontexte = h.kontexte /\ n.role = h.role
                      /\ Wrote(n, person', memberships')
<1>t. /\ h.op \in {"updated", "sync"} /\ h.at \in {"person", "memberships", "remove", "create", "delete"}
      /\ h.name \in Usernames /\ h.kontexte \subseteq Kontexte /\ h.role \in RolesOfPersons
  BY DEF KontextHandlers
<1>n. \A n \in KontextHandlers : n # Done
  BY DEF KontextHandlers, Done
<1>p. h.at \in {"memberships", "remove", "create"} => person # NoPerson /\ Root \in DOMAIN memberships
  <2>1. h.at \in {"memberships", "remove", "create"} => person = [name |-> h.name, role |-> h.role]
    BY DEF Wrote
  <2>2. [name |-> h.name, role |-> h.role] # NoPerson
    BY <1>t, ReplicasAssumption DEF NoPerson
  <2>3. QED
    BY <2>1, <2>2 DEF PersonsInRoot
<1>d. h.at = "delete" <=> h.kontexte = {}
  BY DEF Wrote
<1>o. DOMAIN memberships \subseteq Orgas \union {Root}
  BY DEF ItslearningTypeOK
<1>1. CASE h.at = "person"
  <2>1. After(h) = [h EXCEPT !.at = "memberships"]
    BY <1>1, <1>t DEF After
  <2>2. PICK n : n = [h EXCEPT !.at = "memberships"]
    OBVIOUS
  <2>3. n \in KontextHandlers /\ n.op = h.op /\ n.name = h.name /\ n.kontexte = h.kontexte /\ n.role = h.role /\ n.at = "memberships"
    BY <2>2 DEF KontextHandlers
  <2>4. person' = [name |-> h.name, role |-> h.role]
    BY <1>1 DEF Effect, StorePerson
  <2>5. Wrote(n, person', memberships')
    BY <2>3, <2>4, <1>1, <1>d DEF Wrote
  <2>6. QED
    BY <2>1, <2>2, <2>3, <2>5, <1>n
<1>2. CASE h.at = "memberships"
  <2>0. PICK has, at : has = DOMAIN memberships /\ at = IF DOMAIN memberships \subseteq {k.orga : k \in h.kontexte} \union {Root}
                                                       THEN "create" ELSE "remove"
    OBVIOUS
  <2>1. After(h) = [h EXCEPT !.has = has, !.at = at]
    BY <1>2, <1>t, <2>0 DEF After
  <2>2. PICK n : n = [h EXCEPT !.has = has, !.at = at]
    OBVIOUS
  <2>3. n \in KontextHandlers /\ n.op = h.op /\ n.name = h.name /\ n.kontexte = h.kontexte /\ n.role = h.role /\ n.at = at /\ n.has = has
    BY <2>0, <2>2, <1>o DEF KontextHandlers
  <2>4. UNCHANGED <<person, memberships>>
    BY <1>2 DEF Effect
  <2>5. Wrote(n, person', memberships')
    BY <2>0, <2>3, <2>4, <1>2, <1>d, <1>p DEF Wrote
  <2>6. QED
    BY <2>1, <2>2, <2>3, <2>5, <1>n
<1>3. CASE h.at = "remove"
  <2>1. After(h) = [h EXCEPT !.at = "create"]
    BY <1>3, <1>t DEF After
  <2>2. PICK n : n = [h EXCEPT !.at = "create"]
    OBVIOUS
  <2>3. n \in KontextHandlers /\ n.op = h.op /\ n.name = h.name /\ n.kontexte = h.kontexte /\ n.role = h.role /\ n.at = "create" /\ n.has = h.has
    BY <2>2 DEF KontextHandlers
  <2>4. h.has = DOMAIN memberships
    BY <1>3 DEF Wrote
  <2>5. UNCHANGED person /\ RemoveMemberships(h)
    BY <1>3 DEF Effect
  <2>6. DOMAIN Target(h.kontexte, h.has) = {k.orga : k \in h.kontexte} \union (h.has \intersect {Root})
    BY <1>t, TargetTyped
  <2>7. DOMAIN memberships' = {x \in DOMAIN memberships : x \in DOMAIN Target(h.kontexte, h.has) \/ x \notin h.has}
    BY <2>5, Zenon DEF RemoveMemberships
  <2>8. DOMAIN memberships' \subseteq {k.orga : k \in h.kontexte} \union {Root}
    BY <2>4, <2>6, <2>7
  <2>9. Wrote(n, person', memberships')
    BY <2>3, <2>4, <2>5, <2>8, <1>3, <1>d, <1>p DEF Wrote
  <2>10. QED
    BY <2>1, <2>2, <2>3, <2>9, <1>n
<1>4. CASE h.at = "create"
  <2>1. After(h) = Done
    BY <1>4, <1>t DEF After
  <2>2. UNCHANGED person /\ CreateMemberships(h)
    BY <1>4 DEF Effect
  <2>3. PICK target : target = Target(h.kontexte, h.has) /\ target = Target(h.kontexte, {Root})
    BY <1>4, RootIsDue DEF Wrote
  <2>4. DOMAIN target = {k.orga : k \in h.kontexte} \union {Root} /\ target \in [DOMAIN target -> RolesOfMembers]
    <3>1. DOMAIN target = {k.orga : k \in h.kontexte} \union ({Root} \intersect {Root}) /\ target \in [DOMAIN target -> RolesOfMembers]
      <4>1. PICK ks, root : ks = h.kontexte /\ root = {Root}
        OBVIOUS
      <4>2. target = Target(ks, root) /\ ks \subseteq Kontexte
        BY <4>1, <2>3, <1>t
      <4>3. DOMAIN target = {k.orga : k \in ks} \union (root \intersect {Root}) /\ target \in [DOMAIN target -> RolesOfMembers]
        BY <4>2, TargetTyped
      <4>4. QED
        BY <4>1, <4>3
    <3>2. QED
      BY <3>1
  <2>5. memberships' = [g \in DOMAIN memberships \union DOMAIN target |-> IF g \in DOMAIN target THEN target[g] ELSE memberships[g]]
    BY <2>2, <2>3, <1>4, <1>p, Zenon DEF CreateMemberships
  <2>6. DOMAIN memberships \union DOMAIN target = DOMAIN target
    BY <2>4, <1>4 DEF Wrote
  <2>7. memberships' = [g \in DOMAIN target |-> target[g]]
    BY <2>5, <2>6
  <2>8. memberships' = target
    BY <2>4, <2>7
  <2>9. person' = [name |-> h.name, role |-> h.role] /\ h.kontexte # {}
    BY <2>2, <1>4, <1>d DEF Wrote
  <2>10. QED
    BY <2>1, <2>3, <2>8, <2>9 DEF Stored
<1>5. CASE h.at = "delete"
  <2>1. After(h) = Done
    BY <1>5, <1>t DEF After
  <2>2. person' = NoPerson
    BY <1>5 DEF Effect, DeletePerson
  <2>3. QED
    BY <2>1, <2>2, <1>5, <1>d DEF Stored
<1>6. QED
  BY <1>t, <1>1, <1>2, <1>3, <1>4, <1>5

(* A handler with a name, or an address, writes back what it has read. *)
LEMMA NameServed ==
  ASSUME ItslearningTypeOK, NEW h \in NameHandlers, Named(h), HeadFits(h, person, memberships), Effect(h)
  PROVE  \E n : /\ n = After(h) /\ UNCHANGED memberships
                /\ \/ /\ n = Done /\ (person = NoPerson <=> person' = NoPerson)
                      /\ person # NoPerson => /\ person'.role = person.role
                                              /\ person'.name = IF h.op = "renamed" THEN h.name ELSE person.name
                   \/ /\ n # Done /\ UNCHANGED person
                      /\ n.op = h.op /\ (h.op = "renamed" => n.name = h.name) /\ HeadFits(n, person', memberships')
<1>t. h.op \in {"renamed", "email"} /\ h.at \in {"read", "person"}
  BY DEF NameHandlers
<1>1. CASE h.at = "read" /\ person = NoPerson
  <2>1. After(h) = Done
    BY <1>1, <1>t DEF After
  <2>2. UNCHANGED <<person, memberships>>
    BY <1>1 DEF Effect
  <2>3. QED
    BY <2>1, <2>2, <1>1
<1>2. CASE h.at = "read" /\ person # NoPerson
  <2>1. PICK new, role : new = (IF h.op = "email" THEN person.name ELSE h.name) /\ role = person.role
    OBVIOUS
  <2>2. PICK n : n = [h EXCEPT !.at = "person", !.role = role, !.name = new]
    OBVIOUS
  <2>3. n = After(h)
    BY <1>2, <2>1, <2>2, AfterRead, Zenon
  <2>4. n.op = h.op /\ n.at = "person" /\ n.role = role /\ n.name = new
    BY <2>2 DEF NameHandlers
  <2>5. UNCHANGED <<person, memberships>>
    BY <1>2 DEF Effect
  <2>6. n # Done
    BY <2>4 DEF Done
  <2>7. HeadFits(n, person', memberships')
    BY <2>1, <2>4, <2>5, <1>2, <1>t DEF HeadFits
  <2>8. QED
    BY <2>1, <2>3, <2>4, <2>5, <2>6, <2>7, <1>t
<1>3. CASE h.at = "person"
  <2>1. After(h) = Done
    BY <1>3, <1>t DEF After
  <2>2. person # NoPerson /\ h.role = person.role /\ (h.op = "email" => h.name = person.name)
    BY <1>3, <1>t DEF HeadFits
  <2>3. person' = [name |-> h.name, role |-> h.role] /\ memberships' = memberships
    BY <1>3, <2>2 DEF Effect, StorePerson
  <2>4. h.name \in Usernames
    BY <1>3 DEF Named
  <2>5. person' # NoPerson
    BY <2>3, <2>4, ReplicasAssumption DEF NoPerson
  <2>6. person'.role = person.role /\ person'.name = IF h.op = "renamed" THEN h.name ELSE person.name
    BY <2>2, <2>3, <1>t
  <2>7. QED
    BY <2>1, <2>2, <2>3, <2>5, <2>6
<1>4. QED
  BY <1>t, <1>1, <1>2, <1>3

-----------------------------------------------------------------------------
(* The queue: its head goes on, or leaves; a handler is added. *)
LEMMA NotBegunFits ==
  ASSUME NEW h \in Handlers, NotBegun(h), NEW p, NEW m
  PROVE  HeadFits(h, p, m)
<1>1. h.op = "updated" => Wrote(h, p, m)
  <2>1. CASE h.kontexte = {}
    BY <2>1 DEF NotBegun, Wrote
  <2>2. CASE h.kontexte # {}
    BY <2>2 DEF NotBegun, Wrote
  <2>3. QED
    BY <2>1, <2>2
<1>2. h.op \in {"renamed", "email"} => h.at # "person"
  BY DEF NotBegun
<1>3. QED
  BY <1>1, <1>2 DEF HeadFits

(* The queue when its head goes on, ... *)
LEMMA HeadGoesOn ==
  ASSUME NEW q \in Seq(Waiting), q # <<>>, NEW n, NEW r, r = <<n>> \o Tail(q)
  PROVE  /\ Len(r) = Len(q) /\ Len(q) \in Nat /\ Len(q) >= 1 /\ r # <<>> /\ r[1] = n
         /\ \A i \in 1..Len(q) : i > 1 => r[i] = q[i]
OBVIOUS

(* ... when its head is done, ... *)
LEMMA HeadLeaves ==
  ASSUME NEW q \in Seq(Waiting), q # <<>>, NEW r, r = <<>> \o Tail(q)
  PROVE  /\ Len(q) \in Nat /\ Len(r) \in Nat /\ Len(q) = Len(r) + 1 /\ (r # <<>> => Len(r) >= 1)
         /\ \A i \in 1..Len(r) : r[i] = q[i + 1]
OBVIOUS

(* ... and when another handler waits. *)
LEMMA OneMore ==
  ASSUME NEW q \in Seq(Waiting), NEW g \in Waiting, NEW r, r = q \o <<g>>
  PROVE  /\ Len(q) \in Nat /\ Len(r) = Len(q) + 1 /\ r # <<>> /\ r[Len(r)] = g
         /\ \A i \in 1..Len(q) : r[i] = q[i]
         /\ q = <<>> => Len(q) = 0
         /\ q # <<>> => Len(q) >= 1
OBVIOUS

(* A handler that goes on writes the same in the end. *)
LEMMA GoesOnFits ==
  ASSUME NEW q \in Seq(Waiting), q # <<>>, NEW p, NEW m, NEW R, NEW T, NEW u, QueueFits(q, p, m, R, T, u),
         NEW n, NEW r, r = <<n>> \o Tail(q), NEW p2, NEW m2, HeadFits(n, p2, m2),
         n.op = q[1].op, n.op \in {"updated", "renamed"} => n.name = q[1].name,
         n.op = "updated" => n.kontexte = q[1].kontexte /\ n.role = q[1].role,
         n.op # "updated" => p2 = p /\ m2 = m
  PROVE  QueueFits(r, p2, m2, R, T, u)
<1>1. /\ Len(r) = Len(q) /\ Len(q) \in Nat /\ Len(q) >= 1 /\ r # <<>> /\ r[1] = n
      /\ \A i \in 1..Len(q) : i > 1 => r[i] = q[i]
  BY HeadGoesOn
<1>2. \A i \in 1..Len(q) : r[i].op = q[i].op
  BY <1>1
<1>3. ASSUME NEW ops PROVE (NoneOf(r, ops) <=> NoneOf(q, ops)) /\ \A i \in 1..Len(q) : LastOf(r, ops, i) <=> LastOf(q, ops, i)
  BY <1>1, <1>2 DEF NoneOf, LastOf
<1>4. PICK U, W : U = {"updated"} /\ W = {"updated", "renamed"}
  OBVIOUS
<1>5. \A i \in 1..Len(r) : i > 1 => NotBegun(r[i])
  BY <1>1 DEF QueueFits
<1>6. \A i \in 1..Len(r) : LastOf(r, U, i) => r[i].kontexte = R /\ r[i].role = RoleOf(R)
  <2>1. \A i \in 1..Len(q) : LastOf(q, U, i) => q[i].kontexte = R /\ q[i].role = RoleOf(R) /\ q[i].op = "updated"
    BY <1>4 DEF QueueFits, LastOf
  <2>2. \A i \in 1..Len(q) : q[i].op = "updated" => r[i].kontexte = q[i].kontexte /\ r[i].role = q[i].role
    BY <1>1
  <2>3. QED
    BY <1>1, <1>3, <2>1, <2>2
<1>7. \A i \in 1..Len(r) : LastOf(r, W, i) => r[i].name = u
  <2>1. \A i \in 1..Len(q) : LastOf(q, W, i) => q[i].name = u /\ q[i].op \in {"updated", "renamed"}
    BY <1>4 DEF QueueFits, LastOf
  <2>2. \A i \in 1..Len(q) : q[i].op \in {"updated", "renamed"} => r[i].name = q[i].name
    BY <1>1
  <2>3. QED
    BY <1>1, <1>3, <2>1, <2>2
<1>8. NoneOf(r, U) => p2 = p /\ m2 = m /\ NoneOf(q, U)
  BY <1>1, <1>3, <1>4 DEF NoneOf
<1>9. NoneOf(r, W) => NoneOf(q, W) /\ NoneOf(r, U)
  BY <1>3, <1>4 DEF NoneOf
<1>10. NoneOf(r, U) => Right(p2, m2, R, T)
  BY <1>4, <1>8 DEF QueueFits
<1>11. NoneOf(r, W) /\ R # {} => p2.name = u
  BY <1>4, <1>8, <1>9 DEF QueueFits
<1>12. QED
  BY <1>1, <1>4, <1>5, <1>6, <1>7, <1>10, <1>11 DEF QueueFits

(* One that is done has written what was its to write. *)
LEMMA DoneFits ==
  ASSUME NEW q \in Seq(Waiting), q # <<>>, NEW p, NEW m, NEW R, NEW T, NEW u, QueueFits(q, p, m, R, T, u),
         NEW r, r = <<>> \o Tail(q), NEW p2, NEW m2, NEW h, h = q[1], h.op \in {"updated", "renamed", "email"},
         h.op = "updated" => Stored(h, p2, m2) /\ h.name \in Usernames,
         h.op # "updated" => /\ m2 = m /\ (p = NoPerson <=> p2 = NoPerson)
                             /\ p # NoPerson => p2.role = p.role /\ p2.name = IF h.op = "renamed" THEN h.name ELSE p.name
  PROVE  QueueFits(r, p2, m2, R, T, u)
<1>1. /\ Len(q) \in Nat /\ Len(r) \in Nat /\ Len(q) = Len(r) + 1 /\ (r # <<>> => Len(r) >= 1)
      /\ \A i \in 1..Len(r) : r[i] = q[i + 1]
  BY HeadLeaves
<1>2. ASSUME NEW i \in 1..Len(r) PROVE i + 1 \in 1..Len(q) /\ i + 1 > 1 /\ r[i] = q[i + 1]
  BY <1>1
<1>4. PICK U, W : U = {"updated"} /\ W = {"updated", "renamed"}
  OBVIOUS
<1>5. \A i \in 1..Len(r) : NotBegun(r[i])
  BY <1>2 DEF QueueFits
<1>6. r # <<>> => HeadFits(r[1], p2, m2)
  <2>1. SUFFICES ASSUME r # <<>> PROVE HeadFits(r[1], p2, m2)
    OBVIOUS
  <2>2. 1 \in 1..Len(r)
    BY <1>1, <2>1
  <2>3. r[1] \in Handlers
    BY <2>2, <1>2 DEF Waiting
  <2>4. QED
    BY <2>2, <2>3, <1>5, NotBegunFits
<1>7. ASSUME NEW ops, NEW i \in 1..Len(r), LastOf(r, ops, i) PROVE LastOf(q, ops, i + 1)
  <2>1. ASSUME NEW j \in 1..Len(q), j > i + 1 PROVE q[j].op \notin ops
    <3>1. j - 1 \in 1..Len(r) /\ j - 1 > i /\ (j - 1) + 1 = j
      BY <2>1, <1>1
    <3>2. r[j - 1].op \notin ops
      BY <3>1, <1>7 DEF LastOf
    <3>3. QED
      BY <3>1, <3>2, <1>2
  <2>2. QED
    BY <2>1, <1>2, <1>7 DEF LastOf
<1>8. \A i \in 1..Len(r) : LastOf(r, U, i) => r[i].kontexte = R /\ r[i].role = RoleOf(R)
  BY <1>2, <1>4, <1>7 DEF QueueFits
<1>9. \A i \in 1..Len(r) : LastOf(r, W, i) => r[i].name = u
  BY <1>2, <1>4, <1>7 DEF QueueFits
<1>10. ASSUME NEW ops, NoneOf(r, ops) PROVE IF h.op \in ops THEN LastOf(q, ops, 1) ELSE NoneOf(q, ops)
  <2>1. ASSUME NEW j \in 1..Len(q), j > 1 PROVE q[j].op \notin ops
    <3>1. j - 1 \in 1..Len(r) /\ (j - 1) + 1 = j
      BY <2>1, <1>1
    <3>2. r[j - 1].op \notin ops
      BY <3>1, <1>10 DEF NoneOf
    <3>3. QED
      BY <3>1, <3>2, <1>2
  <2>2. \A j \in 1..Len(q) : j = 1 \/ j > 1
    BY <1>1
  <2>3. QED
    BY <2>1, <2>2 DEF LastOf, NoneOf
<1>o. 1 \in 1..Len(q)
  BY <1>1
<1>11. NoneOf(r, U) => Right(p2, m2, R, T)
  <2>1. SUFFICES ASSUME NoneOf(r, U) PROVE Right(p2, m2, R, T)
    OBVIOUS
  <2>2. CASE h.op = "updated"
    <3>1. LastOf(q, U, 1)
      BY <2>1, <2>2, <1>4, <1>10
    <3>2. h.kontexte = R /\ h.role = RoleOf(R)
      BY <3>1, <1>4, <1>o DEF QueueFits
    <3>3. [name |-> h.name, role |-> h.role] # NoPerson
      BY <2>2, ReplicasAssumption DEF NoPerson
    <3>4. QED
      BY <2>2, <3>2, <3>3 DEF Stored, Right
  <2>3. CASE h.op # "updated"
    <3>1. NoneOf(q, U)
      BY <2>1, <2>3, <1>4, <1>10
    <3>2. Right(p, m, R, T)
      BY <3>1, <1>4 DEF QueueFits
    <3>3. QED
      BY <3>2, <2>3 DEF Right
  <2>4. QED
    BY <2>2, <2>3
<1>12. NoneOf(r, W) /\ R # {} => p2.name = u
  <2>1. SUFFICES ASSUME NoneOf(r, W), R # {} PROVE p2.name = u
    OBVIOUS
  <2>2. NoneOf(r, U)
    BY <2>1, <1>4 DEF NoneOf
  <2>3. CASE h.op = "updated"
    <3>1. LastOf(q, U, 1) /\ LastOf(q, W, 1)
      BY <2>1, <2>2, <2>3, <1>4, <1>10
    <3>2. h.kontexte = R /\ h.name = u
      BY <3>1, <1>4, <1>o DEF QueueFits
    <3>3. QED
      BY <2>1, <2>3, <3>2 DEF Stored
  <2>4. CASE h.op = "renamed"
    <3>1. NoneOf(q, U) /\ LastOf(q, W, 1)
      BY <2>1, <2>2, <2>4, <1>4, <1>10
    <3>2. p # NoPerson /\ h.name = u
      BY <2>1, <3>1, <1>4, <1>o DEF QueueFits, Right
    <3>3. QED
      BY <2>4, <3>2
  <2>5. CASE h.op = "email"
    <3>1. NoneOf(q, U) /\ NoneOf(q, W)
      BY <2>1, <2>2, <2>5, <1>4, <1>10
    <3>2. p # NoPerson /\ p.name = u
      BY <2>1, <3>1, <1>4 DEF QueueFits, Right
    <3>3. QED
      BY <2>5, <3>2
  <2>6. QED
    BY <2>3, <2>4, <2>5
<1>13. QED
  BY <1>4, <1>5, <1>6, <1>8, <1>9, <1>11, <1>12 DEF QueueFits

(* A handler that is added writes what is told now. *)
LEMMA AddedFits ==
  ASSUME NEW q \in Seq(Waiting), NEW p, NEW m, NEW R, NEW T, NEW u, QueueFits(q, p, m, R, T, u),
         NEW g \in Waiting, NotBegun(g), NEW r, r = q \o <<g>>, NEW S, NEW V, NEW v,
         g.op = "updated" => g.kontexte = S /\ g.role = RoleOf(S) /\ g.name = v,
         g.op # "updated" => S = R /\ V = T,
         g.op = "renamed" => g.name = v,
         g.op = "email" => v = u, g.op \in {"updated", "renamed", "email"}
  PROVE  QueueFits(r, p, m, S, V, v)
<1>1. /\ Len(q) \in Nat /\ Len(r) = Len(q) + 1 /\ r # <<>> /\ r[Len(r)] = g
      /\ \A i \in 1..Len(q) : r[i] = q[i]
      /\ q = <<>> => Len(q) = 0
      /\ q # <<>> => Len(q) >= 1
  BY OneMore
<1>2. \A i \in 1..Len(r) : i = Len(r) \/ i \in 1..Len(q)
  BY <1>1
<1>3. \A i \in 1..Len(q) : i \in 1..Len(r) /\ i < Len(r)
  BY <1>1
<1>o. Len(r) \in 1..Len(r)
  BY <1>1
<1>4. PICK U, W : U = {"updated"} /\ W = {"updated", "renamed"}
  OBVIOUS
<1>5. \A i \in 1..Len(r) : i > 1 => NotBegun(r[i])
  BY <1>1, <1>2 DEF QueueFits
<1>6. HeadFits(r[1], p, m)
  <2>1. CASE q = <<>>
    <3>1. r[1] = g /\ g \in Handlers
      BY <2>1, <1>1 DEF Waiting
    <3>2. QED
      BY <3>1, NotBegunFits
  <2>2. CASE q # <<>>
    <3>1. r[1] = q[1]
      BY <2>2, <1>1
    <3>2. QED
      BY <2>2, <3>1 DEF QueueFits
  <2>3. QED
    BY <2>1, <2>2
<1>7. ASSUME NEW ops, NEW i \in 1..Len(r), LastOf(r, ops, i)
      PROVE  IF g.op \in ops THEN i = Len(r) ELSE i \in 1..Len(q) /\ LastOf(q, ops, i)
  <2>1. CASE g.op \in ops
    <3>1. ~(Len(r) > i)
      BY <2>1, <1>1, <1>7, <1>o DEF LastOf
    <3>2. QED
      BY <2>1, <3>1, <1>1, <1>2, <1>3
  <2>2. CASE g.op \notin ops
    <3>1. i \in 1..Len(q)
      BY <2>2, <1>1, <1>2, <1>7 DEF LastOf
    <3>2. QED
      BY <2>2, <3>1, <1>1, <1>3, <1>7 DEF LastOf
  <2>3. QED
    BY <2>1, <2>2
<1>8. ASSUME NEW ops, NoneOf(r, ops) PROVE g.op \notin ops /\ NoneOf(q, ops)
  BY <1>1, <1>3, <1>8, <1>o DEF NoneOf
<1>9. \A i \in 1..Len(r) : LastOf(r, U, i) => r[i].kontexte = S /\ r[i].role = RoleOf(S)
  <2>1. SUFFICES ASSUME NEW i \in 1..Len(r), LastOf(r, U, i) PROVE r[i].kontexte = S /\ r[i].role = RoleOf(S)
    OBVIOUS
  <2>2. CASE g.op = "updated"
    BY <2>1, <2>2, <1>1, <1>4, <1>7
  <2>3. CASE g.op # "updated"
    <3>1. i \in 1..Len(q) /\ LastOf(q, U, i)
      BY <2>1, <2>3, <1>4, <1>7
    <3>2. QED
      BY <3>1, <2>3, <1>1, <1>4 DEF QueueFits
  <2>4. QED
    BY <2>2, <2>3
<1>10. \A i \in 1..Len(r) : LastOf(r, W, i) => r[i].name = v
  <2>1. SUFFICES ASSUME NEW i \in 1..Len(r), LastOf(r, W, i) PROVE r[i].name = v
    OBVIOUS
  <2>2. CASE g.op # "email"
    BY <2>1, <2>2, <1>1, <1>4, <1>7
  <2>3. CASE g.op = "email"
    <3>1. i \in 1..Len(q) /\ LastOf(q, W, i)
      BY <2>1, <2>3, <1>4, <1>7
    <3>2. QED
      BY <3>1, <2>3, <1>1, <1>4 DEF QueueFits
  <2>4. QED
    BY <2>2, <2>3
<1>11. NoneOf(r, U) => Right(p, m, S, V)
  <2>1. NoneOf(r, U) => NoneOf(q, U) /\ g.op # "updated"
    BY <1>4, <1>8
  <2>2. QED
    BY <2>1, <1>4 DEF QueueFits
<1>12. NoneOf(r, W) /\ S # {} => p.name = v
  <2>1. NoneOf(r, W) => NoneOf(q, W) /\ g.op = "email"
    BY <1>4, <1>8
  <2>2. QED
    BY <2>1, <1>4 DEF QueueFits
<1>13. QED
  BY <1>4, <1>5, <1>6, <1>9, <1>10, <1>11, <1>12 DEF QueueFits

-----------------------------------------------------------------------------
(* The handler at the head of the queue, without a failure. *)
LEMMA ServeFits ==
  ASSUME RepTyped, NEW R, NEW T, NEW u, QueueFits(queue, person, memberships, R, T, u), queue # <<>>,
         NEW h, h = Head(queue), Effect(h), queue' = Remaining(After(h)) \o Tail(queue)
  PROVE  QueueFits(queue', person', memberships', R, T, u)
<1>1. PICK q \in Seq(Waiting) : q = queue /\ q # <<>>
  BY DEF RepTyped, ItslearningTyped
<1>2. h = q[1] /\ h \in Waiting
  BY <1>1
<1>3. /\ h \in Handlers /\ Named(h) /\ h.op \in {"updated", "renamed", "email"}
      /\ h.op = "updated" => h \in KontextHandlers
      /\ h.op # "updated" => h \in NameHandlers
  <2>1. h \in Handlers /\ Named(h) /\ h.op # "sync"
    BY <1>2 DEF Waiting
  <2>2. QED
    BY <2>1, HandlerTyped
<1>4. PICK p, m : p = person /\ m = memberships
  OBVIOUS
<1>5. QueueFits(q, p, m, R, T, u) /\ HeadFits(h, p, m)
  <2>1. QueueFits(q, p, m, R, T, u)
    BY <1>1, <1>4
  <2>2. QED
    BY <2>1, <1>1, <1>2 DEF QueueFits
<1>6. PICK r, p2, m2 : r = queue' /\ p2 = person' /\ m2 = memberships'
  OBVIOUS
<1>7. PICK n : n = After(h)
  OBVIOUS
<1>8. r = IF n = Done THEN <<>> \o Tail(q) ELSE <<n>> \o Tail(q)
  BY <1>1, <1>6, <1>7 DEF Remaining
<1>i. ItslearningTypeOK /\ PersonsInRoot
  BY DEF RepTyped, ItslearningTyped
<1>9. CASE h.op = "updated"
  <2>1. h \in KontextHandlers /\ Wrote(h, person, memberships) /\ h.name \in Usernames
    BY <1>3, <1>4, <1>5, <1>9 DEF HeadFits, KontextHandlers
  <2>2. \/ n = Done /\ Stored(h, p2, m2)
        \/ /\ n # Done
           /\ n.op = h.op /\ n.name = h.name /\ n.kontexte = h.kontexte /\ n.role = h.role
           /\ Wrote(n, p2, m2)
    BY <2>1, <1>i, <1>6, <1>7, KontexteServed
  <2>3. CASE n = Done
    <3>1. r = <<>> \o Tail(q) /\ Stored(h, p2, m2)
      BY <2>2, <2>3, <1>8 DEF Done
    <3>2. QueueFits(r, p2, m2, R, T, u)
      BY <3>1, <2>1, <1>1, <1>2, <1>3, <1>5, <1>9, DoneFits
    <3>3. QED
      BY <3>2, <1>6
  <2>4. CASE n # Done
    <3>1. r = <<n>> \o Tail(q)
      BY <2>4, <1>8
    <3>2. n.op = "updated" /\ n.name = q[1].name /\ n.kontexte = q[1].kontexte /\ n.role = q[1].role /\ n.op = q[1].op
      BY <2>2, <2>4, <1>2, <1>9
    <3>3. HeadFits(n, p2, m2)
      BY <2>2, <2>4, <3>2 DEF HeadFits
    <3>4. QueueFits(r, p2, m2, R, T, u)
      BY <3>1, <3>2, <3>3, <1>1, <1>5, GoesOnFits
    <3>5. QED
      BY <3>4, <1>6
  <2>5. QED
    BY <2>3, <2>4
<1>10. CASE h.op # "updated"
  <2>1. h \in NameHandlers /\ HeadFits(h, person, memberships)
    BY <1>3, <1>4, <1>5, <1>10
  <2>2. /\ m2 = m
        /\ \/ /\ n = Done /\ (p = NoPerson <=> p2 = NoPerson)
              /\ p # NoPerson => /\ p2.role = p.role
                                 /\ p2.name = IF h.op = "renamed" THEN h.name ELSE p.name
           \/ /\ n # Done /\ p2 = p
              /\ n.op = h.op /\ (h.op = "renamed" => n.name = h.name) /\ HeadFits(n, p2, m2)
    BY <2>1, <1>i, <1>3, <1>4, <1>6, <1>7, NameServed
  <2>3. CASE n = Done
    <3>1. /\ r = <<>> \o Tail(q) /\ (p = NoPerson <=> p2 = NoPerson)
          /\ p # NoPerson => p2.role = p.role /\ p2.name = IF h.op = "renamed" THEN h.name ELSE p.name
      BY <2>2, <2>3, <1>8
    <3>2. QueueFits(r, p2, m2, R, T, u)
      BY <3>1, <2>2, <1>1, <1>2, <1>3, <1>5, <1>10, DoneFits
    <3>3. QED
      BY <3>2, <1>6
  <2>4. CASE n # Done
    <3>1. r = <<n>> \o Tail(q)
      BY <2>4, <1>8
    <3>2. n.op = q[1].op /\ n.op # "updated" /\ (n.op = "renamed" => n.name = q[1].name) /\ HeadFits(n, p2, m2) /\ p2 = p
      BY <2>2, <2>4, <1>2, <1>10
    <3>3. QueueFits(r, p2, m2, R, T, u)
      BY <3>1, <3>2, <2>2, <1>1, <1>5, GoesOnFits
    <3>4. QED
      BY <3>3, <1>6
  <2>5. QED
    BY <2>3, <2>4
<1>11. QED
  BY <1>9, <1>10

(* Handlers as they are published. *)
LEMMA PublishedFits ==
  ASSUME NEW v \in Usernames, NEW ks \in SUBSET Slots
  PROVE  /\ \E g \in Waiting : /\ g = KontexteUpdated(v, ks) /\ NotBegun(g) /\ g.op = "updated"
                               /\ g.kontexte = Relevant(ks) /\ g.role = RoleOf(Relevant(ks)) /\ g.name = v
         /\ \E g \in Waiting : g = Renamed(v) /\ NotBegun(g) /\ g.op = "renamed" /\ g.name = v
         /\ \E g \in Waiting : g = OxUserChanged /\ NotBegun(g) /\ g.op = "email"
<1>1. KontexteUpdated(v, ks) \in Waiting /\ Renamed(v) \in Waiting /\ OxUserChanged \in Waiting
  BY SlotsAreKontexte, PublishedTyped
<1>2. PICK g \in Waiting : g = KontexteUpdated(v, ks)
  BY <1>1
<1>3. PICK relevant, role : relevant = Relevant(ks) /\ role = RoleOf(relevant)
  OBVIOUS
<1>4. g = [op |-> "updated", at |-> IF relevant = {} THEN "delete" ELSE "person",
           name |-> v, role |-> role, kontexte |-> relevant, has |-> {}]
  BY <1>2, <1>3 DEF KontexteUpdated, Replication, RoleOf
<1>5. g.op = "updated" /\ g.kontexte = relevant /\ g.role = role /\ g.name = v /\ g.at = IF relevant = {} THEN "delete" ELSE "person"
  BY <1>4
<1>6. NotBegun(g)
  BY <1>5 DEF NotBegun
<1>7. PICK a \in Waiting, b \in Waiting : a = Renamed(v) /\ b = OxUserChanged
  BY <1>1
<1>8. NotBegun(a) /\ a.op = "renamed" /\ a.name = v /\ NotBegun(b) /\ b.op = "email"
  BY <1>7 DEF Renamed, OxUserChanged, NotBegun
<1>9. QED
  BY <1>2, <1>3, <1>5, <1>6, <1>7, <1>8

(* What is published waits in the queue. *)
LEMMA EnqueueFits ==
  ASSUME RepTyped, observed = "itslearning", NEW R, NEW T, NEW u, QueueFits(queue, person, memberships, R, T, u),
         NEW g \in Waiting, NotBegun(g), Enqueue(g), UNCHANGED <<person, memberships>>, NEW S, NEW V, NEW v,
         g.op = "updated" => g.kontexte = S /\ g.role = RoleOf(S) /\ g.name = v,
         g.op # "updated" => S = R /\ V = T,
         g.op = "renamed" => g.name = v,
         g.op = "email" => v = u, g.op \in {"updated", "renamed", "email"}
  PROVE  QueueFits(queue', person', memberships', S, V, v)
<1>1. PICK q \in Seq(Waiting) : q = queue
  BY DEF RepTyped, ItslearningTyped
<1>2. PICK p, m : p = person /\ m = memberships /\ p = person' /\ m = memberships'
  OBVIOUS
<1>3. PICK r : r = queue' /\ r = q \o <<g>>
  BY <1>1 DEF Enqueue
<1>4. QueueFits(q, p, m, R, T, u)
  BY <1>1, <1>2
<1>5. QueueFits(r, p, m, S, V, v)
  BY <1>3, <1>4, AddedFits
<1>6. QED
  BY <1>2, <1>3, <1>5

(* The queue fits an update as soon as it is published, ... *)
LEMMA UpdateIsTold ==
  ASSUME RepTyped, RepTyped', Ordered, ToldFits, observed = "itslearning", inOrder, NEW c \in Clients, PublishKontextUpdated(c)
  PROVE  ToldFits'
<1>1. req[c].op = "update" /\ req[c].at = "publish" /\ UNCHANGED database /\ EndRequest(c)
  BY DEF PublishKontextUpdated, At
<1>2. PICK T \in SUBSET Slots, u \in Usernames :
        ToldKontexte(T) /\ ToldName(u) /\ QueueFits(queue, person, memberships, DueIn(T), T, u)
  BY DEF ToldFits
<1>3. PICK r : r = req[c]
  OBVIOUS
<1>4. Fresh(r) /\ r \in Requests
  BY <1>1, <1>3 DEF Ordered, OneRequest, RepTyped
<1>5. r.current = kontexte /\ r.name = name /\ present
  BY <1>1, <1>3, <1>4 DEF Fresh, Idle
<1>q. req'[c] = Idle /\ \A d \in Clients \ {c} : req'[d] = req[d]
  BY <1>1, RequestGoesOn DEF RepTyped
<1>7. ~Gone /\ ~Gone'
  <2>1. ~Gone
    BY <1>1, <1>5 DEF Gone, Ordered, OneRequest, At, Idle
  <2>2. QED
    BY <1>1, <1>q, <2>1 DEF Gone, At, Idle, database
<1>8. u = name
  BY <1>1, <1>2 DEF ToldName, Ordered, OneRequest, Idle
<1>9. PICK ks \in SUBSET Slots : ks = kontexte /\ ks = kontexte'
  BY <1>1 DEF RepTyped, DatabaseTyped, database
<1>10. PICK g \in Waiting : /\ g = KontexteUpdated(u, ks) /\ NotBegun(g) /\ g.op = "updated"
                            /\ g.kontexte = Relevant(ks) /\ g.role = RoleOf(Relevant(ks)) /\ g.name = u
  BY PublishedFits
<1>11. Enqueue(g) /\ UNCHANGED <<person, memberships>>
  BY <1>3, <1>5, <1>8, <1>9, <1>10 DEF PublishKontextUpdated
<1>12. PICK R, S : R = DueIn(T) /\ S = Relevant(ks)
  OBVIOUS
<1>13. QueueFits(queue', person', memberships', S, ks, u)
  BY <1>2, <1>10, <1>11, <1>12, EnqueueFits
<1>14. S = DueIn(ks)'
  BY <1>7, <1>12 DEF DueIn
<1>15. ToldKontexte(ks)'
  BY <1>1, <1>9, ToldNow
<1>16. ToldName(u)'
  BY <1>1, <1>2, <1>q DEF ToldName, Idle, database
<1>17. QED
  BY <1>13, <1>14, <1>15, <1>16 DEF ToldFits

(* ... a renaming, ... *)
LEMMA RenameIsTold ==
  ASSUME RepTyped, RepTyped', Ordered, ToldFits, observed = "itslearning", inOrder, NEW c \in Clients, PublishRenamed(c)
  PROVE  ToldFits'
<1>1. req[c].op = "rename" /\ UNCHANGED <<database, person, memberships>> /\ EndRequest(c)
  BY DEF PublishRenamed, At
<1>2. PICK T \in SUBSET Slots, u \in Usernames :
        ToldKontexte(T) /\ ToldName(u) /\ QueueFits(queue, person, memberships, DueIn(T), T, u)
  BY DEF ToldFits
<1>3. PICK v \in Usernames : v = name
  BY DEF RepTyped, DatabaseTyped
<1>4. req[c].name = v
  BY <1>1, <1>2, <1>3 DEF ToldName
<1>q. req'[c] = Idle /\ \A d \in Clients \ {c} : req'[d] = req[d]
  BY <1>1, RequestGoesOn DEF RepTyped
<1>5. present
  BY <1>1 DEF Ordered, OneRequest, Fresh, Idle
<1>6. ~Gone /\ ~Gone'
  <2>1. ~Gone
    BY <1>1, <1>5 DEF Gone, Ordered, OneRequest, At, Idle
  <2>2. QED
    BY <1>1, <1>q, <2>1 DEF Gone, At, Idle, database
<1>7. PICK ks \in SUBSET Slots : ks = kontexte
  BY DEF RepTyped, DatabaseTyped
<1>8. PICK g \in Waiting : g = Renamed(v) /\ NotBegun(g) /\ g.op = "renamed" /\ g.name = v
  BY <1>7, PublishedFits
<1>9. Enqueue(g)
  BY <1>4, <1>8 DEF PublishRenamed
<1>10. PICK R : R = DueIn(T)
  OBVIOUS
<1>11. QueueFits(queue', person', memberships', R, T, v)
  BY <1>1, <1>2, <1>8, <1>9, <1>10, EnqueueFits
<1>12. R = DueIn(T)'
  BY <1>6, <1>10 DEF DueIn
<1>13. ToldName(v)'
  BY <1>1, <1>3, ToldNow
<1>14. ToldKontexte(T)'
  BY <1>1, <1>2, <1>q DEF ToldKontexte, Idle, database
<1>15. QED
  BY <1>11, <1>12, <1>13, <1>14 DEF ToldFits

(* ... a deletion, ... *)
LEMMA DeletionIsTold ==
  ASSUME RepTyped, RepTyped', Ordered, ToldFits, observed = "itslearning", inOrder, NEW c \in Clients, PublishDeleted(c)
  PROVE  ToldFits'
<1>1. req[c].op = "delete" /\ req[c].at = "publish" /\ UNCHANGED <<database, person, memberships>>
  BY DEF PublishDeleted, At
<1>2. PICK T \in SUBSET Slots, u \in Usernames :
        ToldKontexte(T) /\ ToldName(u) /\ QueueFits(queue, person, memberships, DueIn(T), T, u)
  BY DEF ToldFits
<1>3. present /\ req[c].name = name
  BY <1>1 DEF Ordered, OneRequest, Fresh, Idle
<1>4. u = name
  BY <1>1, <1>2 DEF ToldName, Ordered, OneRequest, Idle
<1>5. PICK r : req' = [req EXCEPT ![c] = r] /\ r.op = "delete" /\ r.at = "remove"
  BY DeletionGoesOn DEF RepTyped
<1>q. req'[c] = r /\ \A d \in Clients \ {c} : req'[d] = req[d]
  BY <1>5, RequestGoesOn DEF RepTyped
<1>6. Gone'
  BY <1>5, <1>q DEF Gone, At
<1>7. PICK none \in SUBSET Slots : none = {}
  OBVIOUS
<1>8. PICK g \in Waiting : /\ g = KontexteUpdated(u, none) /\ NotBegun(g) /\ g.op = "updated"
                           /\ g.kontexte = Relevant(none) /\ g.role = RoleOf(Relevant(none)) /\ g.name = u
  BY PublishedFits
<1>9. Relevant(none) = none
  BY <1>7 DEF Relevant
<1>10. Enqueue(g)
  BY <1>3, <1>4, <1>7, <1>8 DEF PublishDeleted
<1>11. PICK R : R = DueIn(T)
  OBVIOUS
<1>12. QueueFits(queue', person', memberships', none, T, u)
  BY <1>1, <1>2, <1>8, <1>9, <1>10, <1>11, EnqueueFits
<1>13. none = DueIn(T)'
  BY <1>6, <1>7 DEF DueIn
<1>14. ToldName(u)' /\ ToldKontexte(T)'
  BY <1>1, <1>2, <1>5, <1>q DEF ToldName, ToldKontexte, database
<1>15. QED
  BY <1>12, <1>13, <1>14 DEF ToldFits

(* ... and the removal of the row changes nothing that is due. *)
LEMMA RemovalIsTold ==
  ASSUME RepTyped, RepTyped', Ordered, ToldFits, observed = "itslearning", inOrder, NEW c \in Clients, RemovePerson(c)
  PROVE  ToldFits'
<1>1. req[c].op = "delete" /\ Gone /\ Gone' /\ UNCHANGED itslearningVars
  BY DEF RemovePerson, At, Gone
<1>2. PICK T \in SUBSET Slots, u \in Usernames :
        ToldKontexte(T) /\ ToldName(u) /\ QueueFits(queue, person, memberships, DueIn(T), T, u)
  BY DEF ToldFits
<1>3. PICK ks \in SUBSET Slots : ks = kontexte'
  BY DEF RepTyped, DatabaseTyped
<1>4. PICK none : none = {}
  OBVIOUS
<1>5. none = DueIn(T) /\ none = DueIn(ks)'
  BY <1>1, <1>4 DEF DueIn
<1>6. QueueFits(queue, person, memberships, none, ks, u)
  BY <1>2, <1>4, <1>5 DEF QueueFits, Right
<1>7. QueueFits(queue', person', memberships', none, ks, u)
  BY <1>1, <1>6 DEF itslearningVars
<1>8. ToldKontexte(ks)'
  BY <1>3, ToldNow
<1>9. ToldName(u)'
  <2>1. req'[c] = Idle /\ \A d \in Clients \ {c} : req'[d] = req[d]
    BY RequestGoesOn DEF RemovePerson, RepTyped
  <2>2. UNCHANGED <<name, used>>
    BY DEF RemovePerson
  <2>3. QED
    BY <1>1, <1>2, <2>1, <2>2 DEF ToldName, Idle
<1>10. QED
  BY <1>5, <1>7, <1>8, <1>9 DEF ToldFits

(* A step that tells nothing. *)
LEMMA NothingIsTold ==
  ASSUME RepTyped, RepTyped', Ordered, ToldFits, observed = "itslearning", inOrder, inOrder', ReplicasNext, ~StepSync,
         \A c \in Clients : /\ ~PublishKontextUpdated(c) /\ ~MigrationSaves(c) /\ ~RemovePerson(c)
                            /\ ~PublishRenamed(c) /\ ~PublishDeleted(c)
  PROVE  ToldFits'
<1>1. PICK T \in SUBSET Slots, u \in Usernames :
        ToldKontexte(T) /\ ToldName(u) /\ QueueFits(queue, person, memberships, DueIn(T), T, u)
  BY DEF ToldFits
<1>2. ToldKontexte(T)' /\ ToldName(u)'
  BY <1>1, ToldKept
<1>3. Gone' <=> Gone
  BY GoneKept
<1>4. PICK R : R = DueIn(T) /\ R = DueIn(T)'
  BY <1>3 DEF DueIn
<1>5. QueueFits(queue, person, memberships, R, T, u)
  BY <1>1, <1>4
<1>6. CASE ServeQueue
  <2>1. PICK h : h = Head(queue)
    OBVIOUS
  <2>2. queue # <<>> /\ Effect(h) /\ queue' = Remaining(After(h)) \o Tail(queue)
    BY <2>1, <1>6 DEF ServeQueue
  <2>3. QueueFits(queue', person', memberships', R, T, u)
    BY <2>1, <2>2, <1>5, ServeFits
  <2>4. QED
    BY <2>3, <1>2, <1>4 DEF ToldFits
<1>7. CASE \E c \in Clients : PublishOxUserChanged(c)
  <2>1. PICK v \in Usernames, ks \in SUBSET Slots : v = name /\ ks = kontexte
    BY DEF RepTyped, DatabaseTyped
  <2>2. PICK g \in Waiting : g = OxUserChanged /\ NotBegun(g) /\ g.op = "email"
    BY <2>1, PublishedFits
  <2>3. Enqueue(g) /\ UNCHANGED <<person, memberships>>
    BY <2>2, <1>7 DEF PublishOxUserChanged
  <2>4. QueueFits(queue', person', memberships', R, T, u)
    BY <2>2, <2>3, <1>5, EnqueueFits
  <2>5. QED
    BY <2>4, <1>2, <1>4 DEF ToldFits
<1>8. CASE ~ServeQueue /\ \A c \in Clients : ~PublishOxUserChanged(c)
  <2>1. UNCHANGED <<queue, person, memberships>>
    <3>1. \A c \in Clients : UpdateBegins(c) \/ MigrationBegins(c) \/ RenameBegins(c) \/ DeleteBegins(c)
            => UNCHANGED <<queue, person, memberships>>
      BY RequestBegins DEF Begin
    <3>2. \A c \in Clients : UpdateReads(c) \/ UpdateLoadsPerson(c) \/ SyncBegins(c) => UNCHANGED <<queue, person, memberships>>
      BY DEF UpdateReads, UpdateLoadsPerson, SyncBegins, itslearningVars
    <3>3. TokenRequest \/ StepGroups \/ StepTokens \/ StepLdap => UNCHANGED <<queue, person, memberships>>
      BY DEF TokenRequest, StepGroups, StepTokens, StepLdap, itslearningVars
    <3>4. QED
      BY <1>8, <3>1, <3>2, <3>3 DEF ReplicasNext
  <2>2. QueueFits(queue', person', memberships', R, T, u)
    BY <2>1, <1>5
  <2>3. QED
    BY <2>2, <1>2, <1>4 DEF ToldFits
<1>9. QED
  BY <1>6, <1>7, <1>8

-----------------------------------------------------------------------------
(* With nothing in the queue, the person is as it is to be. *)
LEMMA EmptyFits ==
  ASSUME NEW p, NEW m, NEW R, NEW T, NEW u
  PROVE  QueueFits(<<>>, p, m, R, T, u) <=> Right(p, m, R, T) /\ (R # {} => p.name = u)
<1>1. PICK q : q = <<>>
  OBVIOUS
<1>2. 1..Len(q) = {}
  BY <1>1
<1>3. NoneOf(q, {"updated"}) /\ NoneOf(q, {"updated", "renamed"})
  BY <1>2 DEF NoneOf
<1>4. QueueFits(q, p, m, R, T, u) <=> Right(p, m, R, T) /\ (R # {} => p.name = u)
  BY <1>1, <1>2, <1>3 DEF QueueFits
<1>5. QED
  BY <1>1, <1>4

(* A synchronisation reads person and Kontexte, ... *)
LEMMA SyncReadFits ==
  ASSUME RepTyped, NEW n, n = SyncRead(name, kontexte)
  PROVE  n # Done /\ SyncFits(n)
<1>1. PICK relevant, role : relevant = Relevant(kontexte) /\ role = RoleOf(ForItslearning(kontexte))
  OBVIOUS
<1>2. n = [op |-> "sync", at |-> IF relevant = {} THEN "delete" ELSE "person",
           name |-> name, role |-> role, kontexte |-> relevant, has |-> {}]
  BY <1>1 DEF SyncRead, Replication, RoleOf, ForItslearning
<1>3. n.op = "sync" /\ n.at = (IF relevant = {} THEN "delete" ELSE "person") /\ n.name = name /\ n.role = role /\ n.kontexte = relevant
  BY <1>2
<1>4. Wrote(n, person, memberships)
  <2>1. CASE relevant = {}
    BY <2>1, <1>3 DEF Wrote
  <2>2. CASE relevant # {}
    BY <2>2, <1>3 DEF Wrote
  <2>3. QED
    BY <2>1, <2>2
<1>5. QED
  BY <1>1, <1>3, <1>4 DEF SyncFits, Done

(* ... and writes them, alone. *)
LEMMA SyncAloneFits ==
  ASSUME RepTyped, RepTyped', Ordered, ItslearningInv, observed = "itslearning", NEW s \in syncs, s.alone,
         UNCHANGED <<database, req, observed, queue>>,
         SyncReadsPerson(s) \/ SyncReadsKontexte(s) \/ SyncWrites(s) \/ SyncFails(s)
  PROVE  ItslearningInv'
<1>1. s \in Syncs /\ ItslearningTypeOK /\ PersonsInRoot
  BY DEF RepTyped, ItslearningTyped
<1>2. syncs = {s} /\ ~Requested /\ queue = <<>>
  BY DEF Ordered, AloneSync
<1>3. present /\ SyncFits(s.handler)
  BY DEF ItslearningInv
<1>4. ~Gone /\ ~Gone'
  <2>1. ~Gone
    BY <1>2, <1>3 DEF Gone, Requested, At, Idle
  <2>2. QED
    BY <2>1 DEF Gone, At, database
<1>o. ASSUME NEW next, SyncOnward(s, next), next # Done => SyncFits(next)', next = Done => ToldFits'
      PROVE  ItslearningInv'
  <2>1. present' /\ observed' = observed
    BY <1>3 DEF database
  <2>2. CASE next = Done
    <3>1. syncs' = {}
      BY <2>2, <1>2, <1>o DEF SyncOnward
    <3>2. QED
      BY <3>1, <2>2, <1>o DEF ItslearningInv
  <2>3. CASE next # Done
    <3>1. PICK x : x = [s EXCEPT !.handler = next]
      OBVIOUS
    <3>2. x.handler = next /\ x.alone
      BY <3>1, <1>1, SyncKinds
    <3>3. syncs' = {x}
      BY <3>1, <2>3, <1>2, <1>o DEF SyncOnward
    <3>4. \A y \in syncs' : y.alone /\ SyncFits(y.handler)'
      <4>1. PICK nx : nx = next
        OBVIOUS
      <4>2. SyncFits(nx)'
        BY <4>1, <2>3, <1>o
      <4>3. \A y \in syncs' : y.alone /\ y.handler = nx
        BY <4>1, <3>2, <3>3
      <4>4. QED
        BY <4>2, <4>3
    <3>5. syncs' # {}
      BY <3>3
    <3>6. QED
      BY <3>4, <3>5, <2>1 DEF ItslearningInv
  <2>4. QED
    BY <2>2, <2>3
<1>5. CASE SyncReadsPerson(s)
  <2>1. PICK next : next = [op |-> "sync", at |-> "findKontexte", name |-> name]
    OBVIOUS
  <2>2. SyncOnward(s, next)
    BY <2>1, <1>3, <1>5 DEF SyncReadsPerson
  <2>3. next.at = "findKontexte" /\ next.name = name
    BY <2>1
  <2>4. next # Done /\ SyncFits(next)'
    BY <2>3 DEF Done, SyncFits, database
  <2>5. QED
    BY <2>2, <2>4, <1>o
<1>6. CASE SyncReadsKontexte(s)
  <2>1. s.handler.name = name
    BY <1>3, <1>6 DEF SyncReadsKontexte, SyncFits
  <2>2. PICK next : next = SyncRead(name, kontexte)
    OBVIOUS
  <2>3. SyncOnward(s, next) /\ UNCHANGED <<person, memberships>>
    BY <2>1, <2>2, <1>6 DEF SyncReadsKontexte
  <2>4. next # Done /\ SyncFits(next)
    BY <2>2, SyncReadFits
  <2>5. SyncFits(next)'
    BY <2>3, <2>4 DEF SyncFits, database
  <2>6. QED
    BY <2>3, <2>4, <2>5, <1>o
<1>7. CASE SyncWrites(s)
  <2>1. PICK h : h = s.handler
    OBVIOUS
  <2>2. h.at \notin {"findPerson", "findKontexte"} /\ Effect(h) /\ SyncOnward(s, After(h))
    BY <2>1, <1>7 DEF SyncWrites
  <2>3. h \in KontextHandlers
    BY <2>1, <2>2, <1>1, SyncKinds
  <2>4. h.name = name /\ h.kontexte = Relevant(kontexte) /\ h.role = RoleOf(ForItslearning(kontexte)) /\ Wrote(h, person, memberships)
    BY <2>1, <2>2, <1>3 DEF SyncFits
  <2>5. PICK n : /\ n = After(h)
                 /\ \/ n = Done /\ Stored(h, person', memberships')
                    \/ /\ n \in KontextHandlers /\ n # Done
                       /\ n.op = h.op /\ n.name = h.name /\ n.kontexte = h.kontexte /\ n.role = h.role
                       /\ Wrote(n, person', memberships')
    BY <2>2, <2>3, <2>4, <1>1, KontexteServed
  <2>6. CASE n # Done
    <3>1. SyncFits(n)'
      BY <2>4, <2>5, <2>6 DEF SyncFits, database
    <3>2. QED
      BY <3>1, <2>2, <2>5, <2>6, <1>o
  <2>7. CASE n = Done
    <3>0. Stored(h, person', memberships')
      BY <2>5, <2>7
    <3>1. PICK T \in SUBSET Slots, u \in Usernames : T = kontexte /\ u = name /\ T = kontexte' /\ u = name'
      BY DEF RepTyped, DatabaseTyped, database
    <3>2. PICK R, p, m : R = Relevant(T) /\ p = person' /\ m = memberships'
      OBVIOUS
    <3>3. h.kontexte = R /\ h.name = u /\ h.role = RoleOf(ForItslearning(T)) /\ h.name \in Usernames
      BY <2>4, <3>1, <3>2
    <3>4. Stored(h, p, m)
      BY <3>0, <3>2
    <3>5. [name |-> h.name, role |-> h.role] # NoPerson
      BY <3>3, ReplicasAssumption DEF NoPerson
    <3>6. Right(p, m, R, T) /\ (R # {} => p.name = u)
      BY <3>3, <3>4, <3>5 DEF Stored, Right
    <3>7. QueueFits(<<>>, p, m, R, T, u)
      BY <3>6, EmptyFits
    <3>8. QueueFits(queue', person', memberships', R, T, u)
      BY <3>2, <3>7, <1>2
    <3>9. R = DueIn(T)'
      BY <3>2, <1>4 DEF DueIn
    <3>10. \A c \in Clients : req'[c] = Idle
      BY <1>2 DEF Requested
    <3>11. ToldKontexte(T)' /\ ToldName(u)'
      <4>1. u \in used'
        BY <3>1 DEF RepTyped, DatabaseTyped
      <4>2. QED
        BY <4>1, <3>1, <3>10 DEF ToldKontexte, ToldName, Idle
    <3>12. ToldFits'
      BY <3>8, <3>9, <3>11 DEF ToldFits
    <3>13. QED
      BY <3>12, <2>2, <2>5, <2>7, <1>o
  <2>8. QED
    BY <2>6, <2>7
<1>8. CASE SyncFails(s)
  <2>1. PICK next : syncs' = (syncs \ {s}) \union (IF next = Done THEN {} ELSE {[s EXCEPT !.handler = next, !.alone = FALSE]})
    BY <1>8 DEF SyncFails
  <2>2. PICK x : x = [s EXCEPT !.handler = next, !.alone = FALSE]
    OBVIOUS
  <2>3. ~x.alone
    BY <2>2, <1>1, SyncKinds
  <2>4. \A y \in syncs' : ~y.alone
    BY <2>1, <2>2, <2>3, <1>2
  <2>5. ~inOrder'
    BY <1>8 DEF SyncFails
  <2>6. QED
    BY <2>4, <2>5 DEF ItslearningInv
<1>9. QED
  BY <1>5, <1>6, <1>7, <1>8

(* A synchronisation goes on, and writes what is due when it is done. *)
LEMMA SyncStepFits ==
  ASSUME RepTyped, RepTyped', Ordered, ItslearningInv, observed = "itslearning", StepSync
  PROVE  ItslearningInv'
<1>1. PICK s \in syncs : SyncReadsPerson(s) \/ SyncReadsKontexte(s) \/ SyncWrites(s) \/ SyncFails(s)
  BY DEF StepSync
<1>2. UNCHANGED <<database, req, observed, queue>> /\ s \in Syncs
  BY DEF StepSync, RepTyped, ItslearningTyped
<1>3. CASE s.alone
  BY <1>1, <1>2, <1>3, SyncAloneFits
<1>4. CASE ~s.alone
  <2>1. ~inOrder
    BY <1>4 DEF ItslearningInv
  <2>2. \A x \in syncs : ~x.alone
    BY <1>4 DEF Ordered, AloneSync
  <2>3. ASSUME NEW next, SyncOnward(s, next) PROVE ~inOrder' /\ \A x \in syncs' : ~x.alone
    <3>1. ~inOrder'
      BY <2>1, <2>3, <1>4 DEF SyncOnward
    <3>2. PICK n : n = [s EXCEPT !.handler = next]
      OBVIOUS
    <3>3. ~n.alone
      BY <3>2, <1>2, <1>4, SyncKinds
    <3>4. \A x \in syncs' : x \in syncs \/ x = n
      BY <2>3, <3>2 DEF SyncOnward
    <3>5. QED
      BY <3>1, <3>3, <3>4, <2>2
  <2>4. ~inOrder' /\ \A x \in syncs' : ~x.alone
    <3>1. CASE SyncFails(s)
      <4>1. PICK next : syncs' = (syncs \ {s}) \union (IF next = Done THEN {} ELSE {[s EXCEPT !.handler = next, !.alone = FALSE]})
        BY <3>1 DEF SyncFails
      <4>2. PICK x : x = [s EXCEPT !.handler = next, !.alone = FALSE]
        OBVIOUS
      <4>3. ~x.alone
        BY <4>2, <1>2, SyncKinds
      <4>4. QED
        BY <4>1, <4>2, <4>3, <3>1, <2>2 DEF SyncFails
    <3>2. CASE SyncReadsPerson(s) \/ SyncReadsKontexte(s) \/ SyncWrites(s)
      BY <3>2, <2>3 DEF SyncReadsPerson, SyncReadsKontexte, SyncWrites
    <3>3. QED
      BY <1>1, <3>1, <3>2
  <2>5. QED
    BY <2>4 DEF ItslearningInv
<1>5. QED
  BY <1>3, <1>4

(* Each step keeps the invariant, ... *)
LEMMA ItslearningNext == RepTyped /\ Ordered /\ ItslearningInv /\ [ReplicasNext]_replicaVars => ItslearningInv'
<1> SUFFICES ASSUME RepTyped, Ordered, ItslearningInv, [ReplicasNext]_replicaVars, observed' = "itslearning" PROVE ItslearningInv'
  BY DEF ItslearningInv
<1>s. observed = "itslearning" /\ OnlyShown /\ AloneSync /\ RepTyped' /\ syncs \subseteq Syncs
  BY OnlyShownNext, ReplicasNextTyped DEF Ordered, RepTyped, ItslearningTyped
<1>1. CASE UNCHANGED replicaVars
  <2>1. UNCHANGED <<database, req, history, itslearningVars>>
    BY <1>1 DEF replicaVars
  <2>2. ToldFits => ToldFits'
    <3>1. SUFFICES ASSUME NEW T \in SUBSET Slots, NEW u \in Usernames,
                          ToldKontexte(T), ToldName(u), QueueFits(queue, person, memberships, DueIn(T), T, u)
                   PROVE  ToldFits'
      BY DEF ToldFits
    <3>2. ToldKontexte(T)' /\ ToldName(u)' /\ (Gone' <=> Gone)
      BY <2>1, <3>1 DEF ToldKontexte, ToldName, Gone, At, database
    <3>3. PICK R : R = DueIn(T) /\ R = DueIn(T)'
      BY <3>2 DEF DueIn
    <3>4. QueueFits(queue', person', memberships', R, T, u)
      BY <2>1, <3>1, <3>3 DEF itslearningVars
    <3>5. QED
      BY <3>2, <3>3, <3>4 DEF ToldFits
  <2>3. \A h : SyncFits(h) => SyncFits(h)'
    BY <2>1 DEF SyncFits, database, itslearningVars
  <2>4. QED
    BY <2>1, <2>2, <2>3, <1>s DEF ItslearningInv, database, history, itslearningVars
<1>2. CASE ReplicasNext
  <2>p. CASE StepSync
    BY <2>p, <1>s, SyncStepFits
  <2>q. CASE ~StepSync
    <3>o. inOrder' => inOrder
      BY <2>q, <1>2, <1>s, OrderKept
    <3>n. inOrder' /\ syncs = {} => ToldFits'
      <4>1. SUFFICES ASSUME inOrder', syncs = {} PROVE ToldFits'
        OBVIOUS
      <4>2. inOrder /\ ToldFits
        BY <4>1, <3>o, <1>s DEF ItslearningInv
      <4>3. \A c \in Clients : ~MigrationSaves(c)
        BY <1>s DEF MigrationSaves, At, OnlyShown
      <4>4. CASE \A c \in Clients : ~PublishKontextUpdated(c) /\ ~RemovePerson(c) /\ ~PublishRenamed(c) /\ ~PublishDeleted(c)
        BY <4>1, <4>2, <4>3, <4>4, <2>q, <1>2, <1>s, NothingIsTold
      <4>5. QED
        BY <4>2, <4>4, <1>s, UpdateIsTold, RenameIsTold, DeletionIsTold, RemovalIsTold
    <3>a. ASSUME UNCHANGED syncs, \A s \in syncs : ~s.alone PROVE ItslearningInv'
      BY <3>a, <3>o, <3>n, <1>s DEF ItslearningInv
    <3>1. CASE \E c \in Clients : UpdateBegins(c) \/ MigrationBegins(c) \/ RenameBegins(c) \/ DeleteBegins(c) \/ PublishOxUserChanged(c)
      <4>1. syncs' = {[s EXCEPT !.alone = FALSE] : s \in syncs} /\ (inOrder' => syncs = {})
        <5>1. \A c \in Clients : UpdateBegins(c) \/ MigrationBegins(c) \/ RenameBegins(c) \/ DeleteBegins(c)
                => syncs' = {[s EXCEPT !.alone = FALSE] : s \in syncs} /\ (inOrder' => syncs = {})
          BY <1>s, RequestBegins DEF Begin
        <5>2. \A c \in Clients : PublishOxUserChanged(c) => syncs' = {[s EXCEPT !.alone = FALSE] : s \in syncs} /\ (inOrder' => syncs = {})
          BY DEF PublishOxUserChanged
        <5>3. QED
          BY <3>1, <5>1, <5>2
      <4>2. \A x \in syncs' : ~x.alone
        BY <4>1, <1>s, NoneAlone
      <4>3. inOrder' => syncs' = {} /\ ToldFits'
        BY <4>1, <3>n
      <4>4. QED
        BY <4>2, <4>3 DEF ItslearningInv
    <3>2. CASE \E c \in Clients : SyncBegins(c)
      <4>1. PICK b : b = (~Requested /\ ItslearningQuiet)
        OBVIOUS
      <4>2. PICK n : n = [id |-> requests, alone |-> b, handler |-> [op |-> "sync", at |-> "findPerson"]]
        OBVIOUS
      <4>3. /\ syncs' = {[s EXCEPT !.alone = FALSE] : s \in syncs} \union {n}
            /\ present' /\ inOrder' = (inOrder /\ ~Requested /\ ItslearningQuiet)
        BY <3>2, <4>1, <4>2 DEF SyncBegins, database
      <4>4. n.alone = b /\ n.handler.at = "findPerson"
        BY <4>2
      <4>5. \A x \in syncs' : x = n \/ ~x.alone
        BY <4>3, <1>s, NoneAlone
      <4>6. SyncFits(n.handler)'
        BY <4>4 DEF SyncFits
      <4>7. inOrder' => syncs = {} /\ b
        BY <4>1, <4>3 DEF ItslearningQuiet
      <4>8. inOrder' => \A x \in syncs' : x.alone
        BY <4>3, <4>4, <4>7
      <4>9. \A x \in syncs' : x.alone => present' /\ SyncFits(x.handler)'
        BY <4>3, <4>5, <4>6
      <4>10. syncs' # {}
        BY <4>3
      <4>11. QED
        BY <4>8, <4>9, <4>10 DEF ItslearningInv
    <3>3. CASE \E c \in Clients : \/ UpdateReads(c) \/ UpdateLoadsPerson(c) \/ PublishKontextUpdated(c) \/ MigrationSaves(c)
                                  \/ PublishRenamed(c) \/ PublishDeleted(c) \/ RemovePerson(c)
      <4>1. PICK c \in Clients : \/ UpdateReads(c) \/ UpdateLoadsPerson(c) \/ PublishKontextUpdated(c) \/ MigrationSaves(c)
                                 \/ PublishRenamed(c) \/ PublishDeleted(c) \/ RemovePerson(c)
        BY <3>3
      <4>2. req[c].op \in {"update", "migration", "rename", "delete"} /\ UNCHANGED syncs
        BY <4>1 DEF UpdateReads, UpdateLoadsPerson, PublishKontextUpdated, MigrationSaves, PublishRenamed, PublishDeleted, RemovePerson,
                    At, itslearningVars
      <4>3. Requested
        BY <4>2 DEF Requested, Idle
      <4>4. \A s \in syncs : ~s.alone
        BY <4>3, <1>s DEF AloneSync
      <4>5. QED
        BY <4>2, <4>4, <3>a
    <3>4. CASE ServeQueue
      <4>1. queue # <<>> /\ UNCHANGED syncs
        BY <3>4 DEF ServeQueue
      <4>2. \A s \in syncs : ~s.alone
        BY <4>1, <1>s DEF AloneSync
      <4>3. QED
        BY <4>1, <4>2, <3>a
    <3>5. CASE TokenRequest \/ StepGroups \/ StepTokens \/ StepLdap
      BY <3>5, <1>s DEF TokenRequest, StepGroups, StepTokens, StepLdap, OnlyShown
    <3>6. QED
      BY <1>2, <2>q, <3>1, <3>2, <3>3, <3>4, <3>5 DEF ReplicasNext
  <2>r. QED
    BY <2>p, <2>q
<1>3. QED
  BY <1>1, <1>2

(* ... which holds at first, ... *)
LEMMA ItslearningInit == ReplicasInit => ItslearningInv
<1> SUFFICES ASSUME ReplicasInit PROVE ItslearningInv
  OBVIOUS
<1>1. PICK start \in Starts, u \in Usernames :
        /\ kontexte = start.kontexte /\ name = u /\ used = {u}
        /\ LET relevant == Relevant(start.kontexte) IN
           /\ person = IF relevant = {} THEN NoPerson
                       ELSE [name |-> u, role |-> InstitutionRole(HighestRollenart(Arten(relevant), SYSADMIN))]
           /\ memberships = IF relevant = {} THEN NoMemberships ELSE Target(relevant, {Root})
  BY DEF ReplicasInit
<1>2. present /\ queue = <<>> /\ syncs = {} /\ \A c \in Clients : req[c].op = "none"
  BY DEF ReplicasInit, Idle
<1>3. PICK T \in SUBSET Slots : T = start.kontexte
  BY StartsAssumption
<1>4. ToldKontexte(T) /\ ToldName(u) /\ ~Gone
  BY <1>1, <1>2, <1>3 DEF ToldKontexte, ToldName, Gone, At
<1>5. PICK R : R = Relevant(T) /\ R = DueIn(T)
  BY <1>4 DEF DueIn
<1>6. /\ person = IF R = {} THEN NoPerson ELSE [name |-> u, role |-> RoleOf(R)]
      /\ memberships = IF R = {} THEN NoMemberships ELSE Target(R, {Root})
  BY <1>1, <1>3, <1>5 DEF RoleOf
<1>7. [name |-> u, role |-> RoleOf(R)] # NoPerson
  BY ReplicasAssumption DEF NoPerson
<1>8. Right(person, memberships, R, T) /\ (R # {} => person.name = u)
  BY <1>6, <1>7 DEF Right
<1>9. QueueFits(<<>>, person, memberships, R, T, u)
  BY <1>8, EmptyFits
<1>10. ToldFits
  BY <1>2, <1>4, <1>5, <1>9 DEF ToldFits
<1>11. QED
  BY <1>2, <1>10 DEF ItslearningInv

(* ... means that itslearning is right when nothing is in progress, ... *)
LEMMA ItslearningMeans == RepTyped /\ ItslearningInv => ItslearningFollows
<1> SUFFICES ASSUME RepTyped, ItslearningInv, observed = "itslearning", ~Requested, ItslearningQuiet, inOrder
             PROVE  ItslearningFollows
  BY DEF ItslearningFollows
<1>1. queue = <<>> /\ syncs = {}
  BY DEF ItslearningQuiet
<1>2. PICK T \in SUBSET Slots, u \in Usernames :
        ToldKontexte(T) /\ ToldName(u) /\ QueueFits(<<>>, person, memberships, DueIn(T), T, u)
  BY <1>1 DEF ItslearningInv, ToldFits
<1>3. T = kontexte /\ u = name
  BY <1>2 DEF ToldKontexte, ToldName, Requested, Idle
<1>4. PICK R : R = DueIn(T)
  OBVIOUS
<1>5. R = Relevant(kontexte)
  <2>1. CASE present
    BY <2>1, <1>3, <1>4 DEF DueIn, Gone, Requested, At, Idle
  <2>2. CASE ~present
    <3>1. kontexte = {}
      BY <2>2 DEF RepTyped, DatabaseTyped
    <3>2. QED
      BY <2>2, <3>1, <1>4 DEF DueIn, Gone, Relevant
  <2>3. QED
    BY <2>1, <2>2
<1>6. Right(person, memberships, R, T) /\ (R # {} => person.name = u)
  BY <1>2, <1>4, EmptyFits
<1>7. PICK other : other = {k \in kontexte : k.rolle \in ItslearningRolle}
  OBVIOUS
<1>8. R # {} => person.role \in {InstitutionRole(HighestRollenart(Arten(ks), SYSADMIN)) : ks \in {R, other}}
  BY <1>3, <1>6, <1>7 DEF Right, RoleOf, ForItslearning
<1>9. QED
  BY <1>3, <1>5, <1>6, <1>7, <1>8 DEF ItslearningFollows, Right

(* ... and always holds. *)
LEMMA ItslearningAlways == ReplicasSpec => [](RepTyped /\ ItslearningInv)
<1>1. RepTyped /\ Ordered /\ ItslearningInv /\ [ReplicasNext]_replicaVars => RepTyped' /\ Ordered' /\ ItslearningInv'
  BY ReplicasNextTyped, OrderedNext, ItslearningNext
<1>2. QED
  BY <1>1, ReplicasInitTyped, OrderedInit, ItslearningInit, PTL DEF ReplicasSpec

(* itslearning has the person, the name and the memberships that follow from *)
(* the database, for any number of handlers that wait for the mutex, and     *)
(* also after failures and overlapping requests, once a synchronisation that *)
(* nothing has overlapped is done.                                           *)
THEOREM ItslearningIsRight == ReplicasSpec => []ItslearningFollows
BY ItslearningAlways, ItslearningMeans, PTL

-----------------------------------------------------------------------------
(* User locks                                                              *)

USE LockAssumption

(* The groups of steps and variables, and a step of a task.                *)
USE DEF vars, AtRest, LockSteps, UnlockSteps, Go

Of(x) == {t \in Tasks : t.person = x}

-----------------------------------------------------------------------------
(* The invariant                                                           *)

(* Ids are not used again, so that the row a task has found is still one of *)
(* its person, if it is there.                                              *)
IdInv ==
  /\ \A l \in locks : l.id <= inserted
  /\ \A l, m \in locks : l.id = m.id => l = m
  /\ \A t \in Tasks : pc[t] = "write" =>
       picked[t] <= inserted /\ \A l \in locks : l.id = picked[t] => l.person = t.person

(* A request that locks is alone with its person.                           *)
Alone(x) ==
  \A t, u \in Of(x) : pc[t] \in LockSteps /\ pc[u] \notin AtRest => t = u

(* Table and Keycloak differ only while somebody is about to change the     *)
(* latter, who knows what the table holds.                                  *)
LocksAgree(x) ==
  /\ enabled[x] /\ LocksOf(x) # {} => \E t \in Of(x) : pc[t] = "disable"
  /\ ~enabled[x] /\ LocksOf(x) = {} => \E t \in Of(x) : pc[t] \in {"remaining", "enable"}
  /\ \A t \in Of(x) :
       /\ pc[t] = "write" => \E l \in LocksOf(x) : l.id = picked[t]
       /\ pc[t] = "disable" => LocksOf(x) # {}
       /\ pc[t] = "enable" => LocksOf(x) = {}

(* Only who has no Personalnummer is being locked for want of one, and the  *)
(* lock is gone before the number is saved.                                 *)
NummerAgrees(x) ==
  /\ Has(x, "KOPERS_GESPERRT") => overdue[x]
  /\ \A t \in Of(x) :
       /\ t.occasion = "KOPERS_GESPERRT" /\ pc[t] \in LockSteps => overdue[x]
       /\ pc[t] \in {"locks", "save"} => t.job = "nummer"
       /\ t.job = "nummer" /\ pc[t] \in {"remaining", "enable", "save"} => ~Has(x, "KOPERS_GESPERRT")

Agrees(x) == Alone(x) /\ LocksAgree(x) /\ NummerAgrees(x)

LockInv ==
  /\ IdInv
  /\ faults = 0 => \A x \in Persons \ crossed : Agrees(x)

-----------------------------------------------------------------------------
(* Type correctness                                                        *)

(* The initial tables are well typed. *)
LEMMA InitTyped == Init => TypeOK
<1> SUFFICES ASSUME Init PROVE TypeOK
  OBVIOUS
<1>1. enabled \in [Persons -> BOOLEAN] /\ overdue \in [Persons -> BOOLEAN]
  BY DEF Init
<1> QED
  BY <1>1 DEF Init, TypeOK, Befristungen

(* Every task has a person and one of the two occasions.                    *)
LEMMA TaskType ==
  ASSUME NEW t \in Tasks
  PROVE  t.person \in Persons /\ t.occasion \in PersonLockOccasion
BY DEF Tasks, PersonLockOccasion

(* Every action keeps the types.                                            *)
LEMMA NextTyped == TypeOK /\ [Next]_vars => TypeOK'
<1> SUFFICES ASSUME TypeOK, [Next]_vars PROVE TypeOK'
  OBVIOUS
<1>1. ASSUME NEW t \in Tasks, AdminBegins(t) PROVE TypeOK'
  BY <1>1 DEF AdminBegins, Begins, TypeOK, Befristungen
<1>2. CASE KopersLock
  BY <1>2 DEF KopersLock, Begins, TypeOK
<1>3. CASE UnlockExpired
  BY <1>3 DEF UnlockExpired, Begins, TypeOK
<1>4. ASSUME NEW t \in Tasks, NummerBegins(t) PROVE TypeOK'
  BY <1>4 DEF NummerBegins, Begins, TypeOK
<1>5. ASSUME NEW t \in Tasks, NummerReadsLocks(t) \/ FindExisting(t) \/ ReadRemaining(t) PROVE TypeOK'
  BY <1>5 DEF NummerReadsLocks, FindExisting, ReadRemaining, Unlocked, TypeOK
<1>6. ASSUME NEW t \in Tasks, NummerSaves(t) PROVE TypeOK'
  <2>1. overdue' \in [Persons -> BOOLEAN]
    BY <1>6, TaskType DEF NummerSaves, TypeOK
  <2> QED
    BY <1>6, <2>1 DEF NummerSaves, TypeOK
<1>7. ASSUME NEW t \in Tasks, PickLock(t) PROVE TypeOK'
  BY <1>7 DEF PickLock, LocksOf, UserLocks, TypeOK
<1>8. ASSUME NEW t \in Tasks, WriteLock(t) PROVE TypeOK'
  <2>1. PICK u \in Befristungen :
          \A m \in locks' : m \in locks \/ \E l \in locks : m = [l EXCEPT !.occasion = t.occasion, !.until = u]
    BY <1>8 DEF WriteLock
  <2>2. \A l \in locks : [l EXCEPT !.occasion = t.occasion, !.until = u] \in UserLocks
    <3> SUFFICES ASSUME NEW l \in locks
                 PROVE  [l EXCEPT !.occasion = t.occasion, !.until = u] \in UserLocks
      OBVIOUS
    <3>1. l \in UserLocks /\ t.occasion \in PersonLockOccasion
      BY TaskType DEF TypeOK
    <3> QED
      BY <3>1 DEF UserLocks
  <2>3. \A m \in locks' : m \in UserLocks
    BY <2>1, <2>2 DEF TypeOK
  <2> QED
    BY <1>8, <2>3 DEF WriteLock, TypeOK, Befristungen
<1>9. ASSUME NEW t \in Tasks, CreateLock(t) PROVE TypeOK'
  <2>1. [id |-> inserted + 1, person |-> t.person, occasion |-> t.occasion, until |-> until[t]] \in UserLocks
    BY TaskType DEF UserLocks, TypeOK
  <2> QED
    BY <1>9, <2>1 DEF CreateLock, TypeOK, Befristungen
<1>10. ASSUME NEW t \in Tasks, DisableUser(t) \/ EnableUser(t) PROVE TypeOK'
  <2>1. enabled' \in [Persons -> BOOLEAN]
    BY <1>10, TaskType DEF DisableUser, EnableUser, TypeOK
  <2> QED
    BY <1>10, <2>1 DEF DisableUser, EnableUser, Unlocked, TypeOK
<1>11. ASSUME NEW t \in Tasks, DeleteLock(t) PROVE TypeOK'
  BY <1>11 DEF DeleteLock, TypeOK
<1>12. ASSUME NEW t \in Tasks, StepFails(t) PROVE TypeOK'
  BY <1>12 DEF StepFails, Fails, TypeOK
<1>13. CASE Expire
  <2>1. PICK l \in locks : locks' = (locks \ {l}) \union {[l EXCEPT !.until = "over"]}
    BY <1>13 DEF Expire
  <2>2. [l EXCEPT !.until = "over"] \in UserLocks
    BY DEF TypeOK, UserLocks, Befristungen
  <2> QED
    BY <1>13, <2>1, <2>2 DEF Expire, TypeOK
<1>14. CASE UNCHANGED vars
  BY <1>14 DEF TypeOK
<1> QED
  BY <1>1, <1>2, <1>3, <1>4, <1>5, <1>6, <1>7, <1>8, <1>9, <1>10, <1>11, <1>12, <1>13, <1>14 DEF Next, Step

(* Every reachable state is well typed.                                     *)
THEOREM LocksTyped == Spec => []TypeOK
BY InitTyped, NextTyped, PTL DEF Spec

-----------------------------------------------------------------------------
(* Ids                                                                     *)

(* At the beginning table and Keycloak agree, and no task has begun. *)
LEMMA InitInv == Init => LockInv
<1> SUFFICES ASSUME Init PROVE LockInv
  OBVIOUS
<1>1. locks = {} /\ \A t \in Tasks : pc[t] = "idle"
  BY DEF Init
<1>2. IdInv
  BY <1>1 DEF IdInv
<1>3. ASSUME NEW x \in Persons PROVE Alone(x) /\ LocksAgree(x) /\ NummerAgrees(x)
  <2>1. enabled[x] /\ LocksOf(x) = {}
    BY <1>1 DEF Init, LocksOf
  <2> QED
    BY <1>1, <2>1 DEF Alone, LocksAgree, NummerAgrees, Has, Of
<1> QED
  BY <1>2, <1>3 DEF LockInv, Agrees

(* WriteLock overwrites the row it has found, which keeps id and person;    *)
(* when that is gone, or the unique constraint refuses it, nothing.         *)
LEMMA WriteLockRow ==
  ASSUME TypeOK, IdInv, NEW t \in Tasks, WriteLock(t)
  PROVE  \/ UNCHANGED locks /\ pc' = [pc EXCEPT ![t] = "failed"]
         \/ /\ UNCHANGED locks /\ pc' = [pc EXCEPT ![t] = "disable"]
            /\ \A l \in locks : l.id # picked[t]
         \/ /\ pc' = [pc EXCEPT ![t] = "disable"]
            /\ \E l \in locks, m \in UserLocks :
                 /\ l.id = picked[t]
                 /\ m.id = l.id /\ m.person = l.person /\ m.occasion = t.occasion
                 /\ locks' = (locks \ {l}) \union {m}
<1>1. PICK u \in Befristungen :
        LET hit == {l \in locks : l.id = picked[t]}
            new == {[l EXCEPT !.occasion = t.occasion, !.until = u] : l \in hit}
        IN \/ locks' = (locks \ hit) \union new /\ Go(t, "write", "disable")
           \/ Go(t, "write", "failed") /\ UNCHANGED locks
           \/ hit = {} /\ Go(t, "write", "disable") /\ UNCHANGED locks
  BY DEF WriteLock
<1>2. CASE \A l \in locks : l.id # picked[t]
  <2>1. {l \in locks : l.id = picked[t]} = {}
    BY <1>2
  <2>2. locks' = locks
    BY <1>1, <2>1
  <2> QED
    BY <1>1, <1>2, <2>2
<1>3. ASSUME NEW l \in locks, l.id = picked[t]
      PROVE  \/ UNCHANGED locks /\ pc' = [pc EXCEPT ![t] = "failed"]
             \/ /\ pc' = [pc EXCEPT ![t] = "disable"]
                /\ locks' = (locks \ {l}) \union {[l EXCEPT !.occasion = t.occasion, !.until = u]}
  <2>1. {m \in locks : m.id = picked[t]} = {l}
    BY <1>3 DEF IdInv
  <2> QED
    BY <1>1, <2>1
<1>4. ASSUME NEW l \in locks
      PROVE  LET m == [l EXCEPT !.occasion = t.occasion, !.until = u] IN
             m \in UserLocks /\ m.id = l.id /\ m.person = l.person /\ m.occasion = t.occasion
  <2>1. l \in UserLocks /\ t.occasion \in PersonLockOccasion
    BY TaskType DEF TypeOK
  <2> QED
    BY <2>1 DEF UserLocks
<1> QED
  BY <1>2, <1>3, <1>4

(* When a Befristung passes, a row keeps id, person and occasion.           *)
LEMMA ExpireRow ==
  ASSUME TypeOK, Expire
  PROVE  \E l \in locks, m \in UserLocks :
           /\ m.id = l.id /\ m.person = l.person /\ m.occasion = l.occasion
           /\ locks' = (locks \ {l}) \union {m}
<1>1. PICK l \in locks : locks' = (locks \ {l}) \union {[l EXCEPT !.until = "over"]}
  BY DEF Expire
<1>2. l \in UserLocks
  BY DEF TypeOK
<1>3. LET m == [l EXCEPT !.until = "over"] IN
      m \in UserLocks /\ m.id = l.id /\ m.person = l.person /\ m.occasion = l.occasion
  BY <1>2 DEF UserLocks, Befristungen
<1> QED
  BY <1>1, <1>3

(* Rows are only inserted with the next id, and keep id and person.         *)
LEMMA NextIds == TypeOK /\ IdInv /\ [Next]_vars => IdInv'
<1> SUFFICES ASSUME TypeOK, IdInv, [Next]_vars PROVE IdInv'
  OBVIOUS
<1>n. inserted \in Nat /\ (\A l \in locks : l.id \in Nat) /\ \A t \in Tasks : picked[t] \in Nat
  BY DEF TypeOK, UserLocks
<1>s. ASSUME locks' \subseteq locks, inserted' = inserted,
             \A t \in Tasks : pc'[t] = "write" => pc[t] = "write" /\ picked'[t] = picked[t]
      PROVE  IdInv'
  BY <1>s DEF IdInv
<1>r. ASSUME NEW l \in locks, NEW m, m.id = l.id, m.person = l.person,
             locks' = (locks \ {l}) \union {m}, inserted' = inserted,
             \A t \in Tasks : pc'[t] = "write" => pc[t] = "write" /\ picked'[t] = picked[t]
      PROVE  IdInv'
  BY <1>r DEF IdInv
<1>1. ASSUME NEW t \in Tasks, AdminBegins(t) \/ NummerBegins(t) PROVE IdInv'
  BY <1>1, <1>s DEF AdminBegins, NummerBegins, TypeOK
<1>2. CASE KopersLock \/ UnlockExpired
  BY <1>2, <1>s DEF KopersLock, UnlockExpired, TypeOK
<1>3. ASSUME NEW t \in Tasks,
             NummerReadsLocks(t) \/ NummerSaves(t) \/ FindExisting(t) \/ DisableUser(t)
      PROVE  IdInv'
  BY <1>3, <1>s DEF NummerReadsLocks, NummerSaves, FindExisting, DisableUser, TypeOK
<1>4. ASSUME NEW t \in Tasks, DeleteLock(t) \/ ReadRemaining(t) \/ EnableUser(t) PROVE IdInv'
  BY <1>4, <1>s DEF DeleteLock, ReadRemaining, EnableUser, Unlocked, TypeOK
<1>5. ASSUME NEW t \in Tasks, StepFails(t) PROVE IdInv'
  BY <1>5, <1>s DEF StepFails, Fails, TypeOK
<1>6. ASSUME NEW t \in Tasks, PickLock(t) PROVE IdInv'
  <2>u. UNCHANGED <<locks, inserted>> /\ \A u \in Tasks \ {t} : pc'[u] = pc[u]
    BY <1>6 DEF PickLock, TypeOK
  <2>1. CASE UNCHANGED picked /\ pc'[t] = "failed"
    BY <2>u, <1>s, <2>1
  <2>2. CASE \E l \in LocksOf(t.person) : Go(t, "pick", "write") /\ picked' = [picked EXCEPT ![t] = l.id]
    <3>1. PICK l \in locks : l.person = t.person /\ picked' = [picked EXCEPT ![t] = l.id]
      BY <2>2 DEF LocksOf
    <3>2. picked'[t] = l.id /\ \A u \in Tasks \ {t} : picked'[u] = picked[u]
      BY <3>1 DEF TypeOK
    <3> QED
      BY <3>1, <3>2, <2>u DEF IdInv
  <2>3. UNCHANGED picked => pc'[t] = "failed" \/ \E l \in LocksOf(t.person) : Go(t, "pick", "write") /\ picked' = [picked EXCEPT ![t] = l.id]
    BY <1>6 DEF PickLock, TypeOK
  <2> QED
    BY <1>6, <2>1, <2>2, <2>3 DEF PickLock
<1>7. ASSUME NEW t \in Tasks, WriteLock(t) PROVE IdInv'
  <2>1. \A u \in Tasks : pc'[u] = "write" => pc[u] = "write" /\ picked'[u] = picked[u]
    BY <1>7 DEF WriteLock, TypeOK
  <2>2. inserted' = inserted
    BY <1>7 DEF WriteLock
  <2>3. CASE UNCHANGED locks
    BY <1>s, <2>1, <2>2, <2>3
  <2>4. ASSUME NEW l \in locks, NEW m, m.id = l.id, m.person = l.person, locks' = (locks \ {l}) \union {m}
        PROVE  IdInv'
    BY <1>r, <2>1, <2>2, <2>4
  <2> QED
    BY <1>7, <2>3, <2>4, WriteLockRow
<1>8. ASSUME NEW t \in Tasks, CreateLock(t) PROVE IdInv'
  <2>1. \A u \in Tasks : pc'[u] = "write" => pc[u] = "write" /\ picked'[u] = picked[u]
    BY <1>8 DEF CreateLock, TypeOK
  <2>2. CASE UNCHANGED <<locks, inserted>>
    BY <1>s, <2>1, <2>2
  <2>3. CASE inserted' = inserted + 1 /\ \E l : l.id = inserted + 1 /\ locks' = locks \union {l}
    BY <1>n, <2>1, <2>3 DEF IdInv
  <2> QED
    BY <1>8, <2>2, <2>3 DEF CreateLock
<1>9. CASE Expire
  <2>1. inserted' = inserted /\ pc' = pc /\ picked' = picked
    BY <1>9 DEF Expire
  <2> QED
    BY <1>9, <1>r, <2>1, ExpireRow
<1>10. CASE UNCHANGED vars
  BY <1>10 DEF IdInv
<1> QED
  BY <1>1, <1>2, <1>3, <1>4, <1>5, <1>6, <1>7, <1>8, <1>9, <1>10 DEF Next, Step

-----------------------------------------------------------------------------
(* Table and Keycloak                                                      *)

(* What is not touched stays as it is.                                      *)
LEMMA Untouched ==
  ASSUME NEW x \in Persons, Agrees(x),
         LocksOf(x)' = LocksOf(x), enabled'[x] = enabled[x], overdue'[x] = overdue[x],
         \A t \in Of(x) : pc'[t] = pc[t] /\ picked'[t] = picked[t]
  PROVE  Agrees(x)'
<1>1. Has(x, "KOPERS_GESPERRT")' <=> Has(x, "KOPERS_GESPERRT")
  BY DEF Has
<1>2. Alone(x)'
  BY DEF Agrees, Alone
<1>3. LocksAgree(x)'
  BY DEF Agrees, LocksAgree
<1>4. NummerAgrees(x)'
  BY <1>1 DEF Agrees, NummerAgrees
<1> QED
  BY <1>2, <1>3, <1>4 DEF Agrees

(* Tasks that begin without crossing others know nothing yet.               *)
LEMMA Begun ==
  ASSUME NEW x \in Persons, Agrees(x),
         NEW T \in SUBSET Tasks, NEW step \in {"find", "delete", "locks"},
         Begins(T, step), x \notin crossed',
         UNCHANGED <<locks, enabled, overdue, picked>>,
         \A t \in Of(x) : \/ pc'[t] = pc[t]
                          \/ pc[t] \in AtRest /\ pc'[t] \in AtRest
                          \/ t \in T /\ pc[t] \in AtRest /\ pc'[t] = step,
         step = "find" => /\ \A t, u \in T \intersect Of(x) : t = u
                          /\ \A t \in T \intersect Of(x) :
                               t.occasion = "KOPERS_GESPERRT" => overdue[x],
         step = "locks" => \A t \in T : t.job = "nummer"
  PROVE  Agrees(x)'
<1>1. UNCHANGED <<LocksOf(x), Has(x, "KOPERS_GESPERRT")>>
  BY DEF LocksOf, Has
<1>2. CASE \A t \in T : t.person # x
  <2>1. \A t \in Of(x) : pc'[t] = pc[t] \/ (pc[t] \in AtRest /\ pc'[t] \in AtRest)
    BY <1>2 DEF Of
  <2>2. Alone(x)'
    BY <2>1 DEF Agrees, Alone
  <2>3. LocksAgree(x)'
    BY <1>1, <2>1 DEF Agrees, LocksAgree
  <2>4. NummerAgrees(x)'
    BY <1>1, <2>1 DEF Agrees, NummerAgrees
  <2> QED
    BY <2>2, <2>3, <2>4 DEF Agrees
<1>3. CASE \E t \in T : t.person = x
  <2>1. /\ \A t \in Of(x) : pc[t] \notin LockSteps
        /\ step = "find" => \A t \in Of(x) : pc[t] \in AtRest
    BY <1>3 DEF Begins, Locking, Busy, InFlight, Of
  <2>2. Alone(x)'
    BY <2>1 DEF Agrees, Alone
  <2>3. LocksAgree(x)'
    BY <1>1, <2>1 DEF Agrees, LocksAgree
  <2>4. NummerAgrees(x)'
    BY <1>1, <2>1 DEF Agrees, NummerAgrees
  <2> QED
    BY <2>2, <2>3, <2>4 DEF Agrees
<1> QED
  BY <1>2, <1>3

(* The row that is overwritten with one of the same id and person.          *)
LEMMA RowsOf ==
  ASSUME NEW l \in locks, NEW m, m.id = l.id, m.person = l.person,
         locks' = (locks \ {l}) \union {m}, NEW x
  PROVE  /\ (LocksOf(x) = {}) <=> (LocksOf(x)' = {})
         /\ \A n \in LocksOf(x) : \E k \in LocksOf(x)' : k.id = n.id
         /\ x # l.person => LocksOf(x)' = LocksOf(x)
BY DEF LocksOf

(* A step of a task touches its own person only.                            *)
LEMMA OtherPersons ==
  ASSUME TypeOK, IdInv, NEW t \in Tasks, Step(t), NEW x \in Persons, x # t.person
  PROVE  /\ LocksOf(x)' = LocksOf(x) /\ enabled'[x] = enabled[x] /\ overdue'[x] = overdue[x]
         /\ \A u \in Of(x) : pc'[u] = pc[u] /\ picked'[u] = picked[u]
<1>1. /\ enabled'[x] = enabled[x] /\ overdue'[x] = overdue[x]
      /\ \A u \in Of(x) : pc'[u] = pc[u] /\ picked'[u] = picked[u]
  <2>1. \A u \in Of(x) : u \in Tasks /\ u # t
    BY DEF Of
  <2>2. CASE NummerReadsLocks(t) \/ FindExisting(t) \/ DeleteLock(t) \/ ReadRemaining(t) \/ StepFails(t)
    BY <2>1, <2>2 DEF NummerReadsLocks, FindExisting, DeleteLock, ReadRemaining, StepFails, Fails, Unlocked, TypeOK
  <2>3. CASE NummerSaves(t) \/ DisableUser(t) \/ EnableUser(t)
    BY <2>1, <2>3, TaskType DEF NummerSaves, DisableUser, EnableUser, Unlocked, TypeOK
  <2>4. CASE PickLock(t) \/ WriteLock(t) \/ CreateLock(t)
    BY <2>1, <2>4 DEF PickLock, WriteLock, CreateLock, TypeOK
  <2> QED
    BY <2>2, <2>3, <2>4 DEF Step
<1>2. LocksOf(x)' = LocksOf(x)
  <2>1. CASE WriteLock(t)
    <3>1. pc[t] = "write"
      BY <2>1 DEF WriteLock
    <3>2. \A l \in locks : l.id = picked[t] => l.person = t.person
      BY <3>1 DEF IdInv
    <3>3. ASSUME NEW l \in locks, l.id = picked[t], NEW m \in UserLocks, m.id = l.id, m.person = l.person,
                 locks' = (locks \ {l}) \union {m}
          PROVE  LocksOf(x)' = LocksOf(x)
      BY <3>2, <3>3, RowsOf
    <3>4. CASE UNCHANGED locks
      BY <3>4 DEF LocksOf
    <3> QED
      BY <2>1, <3>3, <3>4, WriteLockRow
  <2>2. CASE DeleteLock(t)
    BY <2>2 DEF DeleteLock, LocksOf
  <2>3. CASE CreateLock(t)
    BY <2>3 DEF CreateLock, LocksOf
  <2>4. CASE UNCHANGED locks
    BY <2>4 DEF LocksOf
  <2>5. WriteLock(t) \/ DeleteLock(t) \/ CreateLock(t) \/ UNCHANGED locks
    BY DEF Step, NummerReadsLocks, NummerSaves, FindExisting, PickLock, DisableUser, ReadRemaining, EnableUser, StepFails
  <2> QED
    BY <2>1, <2>2, <2>3, <2>4, <2>5
<1> QED
  BY <1>1, <1>2

(* The steps of a task, for its own person.                                 *)
LEMMA OwnStep ==
  ASSUME TypeOK, IdInv, NEW t \in Tasks, Step(t), faults = 0, faults' = 0,
         NEW x \in Persons, x = t.person, Agrees(x)
  PROVE  Agrees(x)'
<1>o. \A u \in Of(x) : u \in Tasks /\ u.person = x
  BY DEF Of
<1>t. t \in Of(x)
  BY DEF Of
<1>a. Alone(x) /\ LocksAgree(x) /\ NummerAgrees(x)
  BY DEF Agrees
<1>l. ASSUME UNCHANGED locks
      PROVE  LocksOf(x)' = LocksOf(x) /\ (Has(x, "KOPERS_GESPERRT")' <=> Has(x, "KOPERS_GESPERRT"))
  BY <1>l DEF LocksOf, Has
<1>k. t.job = "nummer" => t.occasion = "KOPERS_GESPERRT"
  BY DEF Tasks
<1>p. ASSUME NEW to, pc' = [pc EXCEPT ![t] = to]
      PROVE  pc'[t] = to /\ \A u \in Of(x) \ {t} : pc'[u] = pc[u]
  BY <1>o, <1>p DEF TypeOK
<1>q. ASSUME NEW to, pc' = [pc EXCEPT ![t] = to], pc[t] \notin AtRest, to \in LockSteps => pc[t] \in LockSteps
      PROVE  Alone(x)'
  BY <1>a, <1>p, <1>q, <1>t DEF Alone
<1>1. CASE NummerReadsLocks(t)
  <2>1. PICK to \in {"delete", "save"} :
          pc[t] = "locks" /\ pc' = [pc EXCEPT ![t] = to]
            /\ (to = "save" => ~Has(x, "KOPERS_GESPERRT"))
    BY <1>1 DEF NummerReadsLocks
  <2>2. UNCHANGED <<locks, enabled, overdue, picked>>
    BY <1>1 DEF NummerReadsLocks
  <2>3. Alone(x)'
    BY <1>q, <2>1
  <2>4. LocksAgree(x)'
    BY <1>a, <1>l, <1>p, <1>t, <2>1, <2>2 DEF LocksAgree
  <2>5. NummerAgrees(x)'
    BY <1>a, <1>l, <1>p, <1>t, <2>1, <2>2 DEF NummerAgrees
  <2> QED
    BY <2>3, <2>4, <2>5 DEF Agrees
<1>2. CASE NummerSaves(t)
  <2>1. pc[t] = "save" /\ pc' = [pc EXCEPT ![t] = "ok"]
    BY <1>2 DEF NummerSaves
  <2>2. UNCHANGED <<locks, enabled, picked>>
    BY <1>2 DEF NummerSaves
  <2>3. Alone(x)'
    BY <1>q, <2>1
  <2>4. LocksAgree(x)'
    BY <1>a, <1>l, <1>p, <1>t, <2>1, <2>2 DEF LocksAgree
  <2>5. ~Has(x, "KOPERS_GESPERRT")
    BY <1>a, <1>t, <2>1 DEF NummerAgrees
  <2>6. \A u \in Of(x) : pc[u] \notin LockSteps
    BY <1>a, <1>t, <2>1 DEF Alone
  <2>7. NummerAgrees(x)'
    BY <1>a, <1>l, <1>p, <1>t, <2>1, <2>2, <2>5, <2>6 DEF NummerAgrees
  <2> QED
    BY <2>3, <2>4, <2>7 DEF Agrees
<1>3. CASE FindExisting(t)
  <2>1. PICK to \in {"pick", "create"} : pc[t] = "find" /\ pc' = [pc EXCEPT ![t] = to]
    BY <1>3 DEF FindExisting
  <2>2. UNCHANGED <<locks, enabled, overdue, picked>>
    BY <1>3 DEF FindExisting
  <2>3. Alone(x)'
    BY <1>q, <2>1
  <2>4. LocksAgree(x)'
    BY <1>a, <1>l, <1>p, <1>t, <2>1, <2>2 DEF LocksAgree
  <2>5. NummerAgrees(x)'
    BY <1>a, <1>l, <1>p, <1>t, <2>1, <2>2 DEF NummerAgrees
  <2> QED
    BY <2>3, <2>4, <2>5 DEF Agrees
<1>4. CASE PickLock(t)
  <2>1. PICK to \in {"write", "failed"} :
          pc[t] = "pick" /\ pc' = [pc EXCEPT ![t] = to]
            /\ (to = "write" => \E l \in LocksOf(x) : picked' = [picked EXCEPT ![t] = l.id])
            /\ (to = "failed" => UNCHANGED picked)
    BY <1>4 DEF PickLock
  <2>2. UNCHANGED <<locks, enabled, overdue>>
    BY <1>4 DEF PickLock
  <2>3. \A u \in Of(x) \ {t} : picked'[u] = picked[u]
    BY <1>o, <2>1 DEF TypeOK
  <2>4. to = "write" => \E l \in LocksOf(x) : l.id = picked'[t]
    BY <2>1 DEF TypeOK
  <2>5. Alone(x)'
    BY <1>q, <2>1
  <2>6. LocksAgree(x)'
    BY <1>a, <1>l, <1>p, <1>t, <2>1, <2>2, <2>3, <2>4 DEF LocksAgree
  <2>7. NummerAgrees(x)'
    BY <1>a, <1>l, <1>p, <1>t, <2>1, <2>2 DEF NummerAgrees
  <2> QED
    BY <2>5, <2>6, <2>7 DEF Agrees
<1>5. CASE WriteLock(t)
  <2>1. pc[t] = "write" /\ UNCHANGED <<enabled, overdue>>
    BY <1>5 DEF WriteLock
  <2>2. PICK l \in LocksOf(x) : l.id = picked[t]
    BY <1>a, <1>t, <2>1 DEF LocksAgree
  <2>3. \A u \in Of(x) \ {t} : pc'[u] = pc[u] /\ pc[u] \in AtRest
    BY <1>5, <1>a, <1>o, <1>t, <2>1 DEF WriteLock, TypeOK, Alone
  <2>4. CASE UNCHANGED locks /\ pc' = [pc EXCEPT ![t] = "failed"]
    <3>1. Alone(x)'
      BY <1>q, <2>1, <2>4
    <3>2. LocksAgree(x)'
      BY <1>a, <1>l, <1>p, <1>t, <2>1, <2>3, <2>4 DEF LocksAgree
    <3>3. NummerAgrees(x)'
      BY <1>a, <1>l, <1>p, <1>t, <2>1, <2>3, <2>4 DEF NummerAgrees
    <3> QED
      BY <3>1, <3>2, <3>3 DEF Agrees
  <2>5. ASSUME pc' = [pc EXCEPT ![t] = "disable"], NEW m \in UserLocks,
               m.id = l.id, m.person = l.person, m.occasion = t.occasion,
               locks' = (locks \ {l}) \union {m}
        PROVE  Agrees(x)'
    <3>1. LocksOf(x)' # {}
      BY <2>2, <2>5 DEF LocksOf
    <3>2. Has(x, "KOPERS_GESPERRT")' => Has(x, "KOPERS_GESPERRT") \/ t.occasion = "KOPERS_GESPERRT"
      BY <2>5 DEF Has, LocksOf
    <3>3. Alone(x)'
      BY <1>q, <2>1, <2>5
    <3>0. pc'[t] = "disable" /\ \A u \in Of(x) \ {t} : pc'[u] \in AtRest
      BY <1>p, <2>3, <2>5
    <3>4. LocksAgree(x)'
      BY <1>t, <3>0, <3>1 DEF LocksAgree
    <3>5. NummerAgrees(x)'
      BY <1>a, <1>p, <1>t, <2>1, <2>3, <2>5, <3>2 DEF NummerAgrees
    <3> QED
      BY <3>3, <3>4, <3>5 DEF Agrees
  <2>6. l \in locks /\ \A k \in locks : k.id = picked[t] => k = l
    BY <2>2 DEF LocksOf, IdInv
  <2> QED
    BY <1>5, <2>2, <2>4, <2>5, <2>6, WriteLockRow
<1>6. CASE CreateLock(t)
  <2>1. pc[t] = "create" /\ UNCHANGED <<enabled, overdue, picked>>
    BY <1>6 DEF CreateLock
  <2>2. \A u \in Of(x) \ {t} : pc'[u] = pc[u] /\ pc[u] \in AtRest
    BY <1>6, <1>a, <1>o, <1>t, <2>1 DEF CreateLock, TypeOK, Alone
  <2>3. CASE UNCHANGED locks /\ pc' = [pc EXCEPT ![t] = "failed"]
    <3>1. Alone(x)'
      BY <1>q, <2>1, <2>3
    <3>2. LocksAgree(x)'
      BY <1>a, <1>l, <1>p, <1>t, <2>1, <2>2, <2>3 DEF LocksAgree
    <3>3. NummerAgrees(x)'
      BY <1>a, <1>l, <1>p, <1>t, <2>1, <2>2, <2>3 DEF NummerAgrees
    <3> QED
      BY <3>1, <3>2, <3>3 DEF Agrees
  <2>4. ASSUME pc' = [pc EXCEPT ![t] = "disable"], NEW m, m.person = x, m.occasion = t.occasion,
               locks' = locks \union {m}
        PROVE  Agrees(x)'
    <3>1. LocksOf(x)' # {}
      BY <2>4 DEF LocksOf
    <3>2. Has(x, "KOPERS_GESPERRT")' => Has(x, "KOPERS_GESPERRT") \/ t.occasion = "KOPERS_GESPERRT"
      BY <2>4 DEF Has, LocksOf
    <3>3. Alone(x)'
      BY <1>q, <2>1, <2>4
    <3>4. LocksAgree(x)'
      BY <1>p, <1>t, <2>2, <2>4, <3>1 DEF LocksAgree
    <3>5. NummerAgrees(x)'
      BY <1>a, <1>p, <1>t, <2>1, <2>2, <2>4, <3>2 DEF NummerAgrees
    <3> QED
      BY <3>3, <3>4, <3>5 DEF Agrees
  <2> QED
    BY <1>6, <2>3, <2>4 DEF CreateLock
<1>7. CASE DisableUser(t)
  <2>1. pc[t] = "disable" /\ pc' = [pc EXCEPT ![t] = "ok"] /\ UNCHANGED <<locks, overdue, picked>>
    BY <1>7 DEF DisableUser
  <2>2. ~enabled'[x]
    BY <1>7, TaskType DEF DisableUser, TypeOK
  <2>3. \A u \in Of(x) \ {t} : pc[u] \in AtRest
    BY <1>a, <1>t, <2>1 DEF Alone
  <2>4. LocksOf(x)' # {}
    BY <1>a, <1>l, <1>t, <2>1 DEF LocksAgree
  <2>5. Alone(x)'
    BY <1>q, <2>1
  <2>6. LocksAgree(x)'
    BY <1>p, <1>t, <2>1, <2>2, <2>3, <2>4 DEF LocksAgree
  <2>7. NummerAgrees(x)'
    BY <1>a, <1>l, <1>p, <1>t, <2>1, <2>3 DEF NummerAgrees
  <2> QED
    BY <2>5, <2>6, <2>7 DEF Agrees
<1>8. CASE DeleteLock(t)
  <2>1. pc[t] = "delete" /\ pc' = [pc EXCEPT ![t] = "remaining"] /\ UNCHANGED <<enabled, overdue, picked>>
    BY <1>8 DEF DeleteLock
  <2>2. \A u \in Of(x) : pc[u] \notin LockSteps
    BY <1>a, <1>t, <2>1 DEF Alone
  <2>3. LocksOf(x)' = {l \in LocksOf(x) : l.occasion # t.occasion}
    BY <1>8 DEF DeleteLock, LocksOf
  <2>4. Has(x, "KOPERS_GESPERRT")' => Has(x, "KOPERS_GESPERRT") /\ t.occasion # "KOPERS_GESPERRT"
    BY <2>3 DEF Has
  <2>5. Alone(x)'
    BY <1>q, <2>1
  <2>6. LocksAgree(x)'
    <3>1. ~(enabled[x] /\ LocksOf(x) # {}) /\ LocksOf(x)' \subseteq LocksOf(x)
      BY <1>a, <2>2, <2>3 DEF LocksAgree
    <3>2. pc'[t] = "remaining" /\ \A u \in Of(x) : pc'[u] \notin LockSteps
      BY <1>p, <2>1, <2>2
    <3>3. \A u \in Of(x) : pc'[u] = "enable" => pc[u] = "enable"
      BY <1>p, <2>1
    <3> QED
      BY <1>a, <1>t, <2>1, <3>1, <3>2, <3>3 DEF LocksAgree
  <2>7. NummerAgrees(x)'
    BY <1>a, <1>k, <1>p, <1>t, <2>1, <2>2, <2>4 DEF NummerAgrees
  <2> QED
    BY <2>5, <2>6, <2>7 DEF Agrees
<1>9. CASE ReadRemaining(t)
  <2>1. PICK to \in {"enable", "save", "ok"} :
          /\ pc[t] = "remaining" /\ pc' = [pc EXCEPT ![t] = to]
          /\ IF LocksOf(x) = {} THEN to = "enable" ELSE to = Unlocked(t)
    BY <1>9 DEF ReadRemaining, Unlocked
  <2>2. UNCHANGED <<locks, enabled, overdue, picked>>
    BY <1>9 DEF ReadRemaining
  <2>3. \A u \in Of(x) : pc[u] \notin LockSteps
    BY <1>a, <1>t, <2>1 DEF Alone
  <2>4. Alone(x)'
    BY <1>q, <2>1
  <2>5. LocksAgree(x)'
    BY <1>a, <1>l, <1>p, <1>t, <2>1, <2>2, <2>3 DEF LocksAgree, Unlocked
  <2>6. NummerAgrees(x)'
    BY <1>a, <1>l, <1>p, <1>t, <2>1, <2>2, <2>3 DEF NummerAgrees, Unlocked
  <2> QED
    BY <2>4, <2>5, <2>6 DEF Agrees
<1>10. CASE EnableUser(t)
  <2>1. pc[t] = "enable" /\ pc' = [pc EXCEPT ![t] = Unlocked(t)] /\ UNCHANGED <<locks, overdue, picked>>
    BY <1>10 DEF EnableUser
  <2>2. enabled'[x]
    BY <1>10, TaskType DEF EnableUser, TypeOK
  <2>3. LocksOf(x)' = {}
    BY <1>a, <1>l, <1>t, <2>1 DEF LocksAgree
  <2>4. \A u \in Of(x) : pc[u] \notin LockSteps
    BY <1>a, <1>t, <2>1 DEF Alone
  <2>5. Alone(x)'
    BY <1>q, <2>1 DEF Unlocked
  <2>6. LocksAgree(x)'
    BY <1>p, <1>t, <2>1, <2>2, <2>3, <2>4 DEF LocksAgree, Unlocked
  <2>7. NummerAgrees(x)'
    BY <1>a, <1>l, <1>p, <1>t, <2>1, <2>4 DEF NummerAgrees, Unlocked
  <2> QED
    BY <2>5, <2>6, <2>7 DEF Agrees
<1>11. ~StepFails(t)
  BY DEF StepFails, Fails
<1> QED
  BY <1>1, <1>2, <1>3, <1>4, <1>5, <1>6, <1>7, <1>8, <1>9, <1>10, <1>11 DEF Step

(* Every step keeps the invariant.                                          *)
LEMMA NextInv == TypeOK /\ LockInv /\ [Next]_vars => LockInv'
<1> SUFFICES ASSUME TypeOK, LockInv, [Next]_vars PROVE LockInv'
  OBVIOUS
<1>i. IdInv /\ IdInv'
  BY NextIds DEF LockInv
<1> SUFFICES ASSUME faults' = 0, NEW x \in Persons, x \notin crossed'
             PROVE  Agrees(x)'
  BY <1>i DEF LockInv
<1>f. faults = 0 /\ x \notin crossed
  <2>1. ASSUME NEW t \in Tasks, Step(t) PROVE faults' \in {faults, faults + 1} /\ UNCHANGED crossed
    BY <2>1 DEF Step, NummerReadsLocks, NummerSaves, FindExisting, PickLock, WriteLock, CreateLock,
                DisableUser, DeleteLock, ReadRemaining, EnableUser, StepFails, Fails
  <2>2. ASSUME NEW t \in Tasks, AdminBegins(t) \/ NummerBegins(t)
        PROVE  faults' = faults /\ crossed \subseteq crossed'
    BY <2>2 DEF AdminBegins, NummerBegins, Begins
  <2>3. CASE KopersLock \/ UnlockExpired
    BY <2>3 DEF KopersLock, UnlockExpired, Begins
  <2>4. CASE Expire \/ UNCHANGED vars
    BY <2>4 DEF Expire
  <2>5. faults \in Nat
    BY DEF TypeOK
  <2> QED
    BY <2>1, <2>2, <2>3, <2>4, <2>5 DEF Next
<1>a. faults = 0 /\ Agrees(x)
  BY <1>f DEF LockInv
<1>1. ASSUME NEW t \in Tasks, AdminBegins(t) PROVE Agrees(x)'
  <2>1. PICK step \in {"find", "delete"} :
          Begins({t}, step) /\ pc' = [pc EXCEPT ![t] = step]
    BY <1>1 DEF AdminBegins
  <2>2. \A u \in Of(x) : pc'[u] = pc[u] \/ (u \in {t} /\ pc[u] \in AtRest /\ pc'[u] = step)
    BY <1>1, <2>1 DEF AdminBegins, Of, TypeOK
  <2>3. t.occasion # "KOPERS_GESPERRT"
    BY <1>1 DEF AdminBegins, Tasks
  <2>4. UNCHANGED <<locks, enabled, overdue, picked>>
    BY <1>1 DEF AdminBegins
  <2> QED
    BY <1>a, <2>1, <2>2, <2>3, <2>4, Begun
<1>2. CASE KopersLock
  <2> DEFINE mine == {t \in Tasks : t.job = "kopers"}
             T == {t \in mine : t.person \in KopersList}
  <2>1. T \in SUBSET Tasks /\ Begins(T, "find") /\ UNCHANGED <<locks, enabled, overdue, picked>>
    BY <1>2 DEF KopersLock
  <2>2. \A t \in Of(x) : \/ pc'[t] = pc[t]
                         \/ pc[t] \in AtRest /\ pc'[t] \in AtRest
                         \/ t \in T /\ pc[t] \in AtRest /\ pc'[t] = "find"
    BY <1>2 DEF KopersLock, Of
  <2>3. \A t, u \in T \intersect Of(x) : t = u
    BY DEF Tasks, Of
  <2>4. \A t \in T \intersect Of(x) : overdue[x]
    BY DEF KopersList, Of
  <2> QED
    BY <1>a, <2>1, <2>2, <2>3, <2>4, Begun
<1>3. CASE UnlockExpired
  <2> DEFINE mine == {t \in Tasks : t.job = "unlock"}
             T == {t \in mine : \E l \in LocksToUnlock : l.person = t.person /\ l.occasion = t.occasion}
  <2>1. T \in SUBSET Tasks /\ Begins(T, "delete") /\ UNCHANGED <<locks, enabled, overdue, picked>>
    BY <1>3 DEF UnlockExpired
  <2>2. \A t \in Of(x) : \/ pc'[t] = pc[t]
                         \/ pc[t] \in AtRest /\ pc'[t] \in AtRest
                         \/ t \in T /\ pc[t] \in AtRest /\ pc'[t] = "delete"
    BY <1>3 DEF UnlockExpired, Of
  <2> HIDE DEF T
  <2> QED
    BY <1>a, <2>1, <2>2, Begun
<1>4. ASSUME NEW t \in Tasks, NummerBegins(t) PROVE Agrees(x)'
  <2>1. Begins({t}, "locks") /\ UNCHANGED <<locks, enabled, overdue, picked>> /\ t.job = "nummer"
    BY <1>4 DEF NummerBegins
  <2>2. \A u \in Of(x) : pc'[u] = pc[u] \/ (u \in {t} /\ pc[u] \in AtRest /\ pc'[u] = "locks")
    BY <1>4 DEF NummerBegins, Of, TypeOK
  <2> QED
    BY <1>a, <2>1, <2>2, Begun
<1>5. ASSUME NEW t \in Tasks, Step(t) PROVE Agrees(x)'
  <2>1. CASE x = t.person
    BY <1>5, <1>a, <1>i, <2>1, OwnStep
  <2>2. CASE x # t.person
    BY <1>5, <1>a, <1>i, <2>2, OtherPersons, Untouched
  <2> QED
    BY <2>1, <2>2
<1>6. CASE Expire
  <2>1. PICK l \in locks, m \in UserLocks :
          /\ m.id = l.id /\ m.person = l.person /\ m.occasion = l.occasion
          /\ locks' = (locks \ {l}) \union {m}
    BY <1>6, ExpireRow
  <2>2. UNCHANGED <<enabled, overdue, pc, picked>>
    BY <1>6 DEF Expire
  <2>3. /\ LocksOf(x) = {} <=> LocksOf(x)' = {}
        /\ \A n \in LocksOf(x) : \E k \in LocksOf(x)' : k.id = n.id
    BY <2>1, RowsOf
  <2>4. Has(x, "KOPERS_GESPERRT")' <=> Has(x, "KOPERS_GESPERRT")
    BY <2>1 DEF Has, LocksOf
  <2>5. Alone(x)'
    BY <1>a, <2>2 DEF Agrees, Alone
  <2>6. LocksAgree(x)'
    BY <1>a, <2>2, <2>3 DEF Agrees, LocksAgree
  <2>7. NummerAgrees(x)'
    BY <1>a, <2>2, <2>4 DEF Agrees, NummerAgrees
  <2> QED
    BY <2>5, <2>6, <2>7 DEF Agrees
<1>7. CASE UNCHANGED vars
  BY <1>7, <1>a, Untouched DEF LocksOf
<1> QED
  BY <1>1, <1>2, <1>3, <1>4, <1>5, <1>6, <1>7 DEF Next

(* Quiet persons, for whom nobody is about to change anything.              *)
LEMMA OrderlyAgrees ==
  ASSUME LockInv, NEW x \in Persons, Orderly(x)
  PROVE  (LocksOf(x) = {} <=> enabled[x]) /\ (overdue[x] \/ ~Has(x, "KOPERS_GESPERRT"))
<1>1. Agrees(x)
  BY DEF LockInv, Orderly
<1>2. \A t \in Of(x) : pc[t] \in AtRest
  BY DEF Orderly, Busy, InFlight, Of
<1> QED
  BY <1>1, <1>2 DEF Agrees, LocksAgree, NummerAgrees

(* While no request for a user is in progress, none failed and none that    *)
(* locks overlapped another one, the user is disabled in Keycloak exactly   *)
(* if the table holds a lock, however requests that unlock have overlapped. *)
THEOREM TableAndKeycloakAgree == Spec => []LocksDisable
<1>1. TypeOK /\ LockInv /\ [Next]_vars => TypeOK' /\ LockInv'
  BY NextTyped, NextInv
<1>2. LockInv => LocksDisable
  BY OrderlyAgrees DEF LocksDisable
<1> QED
  BY InitTyped, InitInv, <1>1, <1>2, PTL DEF Spec

(* Nor is then anybody who has a Personalnummer locked for want of one:     *)
(* updatePersonMetadata lifts the lock before it saves the number, and cron *)
(* locks nobody meanwhile.                                                  *)
THEOREM NummerLifted == Spec => []NummerEndsKopersLock
<1>1. TypeOK /\ LockInv /\ [Next]_vars => TypeOK' /\ LockInv'
  BY NextTyped, NextInv
<1>2. LockInv => NummerEndsKopersLock
  BY OrderlyAgrees DEF NummerEndsKopersLock
<1> QED
  BY InitTyped, InitInv, <1>1, <1>2, PTL DEF Spec
=============================================================================
