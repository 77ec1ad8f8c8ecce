----------------------------- MODULE LdapDirectory -----------------------------
(***************************************************************************)
(* The teachers in LDAP: an entry per username, and per school a group of  *)
(* names "lehrer-<Kennung>" that lists its members by their DN and cannot  *)
(* be empty.  LdapClientService changes the directory in several calls of  *)
(* the server; each call may fail, before or after it has had its effect.  *)
(*                                                                         *)
(* Every operation is repeated by executeWithRetry; most of them run under *)
(* the mutex of the service, removePersonFromGroup does not.  The          *)
(* operations on groups that createLehrer and modifyPersonAttributes make  *)
(* under the mutex are repeated by a retry of their own.                   *)
(*                                                                         *)
(* A DN is known by its uid: there is one root OU.                         *)
(***************************************************************************)
EXTENDS Naturals, FiniteSets

CONSTANTS
  Users,       \* usernames (referrer), those after a renaming included
  Schools,     \* orgaKennung
  MaxCalls,    \* bound: operations made
  Addresses,
  NoAddress,   \* mail not set
  Kinds,       \* the operations a run makes
  Retries,     \* DEFAULT_RETRIES
  MaxFaults    \* bound: calls of the LDAP server that fail

ASSUME LdapAssumption ==
  /\ NoAddress \notin Addresses
  /\ MaxCalls \in Nat
  /\ Retries \in Nat \ {0} /\ MaxFaults \in Nat

\* The operations in the order in which they begin.
Calls == 1 .. MaxCalls
NoCall == 0

MaybeAddress == Addresses \union {NoAddress}

Requests ==
  {r \in
    [kind : {"createLehrer"}, user : Users, school : Schools, mail : MaybeAddress]
      \union [kind : {"removePersonFromGroup"}, user : Users, school : Schools]
      \union [kind : {"modifyPersonAttributes"}, user : Users, new : Users]
      \union [kind : {"deleteLehrerByReferrer"}, user : Users]
      \union [kind : {"changeEmailAddress"}, user : Users, mail : Addresses] : r.kind \in Kinds}

NoRequest == [kind |-> "none"]

\* The users an operation is about.
Names(r) == {r.user} \union (IF r.kind = "modifyPersonAttributes" THEN {r.new} ELSE {})

VARIABLES
  (* The directory. *)
  entries,       \* usernames that have an entry
  mail,          \* [Users -> mailPrimaryAddress and mailAlternativeAddress]
  structure,     \* [Schools -> the organizationalUnit and its role "groups" exist]
  group,         \* [Schools -> members]; a group without members does not exist
  (* The service. *)
  mutex,         \* the operation that holds it
  faults,
  raced,         \* history: a removal has overlapped another operation
  (* Functions on Calls. *)
  request, pc,
  attempt,       \* currentAttempt of executeWithRetry
  inner,         \* currentAttempt of the retry for the operation on groups
  seenGroups,    \* members that were read
  seenMail,      \* the address that was read
  before         \* history: the user's groups and address and which of the operation's
                 \* users had an entry, when it began

directory == <<entries, mail, structure, group>>
control == <<mutex, pc, attempt, inner>>
past == <<before, raced>>
data == <<request, seenGroups, seenMail, past>>
vars == <<directory, control, faults, data>>

GroupSteps == {"orgUnit", "orgRole", "searchGroup", "addGroup", "addMember"}
Steps == GroupSteps \union
  {"searchLehrer", "addLehrer", "searchMember", "deleteGroup", "deleteMember",
   "searchEntry", "modifyDN", "searchGroups", "replaceMembers",
   "searchEntryToDelete", "del", "searchMail", "modifyPrimary", "modifyAlternative"}
Answers == {"ok", "failed"}

GroupsOf(u) == {s \in Schools : u \in group[s]}
NoMembers == [s \in Schools |-> {}]
NoMail == [primary |-> NoAddress, alternative |-> NoAddress]

\* Any directory in which every member has an entry.
Init ==
  /\ entries \in SUBSET Users
  /\ group \in [Schools -> SUBSET entries]
  /\ structure \in [Schools -> {"none", "groups"}]
  /\ \A s \in Schools : group[s] # {} => structure[s] = "groups"
  /\ \E a \in Addresses :
       mail = [u \in Users |-> IF u \in entries THEN [primary |-> a, alternative |-> a] ELSE NoMail]
  /\ mutex = NoCall /\ faults = 0 /\ raced = FALSE
  /\ request = [c \in Calls |-> NoRequest]
  /\ pc = [c \in Calls |-> "idle"]
  /\ attempt = [c \in Calls |-> 1] /\ inner = [c \in Calls |-> 1]
  /\ seenGroups = [c \in Calls |-> NoMembers]
  /\ seenMail = [c \in Calls |-> NoAddress]
  /\ before = [c \in Calls |-> [groups |-> {}, primary |-> NoAddress, known |-> {}]]

-----------------------------------------------------------------------------
(* executeWithRetry and the mutex                                          *)

Goto(c, to) == pc' = [pc EXCEPT ![c] = to] /\ UNCHANGED <<mutex, attempt, inner>>
At(c, step) == pc[c] = step

Release(c) == mutex' = IF mutex = c THEN NoCall ELSE mutex

Answer(c, result) ==
  /\ pc' = [pc EXCEPT ![c] = result]
  /\ Release(c)
  /\ UNCHANGED <<attempt, inner>>

\* Mutant: one attempt more than the bound is counted.
Fail_OneMore(c) ==
  IF attempt[c] <= Retries
  THEN /\ pc' = [pc EXCEPT ![c] = "waiting"]
       /\ attempt' = [attempt EXCEPT ![c] = @ + 1]
       /\ inner' = [inner EXCEPT ![c] = 1]
       /\ Release(c)
  ELSE Answer(c, "failed")

\* Mutant: a failing operation keeps the mutex.
Fail_KeepsMutex(c) ==
  IF attempt[c] < Retries
  THEN /\ pc' = [pc EXCEPT ![c] = "waiting"]
       /\ attempt' = [attempt EXCEPT ![c] = @ + 1]
       /\ inner' = [inner EXCEPT ![c] = 1]
       /\ UNCHANGED mutex
  ELSE Answer(c, "failed")

\* The operation returns an error or throws: it is repeated from its start.
Fail(c) ==
  IF attempt[c] < Retries
  THEN /\ pc' = [pc EXCEPT ![c] = "waiting"]
       /\ attempt' = [attempt EXCEPT ![c] = @ + 1]
       /\ inner' = [inner EXCEPT ![c] = 1]
       /\ Release(c)
  ELSE Answer(c, "failed")

\* Likewise the operation on groups, from step first; the mutex is kept.
FailInner(c, first) ==
  IF inner[c] < Retries
  THEN /\ pc' = [pc EXCEPT ![c] = first]
       /\ inner' = [inner EXCEPT ![c] = @ + 1]
       /\ UNCHANGED <<mutex, attempt>>
  ELSE Fail(c)

\* The call of the LDAP server fails; its effect may have happened all the same.
Fault == faults < MaxFaults /\ faults' = faults + 1

InProgress == {c \in Calls : pc[c] \notin Answers \union {"idle"}}
Removal(c) == request[c].kind = "removePersonFromGroup"

Begin(c) ==
  /\ At(c, "idle") /\ \A d \in Calls : d < c => pc[d] # "idle"
  /\ \E r \in Requests :
       /\ request' = [request EXCEPT ![c] = r]
       /\ before' = [before EXCEPT ![c] = [groups |-> GroupsOf(r.user),
                                           primary |-> mail[r.user].primary,
                                           known |-> entries \intersect Names(r)]]
       /\ raced' = (raced \/ \E d \in InProgress : Removal(d) \/ r.kind = "removePersonFromGroup")
  /\ Goto(c, "waiting")
  /\ UNCHANGED <<directory, faults, seenGroups, seenMail>>

FirstStep(kind) ==
  CASE kind = "createLehrer" -> "orgUnit"
    [] kind = "removePersonFromGroup" -> "searchMember"
    [] kind = "modifyPersonAttributes" -> "searchEntry"
    [] kind = "deleteLehrerByReferrer" -> "searchEntryToDelete"
    [] kind = "changeEmailAddress" -> "searchMail"

\* mutex.runExclusive, without the mutex for removePersonFromGroup.
Acquire(c) ==
  /\ At(c, "waiting")
  /\ IF Removal(c) THEN UNCHANGED mutex ELSE mutex = NoCall /\ mutex' = c
  /\ pc' = [pc EXCEPT ![c] = FirstStep(request[c].kind)]
  /\ UNCHANGED <<directory, faults, attempt, inner, data>>

\* One call that changes the directory.  The server refuses what is not possible.
Call(possible, Effect, Ok, Error) ==
  \/ possible /\ Effect /\ Ok /\ UNCHANGED faults
  \/ ~possible /\ UNCHANGED directory /\ Error /\ UNCHANGED faults
  \/ Fault /\ Error /\ (UNCHANGED directory \/ (possible /\ Effect))

\* One call that reads it.
Read(Ok, Error) ==
  /\ UNCHANGED directory
  /\ (Ok /\ UNCHANGED faults) \/ (Fault /\ Error)

SetStructure(s, value) ==
  structure' = [structure EXCEPT ![s] = value] /\ UNCHANGED <<entries, mail, group>>
SetGroup(s, members) ==
  group' = [group EXCEPT ![s] = members] /\ UNCHANGED <<entries, mail, structure>>
SetMail(u, value) == mail' = [mail EXCEPT ![u] = value] /\ UNCHANGED <<entries, structure, group>>

-----------------------------------------------------------------------------
(* addPersonToGroup, a part of createLehrer                                *)

EnsureOrgUnit(c) ==
  /\ At(c, "orgUnit") /\ UNCHANGED data
  /\ LET s == request[c].school IN
     Call(TRUE, SetStructure(s, IF structure[s] = "none" THEN "unit" ELSE structure[s]),
          Goto(c, "orgRole"), FailInner(c, "orgUnit"))

EnsureOrgRole(c) ==
  /\ At(c, "orgRole") /\ UNCHANGED data
  /\ Call(TRUE, SetStructure(request[c].school, "groups"), Goto(c, "searchGroup"), FailInner(c, "orgUnit"))

\* Mutant: an existing group is taken to have the member.
SearchGroup_GroupSuffices(c) ==
  /\ At(c, "searchGroup") /\ UNCHANGED data
  /\ Read(Goto(c, IF group[request[c].school] = {} THEN "addGroup" ELSE "searchLehrer"),
          FailInner(c, "orgUnit"))

\* Mutant: a member that is there already is an error.
SearchGroup_MemberIsError(c) ==
  /\ At(c, "searchGroup") /\ UNCHANGED data
  /\ LET r == request[c] IN
     Read(IF r.user \in group[r.school] THEN FailInner(c, "orgUnit")
          ELSE Goto(c, IF group[r.school] = {} THEN "addGroup" ELSE "addMember"),
          FailInner(c, "orgUnit"))

SearchGroup(c) ==
  /\ At(c, "searchGroup") /\ UNCHANGED data
  /\ LET r == request[c] IN
     Read(Goto(c, IF group[r.school] = {} THEN "addGroup"
                  ELSE IF r.user \in group[r.school] THEN "searchLehrer" ELSE "addMember"),
          FailInner(c, "orgUnit"))

AddGroup(c) ==
  /\ At(c, "addGroup") /\ UNCHANGED data
  /\ LET r == request[c] IN
     Call(group[r.school] = {}, SetGroup(r.school, {r.user}),
          Goto(c, "searchLehrer"), FailInner(c, "orgUnit"))

AddMember(c) ==
  /\ At(c, "addMember") /\ UNCHANGED data
  /\ LET r == request[c] IN
     Call(group[r.school] # {} /\ r.user \notin group[r.school],
          SetGroup(r.school, group[r.school] \union {r.user}),
          Goto(c, "searchLehrer"), FailInner(c, "orgUnit"))

(* The rest of createLehrer *)

SearchLehrer(c) ==
  /\ At(c, "searchLehrer") /\ UNCHANGED data
  /\ Read(IF request[c].user \in entries THEN Answer(c, "ok") ELSE Goto(c, "addLehrer"), Fail(c))

AddLehrer(c) ==
  /\ At(c, "addLehrer") /\ UNCHANGED data
  /\ LET r == request[c] IN
     Call(r.user \notin entries,
          /\ entries' = entries \union {r.user}
          /\ mail' = [mail EXCEPT ![r.user] = [primary |-> r.mail, alternative |-> r.mail]]
          /\ UNCHANGED <<structure, group>>,
          Answer(c, "ok"), Fail(c))

-----------------------------------------------------------------------------
(* removePersonFromGroup                                                   *)

\* Neither a missing group nor a missing member is an answer: both are errors.
SearchMember(c) ==
  /\ At(c, "searchMember") /\ UNCHANGED data
  /\ LET r == request[c] IN
     Read(IF r.user \notin group[r.school] THEN Fail(c)
          ELSE Goto(c, IF group[r.school] = {r.user} THEN "deleteGroup" ELSE "deleteMember"),
          Fail(c))

\* The group had one member when it was read.
DeleteGroup(c) ==
  /\ At(c, "deleteGroup") /\ UNCHANGED data
  /\ LET s == request[c].school IN
     Call(group[s] # {}, SetGroup(s, {}), Answer(c, "ok"), Fail(c))

\* Mutant: the group goes, whoever else is in it.
DeleteMember_WholeGroup(c) ==
  /\ At(c, "deleteMember") /\ UNCHANGED data
  /\ Call(TRUE, SetGroup(request[c].school, {}), Answer(c, "ok"), Fail(c))

\* The schema does not let the last member go.
DeleteMember(c) ==
  /\ At(c, "deleteMember") /\ UNCHANGED data
  /\ LET r == request[c] IN
     Call(r.user \in group[r.school] /\ group[r.school] # {r.user},
          SetGroup(r.school, group[r.school] \ {r.user}), Answer(c, "ok"), Fail(c))

-----------------------------------------------------------------------------
(* modifyPersonAttributes                                                  *)

\* The search, and the modification of cn, givenName and sn.
SearchEntry(c) ==
  /\ At(c, "searchEntry") /\ UNCHANGED data
  /\ LET r == request[c] IN
     Read(IF r.user \notin entries THEN Fail(c)
          ELSE Goto(c, IF r.new = r.user THEN "searchGroups" ELSE "modifyDN"),
          Fail(c))

ModifyDN(c) ==
  /\ At(c, "modifyDN") /\ UNCHANGED data
  /\ LET r == request[c] IN
     Call(r.new \notin entries,
          /\ entries' = (entries \ {r.user}) \union {r.new}
          /\ mail' = [mail EXCEPT ![r.new] = mail[r.user], ![r.user] = NoMail]
          /\ UNCHANGED <<structure, group>>,
          Goto(c, "searchGroups"), Fail(c))

(* updateMemberDnInGroups, a part of modifyPersonAttributes *)

SearchGroups(c) ==
  /\ At(c, "searchGroups") /\ UNCHANGED <<request, seenMail, past>>
  /\ LET of == GroupsOf(request[c].user) IN
     Read(/\ IF of = {} THEN Answer(c, "ok") ELSE Goto(c, "replaceMembers")
          /\ seenGroups' = [seenGroups EXCEPT ![c] = [s \in Schools |-> IF s \in of THEN group[s] ELSE {}]],
          FailInner(c, "searchGroups") /\ UNCHANGED seenGroups)

\* Mutant: the new DN is added, the old one kept.
ReplaceMembers_KeepsOld(c) ==
  /\ At(c, "replaceMembers") /\ UNCHANGED <<request, seenMail, past>>
  /\ \E s \in {t \in Schools : seenGroups[c][t] # {}} :
       LET Done == IF \E t \in Schools \ {s} : seenGroups[c][t] # {}
                   THEN Goto(c, "replaceMembers") ELSE Answer(c, "ok")
       IN /\ seenGroups' = [seenGroups EXCEPT ![c][s] = {}]
          /\ Call(group[s] # {}, SetGroup(s, seenGroups[c][s] \union {request[c].new}), Done, Done)

\* The members that were read replace those of the group.  An error is caught,
\* and the other groups are updated all the same.
ReplaceMembers(c) ==
  /\ At(c, "replaceMembers") /\ UNCHANGED <<request, seenMail, past>>
  /\ \E s \in {t \in Schools : seenGroups[c][t] # {}} :
       LET r == request[c]
           Done == IF \E t \in Schools \ {s} : seenGroups[c][t] # {}
                   THEN Goto(c, "replaceMembers") ELSE Answer(c, "ok")
       IN /\ seenGroups' = [seenGroups EXCEPT ![c][s] = {}]
          /\ Call(group[s] # {}, SetGroup(s, (seenGroups[c][s] \ {r.user}) \union {r.new}), Done, Done)

-----------------------------------------------------------------------------
(* deleteLehrerByReferrer                                                  *)

SearchEntryToDelete(c) ==
  /\ At(c, "searchEntryToDelete") /\ UNCHANGED data
  /\ Read(IF request[c].user \in entries THEN Goto(c, "del") ELSE Fail(c), Fail(c))

\* The groups keep the member.
DeleteEntry(c) ==
  /\ At(c, "del") /\ UNCHANGED data
  /\ LET u == request[c].user IN
     Call(u \in entries,
          /\ entries' = entries \ {u}
          /\ mail' = [mail EXCEPT ![u] = NoMail]
          /\ UNCHANGED <<structure, group>>,
          Answer(c, "ok"), Fail(c))

-----------------------------------------------------------------------------
(* changeEmailAddressByPersonId                                            *)

\* createLehrer writes an empty mailPrimaryAddress; where the attribute is
\* missing the new address stands in for the current one.
SearchMail(c) ==
  /\ At(c, "searchMail") /\ UNCHANGED <<request, seenGroups, past>>
  /\ LET r == request[c] current == mail[r.user].primary IN
     Read(IF r.user \notin entries THEN Fail(c) /\ UNCHANGED seenMail
          ELSE /\ Goto(c, "modifyPrimary")
               /\ \E a \in {current, IF current = NoAddress THEN r.mail ELSE current} :
                    seenMail' = [seenMail EXCEPT ![c] = a],
          Fail(c) /\ UNCHANGED seenMail)

ModifyPrimary(c) ==
  /\ At(c, "modifyPrimary") /\ UNCHANGED data
  /\ LET r == request[c] IN
     Call(r.user \in entries, SetMail(r.user, [mail[r.user] EXCEPT !.primary = r.mail]),
          Goto(c, "modifyAlternative"), Fail(c))

ModifyAlternative(c) ==
  /\ At(c, "modifyAlternative") /\ UNCHANGED data
  /\ LET u == request[c].user IN
     Call(u \in entries, SetMail(u, [mail[u] EXCEPT !.alternative = seenMail[c]]),
          Answer(c, "ok"), Fail(c))

-----------------------------------------------------------------------------
Step(c) ==
  \/ Acquire(c)
  \/ EnsureOrgUnit(c) \/ EnsureOrgRole(c) \/ SearchGroup(c) \/ AddGroup(c) \/ AddMember(c)
  \/ SearchLehrer(c) \/ AddLehrer(c)
  \/ SearchMember(c) \/ DeleteGroup(c) \/ DeleteMember(c)
  \/ SearchEntry(c) \/ ModifyDN(c) \/ SearchGroups(c) \/ ReplaceMembers(c)
  \/ SearchEntryToDelete(c) \/ DeleteEntry(c)
  \/ SearchMail(c) \/ ModifyPrimary(c) \/ ModifyAlternative(c)

Next == \E c \in Calls : Begin(c) \/ Step(c)

Spec == Init /\ [][Next]_vars

\* Node runs every continuation; a call of the server is answered or fails.
FairSpec == Spec /\ \A c \in Calls : WF_vars(Step(c))

-----------------------------------------------------------------------------
(* Properties                                                              *)

TypeOK ==
  /\ entries \in SUBSET Users
  /\ mail \in [Users -> [primary : MaybeAddress, alternative : MaybeAddress]]
  /\ structure \in [Schools -> {"none", "unit", "groups"}]
  /\ group \in [Schools -> SUBSET Users]
  /\ mutex \in Calls \union {NoCall}
  /\ faults \in 0 .. MaxFaults /\ raced \in BOOLEAN
  /\ request \in [Calls -> Requests \union {NoRequest}]
  /\ pc \in [Calls -> {"idle", "waiting"} \union Steps \union Answers]
  /\ attempt \in [Calls -> 1 .. Retries] /\ inner \in [Calls -> 1 .. Retries]
  /\ seenGroups \in [Calls -> [Schools -> SUBSET Users]]
  /\ seenMail \in [Calls -> MaybeAddress]
  /\ before \in [Calls -> [groups : SUBSET Schools, primary : MaybeAddress, known : SUBSET Users]]

\* No other operation has been about the same users.
Alone(c) == \A d \in Calls \ {c} : pc[d] = "idle" \/ Names(request[d]) \intersect Names(request[c]) = {}
Answered(c, kind, result) == request[c].kind = kind /\ pc[c] = result /\ Alone(c)

(* A teacher that createLehrer has answered "ok" for has an entry and stays *)
(* a member of the school's group, whatever happens to other teachers; one  *)
(* who was removed from a group stays out of it.                            *)
MembershipStays ==
  ~raced => \A c \in Calls :
    LET r == request[c] IN
    /\ Answered(c, "createLehrer", "ok") => r.user \in entries \intersect group[r.school]
    /\ Answered(c, "removePersonFromGroup", "ok") => r.user \notin group[r.school]

(* While no call fails, a renaming that is answered "ok" has moved the      *)
(* entry, and every membership with it: no group names the old DN any more; *)
(* and a change of the email address keeps the former one as the            *)
(* alternative address.  The retries make good for what they are meant for: *)
(* while fewer calls of the server fail than there are attempts,            *)
(* createLehrer succeeds unless a removal runs beside it, and so does the   *)
(* renaming of a teacher who has an entry to a free username.  But where the *)
(* entry was moved and only the answer was lost, every retry looks for the  *)
(* old username and the renaming fails.                                     *)
Moved(c) ==
  LET r == request[c] IN
  r.new \in entries /\ before[c].groups \subseteq GroupsOf(r.new)
    /\ (r.new # r.user => r.user \notin entries /\ GroupsOf(r.user) = {})
AddressKept(c) ==
  LET r == request[c] IN
  mail[r.user].primary = r.mail
    /\ (before[c].primary # NoAddress => mail[r.user].alternative = before[c].primary)
RetriesTolerate(c) ==
  \/ ~raced /\ Answered(c, "createLehrer", "failed")
  \/ /\ Answered(c, "modifyPersonAttributes", "failed")
     /\ before[c].known = {request[c].user} /\ request[c].user \in entries
  => faults >= Retries
ChangedAsAsked ==
  \A c \in Calls :
    /\ RetriesTolerate(c)
    /\ faults = 0 /\ ~raced /\ Answered(c, "modifyPersonAttributes", "ok") => Moved(c)
    /\ faults = 0 /\ Answered(c, "changeEmailAddress", "ok") => AddressKept(c)

(* A membership comes and goes only while an operation about that teacher   *)
(* is in progress.                                                          *)
OnlyAskedFor ==
  [][\A s \in Schools, u \in Users :
       ~raced /\ (u \in group[s]) # (u \in group'[s])
         => \E c \in InProgress : u \in Names(request[c])]_vars

(* Every operation is answered: no operation waits for the mutex that its   *)
(* caller holds, and a failing operation gives it back.                     *)
EveryCallAnswered == \A c \in Calls : At(c, "waiting") ~> pc[c] \in Answers
=============================================================================
