------------------------- MODULE LdapDirectoryProofs -------------------------
(***************************************************************************)
(* For any number of operations, teachers, schools and attempts: the mutex *)
(* keeps the operations apart, so that what one has read holds until it    *)
(* writes; removals are kept apart by nothing, so that some of the results *)
(* hold only while no removal overlaps another operation.                  *)
(***************************************************************************)
EXTENDS LdapDirectory, TLAPS

USE LdapAssumption
USE DEF vars, directory, control, data, past, Calls, NoCall, At, Answers

-----------------------------------------------------------------------------
(* The invariant                                                           *)

StepsOf(kind) ==
  CASE kind = "createLehrer" -> GroupSteps \union {"searchLehrer", "addLehrer"}
    [] kind = "removePersonFromGroup" -> {"searchMember", "deleteGroup", "deleteMember"}
    [] kind = "modifyPersonAttributes" -> {"searchEntry", "modifyDN", "searchGroups", "replaceMembers"}
    [] kind = "deleteLehrerByReferrer" -> {"searchEntryToDelete", "del"}
    [] kind = "changeEmailAddress" -> {"searchMail", "modifyPrimary", "modifyAlternative"}

(* An operation makes the calls of its kind.                                *)
RequestInv ==
  \A c \in Calls :
    IF pc[c] = "idle" THEN request[c] = NoRequest /\ attempt[c] = 1
    ELSE request[c] \in Requests /\ (pc[c] \in Steps => pc[c] \in StepsOf(request[c].kind))

(* The mutex is held by the operation that makes calls under it, until it   *)
(* waits for its next attempt or is answered.                               *)
MutexInv ==
  \A c \in Calls : pc[c] \in Steps /\ ~Removal(c) <=> mutex = c

RacedInv == ~raced => \A c, d \in InProgress : Removal(c) => c = d

(* What an operation has found out still holds.                             *)
EntryFound(c) ==
  LET r == request[c] IN
  /\ pc[c] = "addLehrer" => r.user \notin entries
  /\ pc[c] = "modifyDN" => r.user \in entries /\ r.new # r.user
  /\ pc[c] \in {"searchGroups", "replaceMembers"} =>
       r.new \in entries /\ (r.new # r.user => r.user \notin entries)
  /\ pc[c] \in {"modifyPrimary", "modifyAlternative"} => r.user \in entries

GroupFound(c) ==
  LET r == request[c] IN
  /\ pc[c] = "addGroup" => group[r.school] = {}
  /\ pc[c] = "addMember" => group[r.school] # {} /\ r.user \notin group[r.school]
  /\ pc[c] \in {"searchLehrer", "addLehrer"} => r.user \in group[r.school]
  /\ pc[c] = "deleteGroup" => group[r.school] = {r.user}
  /\ pc[c] = "replaceMembers" =>
       \A s \in Schools : seenGroups[c][s] # {} => group[s] = seenGroups[c][s]

FoundInv == \A c \in Calls : EntryFound(c) /\ (~raced => GroupFound(c))

(* Each operation, as long as no other one is about the same users.         *)
FaultsSpent(c) == attempt[c] <= faults + 1 /\ (pc[c] = "failed" => faults >= Retries)

CreateInv(c) ==
  request[c].kind = "createLehrer" /\ ~raced =>
    /\ pc[c] = "ok" => request[c].user \in entries \intersect group[request[c].school]
    /\ FaultsSpent(c)

RemoveInv(c) ==
  request[c].kind = "removePersonFromGroup" /\ ~raced /\ pc[c] = "ok"
    => request[c].user \notin group[request[c].school]

(* A renaming that has not moved the entry has failed only with calls of    *)
(* the server.                                                              *)
RenameInv(c) ==
  LET r == request[c] IN
  r.kind = "modifyPersonAttributes" /\ before[c].known = {r.user} /\ r.user \in entries
    => FaultsSpent(c) /\ (r.new = r.user \/ r.new \notin entries)

(* Without such failures, the memberships that were there when it began are *)
(* the user's before the groups are updated, and the new user's afterwards. *)
MoveInv(c) ==
  LET r == request[c] IN
  r.kind = "modifyPersonAttributes" /\ faults = 0 /\ ~raced =>
    /\ pc[c] \in {"waiting", "searchEntry", "modifyDN", "searchGroups"} => GroupsOf(r.user) = before[c].groups
    /\ pc[c] = "replaceMembers" =>
         /\ \A s \in before[c].groups : seenGroups[c][s] # {} \/ r.new \in group[s]
         /\ r.new # r.user => \A s \in GroupsOf(r.user) : seenGroups[c][s] # {}
    /\ pc[c] = "ok" => Moved(c)

MailInv(c) ==
  LET r == request[c] IN
  r.kind = "changeEmailAddress" /\ faults = 0 =>
    /\ pc[c] \in {"waiting", "searchMail", "modifyPrimary"} => mail[r.user].primary = before[c].primary
    /\ pc[c] \in {"modifyPrimary", "modifyAlternative"} /\ before[c].primary # NoAddress =>
         seenMail[c] = before[c].primary
    /\ pc[c] = "modifyAlternative" => mail[r.user].primary = r.mail
    /\ pc[c] = "ok" => AddressKept(c)

OperationInv(c) == CreateInv(c) /\ RemoveInv(c) /\ RenameInv(c) /\ MoveInv(c) /\ MailInv(c)

AloneInv == \A c \in Calls : pc[c] # "idle" /\ Alone(c) => OperationInv(c)

-----------------------------------------------------------------------------
(* Requests                                                                *)

(* What a request of each kind consists of.                                 *)
LEMMA RequestTypes ==
  ASSUME NEW r \in Requests
  PROVE  /\ r.kind \in {"createLehrer", "removePersonFromGroup", "modifyPersonAttributes",
                        "deleteLehrerByReferrer", "changeEmailAddress"}
         /\ r.user \in Users /\ Names(r) \subseteq Users
         /\ r.kind \in {"createLehrer", "removePersonFromGroup"} => r.school \in Schools
         /\ r.kind = "createLehrer" => r.mail \in MaybeAddress
         /\ r.kind = "modifyPersonAttributes" => r.new \in Users /\ r.new \in Names(r)
         /\ r.kind = "changeEmailAddress" => r.mail \in Addresses
         /\ r.user \in Names(r)
<1>1. \/ r \in [kind : {"createLehrer"}, user : Users, school : Schools, mail : MaybeAddress]
      \/ r \in [kind : {"removePersonFromGroup"}, user : Users, school : Schools]
      \/ r \in [kind : {"modifyPersonAttributes"}, user : Users, new : Users]
      \/ r \in [kind : {"deleteLehrerByReferrer"}, user : Users]
      \/ r \in [kind : {"changeEmailAddress"}, user : Users, mail : Addresses]
  BY DEF Requests
<1> QED
  BY <1>1 DEF Names

(* Which request is at which step.                                          *)
LEMMA RequestAt ==
  ASSUME RequestInv, NEW c \in Calls
  PROVE  /\ pc[c] # "idle" => request[c] \in Requests
         /\ pc[c] \in GroupSteps \union {"searchLehrer", "addLehrer"} => request[c].kind = "createLehrer"
         /\ pc[c] \in {"searchMember", "deleteGroup", "deleteMember"} => request[c].kind = "removePersonFromGroup"
         /\ pc[c] \in {"searchEntry", "modifyDN", "searchGroups", "replaceMembers"} =>
              request[c].kind = "modifyPersonAttributes"
         /\ pc[c] \in {"searchEntryToDelete", "del"} => request[c].kind = "deleteLehrerByReferrer"
         /\ pc[c] \in {"searchMail", "modifyPrimary", "modifyAlternative"} => request[c].kind = "changeEmailAddress"
<1>1. pc[c] # "idle" => request[c] \in Requests
  BY DEF RequestInv
<1>2. pc[c] \in Steps => pc[c] \in StepsOf(request[c].kind)
  BY DEF RequestInv, Steps, GroupSteps
<1>3. CASE pc[c] \in Steps
  BY <1>1, <1>2, <1>3, RequestTypes DEF StepsOf, Steps, GroupSteps
<1> QED
  BY <1>1, <1>3 DEF Steps, GroupSteps

-----------------------------------------------------------------------------
(* What a step does to the service                                         *)

(* A step goes on to another step of its kind, is repeated, or ends.        *)
Goes(c) == \E to \in StepsOf(request[c].kind) : pc' = [pc EXCEPT ![c] = to] /\ UNCHANGED <<mutex, attempt>>
Again(c) ==
  /\ attempt[c] < Retries
  /\ pc' = [pc EXCEPT ![c] = "waiting"]
  /\ attempt' = [attempt EXCEPT ![c] = @ + 1]
  /\ Release(c)
GivesUp(c) == attempt[c] = Retries /\ pc' = [pc EXCEPT ![c] = "failed"] /\ Release(c) /\ UNCHANGED attempt
Succeeds(c) == pc' = [pc EXCEPT ![c] = "ok"] /\ Release(c) /\ UNCHANGED attempt
Turn(c) == Goes(c) \/ Again(c) \/ GivesUp(c) \/ Succeeds(c)

(* An attempt that fails is made again or the call gives up (executeWithRetry). *)
LEMMA FailTurns ==
  ASSUME TypeOK, NEW c \in Calls, Fail(c)
  PROVE  (Again(c) \/ GivesUp(c)) /\ inner' \in [Calls -> 1 .. Retries]
<1>1. attempt[c] \in 1 .. Retries /\ inner \in [Calls -> 1 .. Retries]
  BY DEF TypeOK
<1>2. CASE attempt[c] < Retries
  BY <1>1, <1>2 DEF Fail, Again
<1>3. CASE ~(attempt[c] < Retries)
  BY <1>1, <1>3 DEF Fail, Answer, GivesUp
<1> QED
  BY <1>2, <1>3

(* A retry within an operation that fails begins at its first step again, until the
   inner attempts are used up; then it is an attempt of the outer one that fails. *)
LEMMA FailInnerTurns ==
  ASSUME TypeOK, NEW c \in Calls, NEW first \in StepsOf(request[c].kind), FailInner(c, first)
  PROVE  /\ \/ pc' = [pc EXCEPT ![c] = first] /\ UNCHANGED <<mutex, attempt>>
            \/ Again(c) \/ GivesUp(c)
         /\ inner' \in [Calls -> 1 .. Retries]
<1>1. inner \in [Calls -> 1 .. Retries] /\ inner[c] \in 1 .. Retries
  BY DEF TypeOK
<1>2. CASE inner[c] < Retries
  BY <1>1, <1>2 DEF FailInner
<1>3. CASE ~(inner[c] < Retries)
  BY <1>3, FailTurns DEF FailInner
<1> QED
  BY <1>2, <1>3

(* An operation that has been answered or is still waiting makes no call.   *)
LEMMA StepTurns ==
  ASSUME TypeOK, RequestInv, NEW c \in Calls, Step(c), ~Acquire(c)
  PROVE  /\ pc[c] \in Steps /\ Turn(c) /\ inner' \in [Calls -> 1 .. Retries]
         /\ UNCHANGED <<request, past>>
         /\ faults' = faults \/ (faults' = faults + 1 /\ faults < MaxFaults)
<1> USE DEF Goes, Turn
<1>a. /\ request[c].kind = "createLehrer" => StepsOf(request[c].kind) = GroupSteps \union {"searchLehrer", "addLehrer"}
      /\ request[c].kind = "removePersonFromGroup" =>
           StepsOf(request[c].kind) = {"searchMember", "deleteGroup", "deleteMember"}
      /\ request[c].kind = "modifyPersonAttributes" =>
           StepsOf(request[c].kind) = {"searchEntry", "modifyDN", "searchGroups", "replaceMembers"}
      /\ request[c].kind = "deleteLehrerByReferrer" => StepsOf(request[c].kind) = {"searchEntryToDelete", "del"}
      /\ request[c].kind = "changeEmailAddress" =>
           StepsOf(request[c].kind) = {"searchMail", "modifyPrimary", "modifyAlternative"}
  BY DEF StepsOf
<1>g. ASSUME NEW to \in StepsOf(request[c].kind), Goto(c, to)
      PROVE  Turn(c) /\ inner' \in [Calls -> 1 .. Retries]
  BY <1>g DEF Goto, TypeOK
<1>f. ASSUME Fail(c) PROVE Turn(c) /\ inner' \in [Calls -> 1 .. Retries]
  BY <1>f, FailTurns
<1>i. ASSUME NEW first \in StepsOf(request[c].kind), FailInner(c, first)
      PROVE  Turn(c) /\ inner' \in [Calls -> 1 .. Retries]
  BY <1>i, FailInnerTurns
<1>o. ASSUME Answer(c, "ok") PROVE Turn(c) /\ inner' \in [Calls -> 1 .. Retries]
  BY <1>o DEF Answer, Succeeds, TypeOK
<1>1. CASE EnsureOrgUnit(c) \/ EnsureOrgRole(c)
  <2>1. pc[c] \in {"orgUnit", "orgRole"}
    BY <1>1 DEF EnsureOrgUnit, EnsureOrgRole
  <2>2. {"orgUnit", "orgRole", "searchGroup"} \subseteq StepsOf(request[c].kind)
    BY <1>a, <2>1, RequestAt DEF GroupSteps
  <2>3. Goto(c, "orgRole") \/ Goto(c, "searchGroup") \/ FailInner(c, "orgUnit")
    BY <1>1 DEF EnsureOrgUnit, EnsureOrgRole, Call
  <2>4. UNCHANGED <<request, past>> /\ (faults' = faults \/ (faults' = faults + 1 /\ faults < MaxFaults))
    BY <1>1 DEF EnsureOrgUnit, EnsureOrgRole, Call, Fault
  <2> QED
    BY <1>g, <1>i, <2>1, <2>2, <2>3, <2>4 DEF Steps, GroupSteps
<1>2. CASE SearchGroup(c)
  <2>1. pc[c] = "searchGroup"
    BY <1>2 DEF SearchGroup
  <2>2. {"orgUnit", "addGroup", "addMember", "searchLehrer"} \subseteq StepsOf(request[c].kind)
    BY <1>a, <2>1, RequestAt DEF GroupSteps
  <2>3. Goto(c, "addGroup") \/ Goto(c, "searchLehrer") \/ Goto(c, "addMember") \/ FailInner(c, "orgUnit")
    BY <1>2 DEF SearchGroup, Read
  <2>4. UNCHANGED <<request, past>> /\ (faults' = faults \/ (faults' = faults + 1 /\ faults < MaxFaults))
    BY <1>2 DEF SearchGroup, Read, Fault
  <2> QED
    BY <1>g, <1>i, <2>1, <2>2, <2>3, <2>4 DEF Steps, GroupSteps
<1>3. CASE AddGroup(c) \/ AddMember(c)
  <2>1. pc[c] \in {"addGroup", "addMember"}
    BY <1>3 DEF AddGroup, AddMember
  <2>2. {"orgUnit", "searchLehrer"} \subseteq StepsOf(request[c].kind)
    BY <1>a, <2>1, RequestAt DEF GroupSteps
  <2>3. Goto(c, "searchLehrer") \/ FailInner(c, "orgUnit")
    BY <1>3 DEF AddGroup, AddMember, Call
  <2>4. UNCHANGED <<request, past>> /\ (faults' = faults \/ (faults' = faults + 1 /\ faults < MaxFaults))
    BY <1>3 DEF AddGroup, AddMember, Call, Fault
  <2> QED
    BY <1>g, <1>i, <2>1, <2>2, <2>3, <2>4 DEF Steps, GroupSteps
<1>4. CASE SearchLehrer(c) \/ AddLehrer(c)
  <2>1. pc[c] \in {"searchLehrer", "addLehrer"}
    BY <1>4 DEF SearchLehrer, AddLehrer
  <2>2. "addLehrer" \in StepsOf(request[c].kind)
    BY <1>a, <2>1, RequestAt
  <2>3. Goto(c, "addLehrer") \/ Answer(c, "ok") \/ Fail(c)
    BY <1>4 DEF SearchLehrer, AddLehrer, Call, Read
  <2>4. UNCHANGED <<request, past>> /\ (faults' = faults \/ (faults' = faults + 1 /\ faults < MaxFaults))
    BY <1>4 DEF SearchLehrer, AddLehrer, Call, Read, Fault
  <2> QED
    BY <1>g, <1>f, <1>o, <2>1, <2>2, <2>3, <2>4 DEF Steps
<1>5. CASE SearchMember(c) \/ DeleteGroup(c) \/ DeleteMember(c)
  <2>1. pc[c] \in {"searchMember", "deleteGroup", "deleteMember"}
    BY <1>5 DEF SearchMember, DeleteGroup, DeleteMember
  <2>2. {"deleteGroup", "deleteMember"} \subseteq StepsOf(request[c].kind)
    BY <1>a, <2>1, RequestAt
  <2>3. Goto(c, "deleteGroup") \/ Goto(c, "deleteMember") \/ Answer(c, "ok") \/ Fail(c)
    BY <1>5 DEF SearchMember, DeleteGroup, DeleteMember, Call, Read
  <2>4. UNCHANGED <<request, past>> /\ (faults' = faults \/ (faults' = faults + 1 /\ faults < MaxFaults))
    BY <1>5 DEF SearchMember, DeleteGroup, DeleteMember, Call, Read, Fault
  <2> QED
    BY <1>g, <1>f, <1>o, <2>1, <2>2, <2>3, <2>4 DEF Steps
<1>6. CASE SearchEntry(c) \/ ModifyDN(c)
  <2>1. pc[c] \in {"searchEntry", "modifyDN"}
    BY <1>6 DEF SearchEntry, ModifyDN
  <2>2. {"searchGroups", "modifyDN"} \subseteq StepsOf(request[c].kind)
    BY <1>a, <2>1, RequestAt
  <2>3. Goto(c, "searchGroups") \/ Goto(c, "modifyDN") \/ Fail(c)
    BY <1>6 DEF SearchEntry, ModifyDN, Call, Read
  <2>4. UNCHANGED <<request, past>> /\ (faults' = faults \/ (faults' = faults + 1 /\ faults < MaxFaults))
    BY <1>6 DEF SearchEntry, ModifyDN, Call, Read, Fault
  <2> QED
    BY <1>g, <1>f, <2>1, <2>2, <2>3, <2>4 DEF Steps
<1>7. CASE SearchGroups(c) \/ ReplaceMembers(c)
  <2>1. pc[c] \in {"searchGroups", "replaceMembers"}
    BY <1>7 DEF SearchGroups, ReplaceMembers
  <2>2. {"searchGroups", "replaceMembers"} \subseteq StepsOf(request[c].kind)
    BY <1>a, <2>1, RequestAt
  <2>3. Goto(c, "replaceMembers") \/ Answer(c, "ok") \/ FailInner(c, "searchGroups")
    BY <1>7 DEF SearchGroups, ReplaceMembers, Call, Read
  <2>4. UNCHANGED <<request, past>> /\ (faults' = faults \/ (faults' = faults + 1 /\ faults < MaxFaults))
    BY <1>7 DEF SearchGroups, ReplaceMembers, Call, Read, Fault
  <2> QED
    BY <1>g, <1>i, <1>o, <2>1, <2>2, <2>3, <2>4 DEF Steps
<1>8. CASE SearchEntryToDelete(c) \/ DeleteEntry(c)
  <2>1. pc[c] \in {"searchEntryToDelete", "del"}
    BY <1>8 DEF SearchEntryToDelete, DeleteEntry
  <2>2. "del" \in StepsOf(request[c].kind)
    BY <1>a, <2>1, RequestAt
  <2>3. Goto(c, "del") \/ Answer(c, "ok") \/ Fail(c)
    BY <1>8 DEF SearchEntryToDelete, DeleteEntry, Call, Read
  <2>4. UNCHANGED <<request, past>> /\ (faults' = faults \/ (faults' = faults + 1 /\ faults < MaxFaults))
    BY <1>8 DEF SearchEntryToDelete, DeleteEntry, Call, Read, Fault
  <2> QED
    BY <1>g, <1>f, <1>o, <2>1, <2>2, <2>3, <2>4 DEF Steps
<1>9. CASE SearchMail(c) \/ ModifyPrimary(c) \/ ModifyAlternative(c)
  <2>1. pc[c] \in {"searchMail", "modifyPrimary", "modifyAlternative"}
    BY <1>9 DEF SearchMail, ModifyPrimary, ModifyAlternative
  <2>2. {"modifyPrimary", "modifyAlternative"} \subseteq StepsOf(request[c].kind)
    BY <1>a, <2>1, RequestAt
  <2>3. Goto(c, "modifyPrimary") \/ Goto(c, "modifyAlternative") \/ Answer(c, "ok") \/ Fail(c)
    BY <1>9 DEF SearchMail, ModifyPrimary, ModifyAlternative, Call, Read
  <2>4. UNCHANGED <<request, past>> /\ (faults' = faults \/ (faults' = faults + 1 /\ faults < MaxFaults))
    BY <1>9 DEF SearchMail, ModifyPrimary, ModifyAlternative, Call, Read, Fault
  <2> QED
    BY <1>g, <1>f, <1>o, <2>1, <2>2, <2>3, <2>4 DEF Steps
<1> QED
  BY <1>1, <1>2, <1>3, <1>4, <1>5, <1>6, <1>7, <1>8, <1>9 DEF Step


(* A turn changes the place of the operation only.                          *)
LEMMA TurnPlaces ==
  ASSUME TypeOK, RequestInv, NEW c \in Calls, pc[c] \in Steps, Turn(c)
  PROVE  /\ pc' \in [Calls -> {"idle", "waiting"} \union Steps \union Answers]
         /\ attempt' \in [Calls -> 1 .. Retries] /\ mutex' \in Calls \union {NoCall}
         /\ pc'[c] \in StepsOf(request[c].kind) \union {"waiting"} \union Answers
         /\ pc'[c] \in Steps => mutex' = mutex
         /\ pc'[c] \notin Steps => mutex' = (IF mutex = c THEN NoCall ELSE mutex)
         /\ \A d \in Calls \ {c} : pc'[d] = pc[d] /\ attempt'[d] = attempt[d]
<1>1. StepsOf(request[c].kind) \subseteq Steps
  <2>1. request[c] \in Requests
    BY DEF RequestInv, Steps, GroupSteps
  <2> QED
    BY <2>1, RequestTypes DEF StepsOf, Steps, GroupSteps
<1>2. {"waiting", "ok", "failed"} \intersect Steps = {}
  BY DEF Steps, GroupSteps
<1>3. pc \in [Calls -> {"idle", "waiting"} \union Steps \union Answers] /\ attempt \in [Calls -> 1 .. Retries]
        /\ mutex \in Calls \union {NoCall}
  BY DEF TypeOK
<1>4. CASE Goes(c)
  BY <1>1, <1>3, <1>4 DEF Goes
<1>5. CASE Again(c)
  <2>1. attempt[c] + 1 \in 1 .. Retries
    BY <1>3, <1>5 DEF Again
  <2> QED
    BY <1>2, <1>3, <1>5, <2>1 DEF Again, Release
<1>6. CASE GivesUp(c) \/ Succeeds(c)
  BY <1>2, <1>3, <1>6 DEF GivesUp, Succeeds, Release
<1> QED
  BY <1>4, <1>5, <1>6 DEF Turn

(* Acquire takes the mutex, unless for a removal.                           *)
LEMMA AcquirePlaces ==
  ASSUME TypeOK, RequestInv, NEW c \in Calls, Acquire(c)
  PROVE  /\ pc[c] = "waiting" /\ pc' \in [Calls -> {"idle", "waiting"} \union Steps \union Answers]
         /\ request[c] \in Requests /\ pc'[c] = FirstStep(request[c].kind)
         /\ pc'[c] \in StepsOf(request[c].kind) \intersect Steps
         /\ IF Removal(c) THEN UNCHANGED mutex ELSE mutex = NoCall /\ mutex' = c
         /\ \A d \in Calls \ {c} : pc'[d] = pc[d]
         /\ UNCHANGED <<directory, faults, attempt, inner, data>>
<1>1. pc[c] = "waiting" /\ request[c] \in Requests
  BY DEF Acquire, RequestInv
<1>2. FirstStep(request[c].kind) \in StepsOf(request[c].kind) \intersect Steps
  BY <1>1, RequestTypes DEF FirstStep, StepsOf, Steps, GroupSteps
<1> QED
  BY <1>1, <1>2 DEF Acquire, TypeOK

(* Begin takes the next operation.                                          *)
LEMMA BeginPlaces ==
  ASSUME TypeOK, NEW c \in Calls, Begin(c)
  PROVE  /\ pc[c] = "idle" /\ pc' = [pc EXCEPT ![c] = "waiting"]
         /\ \E r \in Requests :
              /\ request' = [request EXCEPT ![c] = r]
              /\ before' = [before EXCEPT ![c] = [groups |-> GroupsOf(r.user),
                                                  primary |-> mail[r.user].primary,
                                                  known |-> entries \intersect Names(r)]]
              /\ raced' = (raced \/ \E d \in InProgress : Removal(d) \/ r.kind = "removePersonFromGroup")
         /\ UNCHANGED <<directory, faults, mutex, attempt, inner, seenGroups, seenMail>>
BY DEF Begin, Goto

-----------------------------------------------------------------------------
(* Type correctness, and which operation makes which calls                 *)

(* Before the first call the state is well typed. *)
LEMMA InitTyped == Init => TypeOK /\ RequestInv
<1> SUFFICES ASSUME Init PROVE TypeOK /\ RequestInv
  OBVIOUS
<1>1. mail \in [Users -> [primary : MaybeAddress, alternative : MaybeAddress]]
  BY DEF Init, NoMail, MaybeAddress
<1>2. attempt \in [Calls -> 1 .. Retries] /\ inner \in [Calls -> 1 .. Retries]
  BY DEF Init
<1>3. before \in [Calls -> [groups : SUBSET Schools, primary : MaybeAddress, known : SUBSET Users]]
  BY DEF Init, MaybeAddress
<1>4. /\ structure \in [Schools -> {"none", "unit", "groups"}] /\ group \in [Schools -> SUBSET Users]
      /\ seenGroups \in [Calls -> [Schools -> SUBSET Users]] /\ seenMail \in [Calls -> MaybeAddress]
  BY DEF Init, NoMembers, MaybeAddress
<1>5. entries \in SUBSET Users /\ mutex \in Calls \union {NoCall} /\ faults \in 0 .. MaxFaults
  BY DEF Init
<1>8. raced \in BOOLEAN
  BY DEF Init
<1>6. /\ request \in [Calls -> Requests \union {NoRequest}]
      /\ pc \in [Calls -> {"idle", "waiting"} \union Steps \union Answers]
  BY DEF Init
<1>7. RequestInv
  BY DEF Init, RequestInv
<1> QED
  BY <1>1, <1>2, <1>3, <1>4, <1>5, <1>6, <1>7, <1>8 DEF TypeOK

DirectoryTyped ==
  /\ entries \in SUBSET Users
  /\ mail \in [Users -> [primary : MaybeAddress, alternative : MaybeAddress]]
  /\ structure \in [Schools -> {"none", "unit", "groups"}]
  /\ group \in [Schools -> SUBSET Users]
  /\ seenGroups \in [Calls -> [Schools -> SUBSET Users]]
  /\ seenMail \in [Calls -> MaybeAddress]

(* The calls of the server keep the directory well typed.                   *)
LEMMA CallsTyped ==
  ASSUME TypeOK, RequestInv, NEW c \in Calls, Step(c)
  PROVE  DirectoryTyped'
<1> DEFINE r == request[c]
<1>t. DirectoryTyped
  BY DEF TypeOK, DirectoryTyped
<1>s. ASSUME UNCHANGED directory, UNCHANGED <<seenGroups, seenMail>> PROVE DirectoryTyped'
  BY <1>t, <1>s DEF DirectoryTyped
<1>1. CASE EnsureOrgUnit(c) \/ EnsureOrgRole(c)
  <2>1. r.school \in Schools
    BY <1>1, RequestAt, RequestTypes DEF EnsureOrgUnit, EnsureOrgRole, GroupSteps
  <2>2. UNCHANGED <<entries, mail, group, seenGroups, seenMail>>
    BY <1>1 DEF EnsureOrgUnit, EnsureOrgRole, Call, SetStructure
  <2>3. structure' = structure \/ \E v \in {"none", "unit", "groups"} : structure' = [structure EXCEPT ![r.school] = v]
    BY <1>1, <1>t, <2>1 DEF EnsureOrgUnit, EnsureOrgRole, Call, SetStructure, DirectoryTyped
  <2> QED
    BY <1>t, <2>2, <2>3 DEF DirectoryTyped
<1>2. CASE AddGroup(c) \/ AddMember(c)
  <2>1. r.school \in Schools /\ r.user \in Users
    BY <1>2, RequestAt, RequestTypes DEF AddGroup, AddMember, GroupSteps
  <2>2. UNCHANGED <<entries, mail, structure, seenGroups, seenMail>>
    BY <1>2 DEF AddGroup, AddMember, Call, SetGroup
  <2>3. group' = group \/ \E v \in SUBSET Users : group' = [group EXCEPT ![r.school] = v]
    BY <1>2, <1>t, <2>1 DEF AddGroup, AddMember, Call, SetGroup, DirectoryTyped
  <2> QED
    BY <1>t, <2>2, <2>3 DEF DirectoryTyped
<1>3. CASE AddLehrer(c)
  <2>1. r.user \in Users /\ r.mail \in MaybeAddress
    BY <1>3, RequestAt, RequestTypes DEF AddLehrer
  <2>2. UNCHANGED <<structure, group, seenGroups, seenMail>>
    BY <1>3 DEF AddLehrer, Call
  <2>3. UNCHANGED <<entries, mail>>
          \/ (entries' = entries \union {r.user}
              /\ mail' = [mail EXCEPT ![r.user] = [primary |-> r.mail, alternative |-> r.mail]])
    BY <1>3 DEF AddLehrer, Call
  <2> QED
    BY <1>t, <2>1, <2>2, <2>3 DEF DirectoryTyped
<1>4. CASE DeleteGroup(c) \/ DeleteMember(c)
  <2>1. UNCHANGED <<entries, mail, structure, seenGroups, seenMail>>
    BY <1>4 DEF DeleteGroup, DeleteMember, Call, SetGroup
  <2>2. r.school \in Schools
    BY <1>4, RequestAt, RequestTypes DEF DeleteGroup, DeleteMember
  <2>3. group' = group \/ \E v \in SUBSET Users : group' = [group EXCEPT ![r.school] = v]
    BY <1>4, <1>t, <2>2 DEF DeleteGroup, DeleteMember, Call, SetGroup, DirectoryTyped
  <2> QED
    BY <1>t, <2>1, <2>3 DEF DirectoryTyped
<1>5. CASE ModifyDN(c)
  <2>1. r.user \in Users /\ r.new \in Users
    BY <1>5, RequestAt, RequestTypes DEF ModifyDN
  <2>2. UNCHANGED <<structure, group, seenGroups, seenMail>>
    BY <1>5 DEF ModifyDN, Call
  <2>3. UNCHANGED <<entries, mail>>
          \/ (entries' = (entries \ {r.user}) \union {r.new}
              /\ mail' = [mail EXCEPT ![r.new] = mail[r.user], ![r.user] = NoMail])
    BY <1>5 DEF ModifyDN, Call
  <2>4. NoMail \in [primary : MaybeAddress, alternative : MaybeAddress]
    BY DEF NoMail, MaybeAddress
  <2>5. mail' \in [Users -> [primary : MaybeAddress, alternative : MaybeAddress]]
    <3> DEFINE M == [primary : MaybeAddress, alternative : MaybeAddress]
    <3>1. mail \in [Users -> M] /\ NoMail \in M
      BY <1>t, <2>4 DEF DirectoryTyped
    <3>2. UNCHANGED mail \/ mail' = [mail EXCEPT ![r.new] = mail[r.user], ![r.user] = NoMail]
      BY <2>3
    <3> HIDE DEF M
    <3>3. mail' \in [Users -> M]
      BY <2>1, <3>1, <3>2
    <3> QED
      BY <3>3 DEF M
  <2>6. entries' \in SUBSET Users
    BY <1>t, <2>1, <2>3 DEF DirectoryTyped
  <2> QED
    BY <1>t, <2>2, <2>5, <2>6 DEF DirectoryTyped
<1>6. CASE SearchGroups(c)
  <2>1. UNCHANGED <<directory, seenMail>>
    BY <1>6 DEF SearchGroups, Read
  <2>2. UNCHANGED seenGroups
          \/ \E of \in SUBSET Schools :
               seenGroups' = [seenGroups EXCEPT ![c] = [s \in Schools |-> IF s \in of THEN group[s] ELSE {}]]
    BY <1>6 DEF SearchGroups, Read, GroupsOf
  <2>3. UNCHANGED <<entries, mail, structure, group, seenMail>>
    BY <2>1 DEF directory
  <2>4. seenGroups \in [Calls -> [Schools -> SUBSET Users]] /\ group \in [Schools -> SUBSET Users]
    BY <1>t DEF DirectoryTyped
  <2>5. seenGroups' \in [Calls -> [Schools -> SUBSET Users]]
    <3>1. CASE UNCHANGED seenGroups
      BY <2>4, <3>1
    <3>2. CASE \E of \in SUBSET Schools :
                 seenGroups' = [seenGroups EXCEPT ![c] = [s \in Schools |-> IF s \in of THEN group[s] ELSE {}]]
      <4>1. PICK of \in SUBSET Schools :
              seenGroups' = [seenGroups EXCEPT ![c] = [s \in Schools |-> IF s \in of THEN group[s] ELSE {}]]
        BY <3>2
      <4>2. PICK f : f = [s \in Schools |-> IF s \in of THEN group[s] ELSE {}]
        OBVIOUS
      <4>3. f \in [Schools -> SUBSET Users]
        BY <2>4, <4>2
      <4>4. seenGroups' = [seenGroups EXCEPT ![c] = f]
        BY <4>1, <4>2
      <4> QED
        BY <2>4, <4>3, <4>4
    <3> QED
      BY <2>2, <3>1, <3>2
  <2> QED
    BY <1>t, <2>3, <2>5 DEF DirectoryTyped
<1>7. CASE ReplaceMembers(c)
  <2>1. r.new \in Users
    BY <1>7, RequestAt, RequestTypes DEF ReplaceMembers
  <2>2. PICK s \in Schools : /\ seenGroups' = [seenGroups EXCEPT ![c][s] = {}]
                             /\ group' = group \/ group' = [group EXCEPT ![s] = (seenGroups[c][s] \ {r.user}) \union {r.new}]
    BY <1>7 DEF ReplaceMembers, Call, SetGroup
  <2>3. UNCHANGED <<entries, mail, structure, seenMail>>
    BY <1>7 DEF ReplaceMembers, Call, SetGroup
  <2>4. (seenGroups[c][s] \ {r.user}) \union {r.new} \in SUBSET Users
    BY <1>t, <2>1 DEF DirectoryTyped
  <2>5. group' \in [Schools -> SUBSET Users]
    BY <1>t, <2>1, <2>2, <2>4 DEF DirectoryTyped
  <2>6. seenGroups' \in [Calls -> [Schools -> SUBSET Users]]
    <3>1. seenGroups \in [Calls -> [Schools -> SUBSET Users]]
      BY <1>t DEF DirectoryTyped
    <3>2. [seenGroups[c] EXCEPT ![s] = {}] \in [Schools -> SUBSET Users]
      BY <3>1
    <3> QED
      BY <2>2, <3>1, <3>2
  <2> QED
    BY <1>t, <2>3, <2>5, <2>6 DEF DirectoryTyped
<1>8. CASE DeleteEntry(c)
  <2>1. UNCHANGED <<structure, group, seenGroups, seenMail>>
    BY <1>8 DEF DeleteEntry, Call
  <2>2. UNCHANGED <<entries, mail>> \/ (entries' = entries \ {r.user} /\ mail' = [mail EXCEPT ![r.user] = NoMail])
    BY <1>8 DEF DeleteEntry, Call
  <2>3. NoMail \in [primary : MaybeAddress, alternative : MaybeAddress]
    BY DEF NoMail, MaybeAddress
  <2> QED
    BY <1>t, <2>1, <2>2, <2>3 DEF DirectoryTyped
<1>9. CASE SearchMail(c)
  <2>1. UNCHANGED <<directory, seenGroups>>
    BY <1>9 DEF SearchMail, Read
  <2>2. r.user \in Users /\ r.mail \in Addresses
    BY <1>9, RequestAt, RequestTypes DEF SearchMail
  <2>3. mail[r.user].primary \in MaybeAddress
    BY <1>t, <2>2 DEF DirectoryTyped
  <2>4. UNCHANGED seenMail \/ \E a \in MaybeAddress : seenMail' = [seenMail EXCEPT ![c] = a]
    BY <1>9, <2>2, <2>3 DEF SearchMail, Read, MaybeAddress
  <2> QED
    BY <1>t, <2>1, <2>4 DEF DirectoryTyped
<1>10. CASE ModifyPrimary(c) \/ ModifyAlternative(c)
  <2>1. UNCHANGED <<entries, structure, group, seenGroups, seenMail>>
    BY <1>10 DEF ModifyPrimary, ModifyAlternative, Call, SetMail
  <2>2. r.user \in Users /\ r.mail \in MaybeAddress
    BY <1>10, RequestAt, RequestTypes DEF ModifyPrimary, ModifyAlternative, MaybeAddress
  <2>3. /\ mail[r.user] \in [primary : MaybeAddress, alternative : MaybeAddress]
        /\ seenMail[c] \in MaybeAddress
    BY <1>t, <2>2 DEF DirectoryTyped
  <2>4. \/ UNCHANGED mail
        \/ mail' = [mail EXCEPT ![r.user] = [mail[r.user] EXCEPT !.primary = r.mail]]
        \/ mail' = [mail EXCEPT ![r.user] = [mail[r.user] EXCEPT !.alternative = seenMail[c]]]
    BY <1>10 DEF ModifyPrimary, ModifyAlternative, Call, SetMail
  <2>5. /\ [mail[r.user] EXCEPT !.primary = r.mail] \in [primary : MaybeAddress, alternative : MaybeAddress]
        /\ [mail[r.user] EXCEPT !.alternative = seenMail[c]] \in [primary : MaybeAddress, alternative : MaybeAddress]
    BY <2>2, <2>3
  <2>6. mail' \in [Users -> [primary : MaybeAddress, alternative : MaybeAddress]]
    BY <1>t, <2>4, <2>5 DEF DirectoryTyped
  <2> QED
    BY <1>t, <2>1, <2>6 DEF DirectoryTyped
<1>11. CASE Acquire(c) \/ SearchGroup(c) \/ SearchLehrer(c) \/ SearchMember(c) \/ SearchEntry(c) \/ SearchEntryToDelete(c)
  BY <1>11, <1>s DEF Acquire, SearchGroup, SearchLehrer, SearchMember, SearchEntry, SearchEntryToDelete, Read
<1> QED
  BY <1>1, <1>2, <1>3, <1>4, <1>5, <1>6, <1>7, <1>8, <1>9, <1>10, <1>11 DEF Step

(* Every step keeps the types.                                              *)
LEMMA NextTyped == TypeOK /\ RequestInv /\ [Next]_vars => TypeOK' /\ RequestInv'
<1> SUFFICES ASSUME TypeOK, RequestInv, [Next]_vars PROVE TypeOK' /\ RequestInv'
  OBVIOUS
<1>1. ASSUME NEW c \in Calls, Begin(c) PROVE TypeOK' /\ RequestInv'
  <2>1. PICK r \in Requests :
          /\ request' = [request EXCEPT ![c] = r]
          /\ before' = [before EXCEPT ![c] = [groups |-> GroupsOf(r.user),
                                              primary |-> mail[r.user].primary,
                                              known |-> entries \intersect Names(r)]]
          /\ raced' = (raced \/ \E d \in InProgress : Removal(d) \/ r.kind = "removePersonFromGroup")
    BY <1>1, BeginPlaces
  <2>2. /\ pc[c] = "idle" /\ pc' = [pc EXCEPT ![c] = "waiting"]
        /\ UNCHANGED <<directory, faults, mutex, attempt, inner, seenGroups, seenMail>>
    BY <1>1, BeginPlaces
  <2>3. [groups |-> GroupsOf(r.user), primary |-> mail[r.user].primary, known |-> entries \intersect Names(r)]
          \in [groups : SUBSET Schools, primary : MaybeAddress, known : SUBSET Users]
    BY RequestTypes DEF TypeOK, GroupsOf
  <2>4. before' \in [Calls -> [groups : SUBSET Schools, primary : MaybeAddress, known : SUBSET Users]]
    BY <2>1, <2>3 DEF TypeOK
  <2>5. raced' \in BOOLEAN
    BY <2>1 DEF TypeOK
  <2>6. /\ request' \in [Calls -> Requests \union {NoRequest}]
        /\ pc' \in [Calls -> {"idle", "waiting"} \union Steps \union Answers]
    BY <2>1, <2>2 DEF TypeOK
  <2>7. TypeOK'
    BY <2>2, <2>4, <2>5, <2>6 DEF TypeOK
  <2>8. RequestInv'
    BY <2>1, <2>2 DEF RequestInv, TypeOK, Steps, GroupSteps
  <2> QED
    BY <2>7, <2>8
<1>2. ASSUME NEW c \in Calls, Acquire(c) PROVE TypeOK' /\ RequestInv'
  <2>1. mutex' \in Calls \union {NoCall}
    BY <1>2, AcquirePlaces DEF TypeOK
  <2>2. TypeOK'
    BY <1>2, <2>1, AcquirePlaces DEF TypeOK
  <2>3. RequestInv'
    BY <1>2, AcquirePlaces DEF RequestInv, Steps, GroupSteps
  <2> QED
    BY <2>2, <2>3
<1>3. ASSUME NEW c \in Calls, Step(c), ~Acquire(c) PROVE TypeOK' /\ RequestInv'
  <2>1. pc[c] \in Steps /\ Turn(c)
    BY <1>3, StepTurns
  <2>2. inner' \in [Calls -> 1 .. Retries] /\ UNCHANGED <<request, past>>
    BY <1>3, StepTurns
  <2>3. faults' \in 0 .. MaxFaults
    <3>1. faults \in 0 .. MaxFaults /\ (faults' = faults \/ (faults' = faults + 1 /\ faults < MaxFaults))
      BY <1>3, StepTurns DEF TypeOK
    <3> QED
      BY <3>1
  <2>4. DirectoryTyped'
    BY <1>3, CallsTyped
  <2>5. TypeOK'
    BY <2>1, <2>2, <2>3, <2>4, TurnPlaces DEF TypeOK, DirectoryTyped
  <2>6. pc[c] # "idle" /\ request[c] \in Requests
    BY <2>1 DEF RequestInv, Steps, GroupSteps
  <2>7. pc'[c] # "idle" /\ (pc'[c] \in Steps => pc'[c] \in StepsOf(request[c].kind))
    <3>1. "idle" \notin StepsOf(request[c].kind)
      BY <2>6, RequestTypes DEF StepsOf, GroupSteps
    <3>2. {"waiting", "ok", "failed"} \intersect Steps = {}
      BY DEF Steps, GroupSteps
    <3>3. pc'[c] \in StepsOf(request[c].kind) \union {"waiting"} \union Answers
      BY <2>1, TurnPlaces
    <3> QED
      BY <3>1, <3>2, <3>3
  <2>8. \A d \in Calls \ {c} : pc'[d] = pc[d] /\ attempt'[d] = attempt[d]
    BY <2>1, TurnPlaces
  <2>9. RequestInv'
    BY <2>2, <2>6, <2>7, <2>8 DEF RequestInv
  <2> QED
    BY <2>5, <2>9
<1>4. CASE UNCHANGED vars
  BY <1>4 DEF TypeOK, RequestInv
<1> QED
  BY <1>1, <1>2, <1>3, <1>4 DEF Next

(* Every reachable state is well typed: no operation is attempted more      *)
(* often than DEFAULT_RETRIES, and each makes the calls of its kind only.   *)
THEOREM DirectoryStaysTyped == Spec => []TypeOK
BY InitTyped, NextTyped, PTL DEF Spec

-----------------------------------------------------------------------------
(* Mutual exclusion                                                        *)

(* Before the first call nobody has the mutex, and nothing has raced. *)
LEMMA InitExclusive == Init => MutexInv /\ RacedInv
BY DEF Init, MutexInv, RacedInv, InProgress, Steps, GroupSteps

(* No step lets a second call into the part guarded by the mutex; and unless they
   race, a removal is the only call in progress. *)
LEMMA NextExclusive ==
  TypeOK /\ RequestInv /\ MutexInv /\ RacedInv /\ [Next]_vars => MutexInv' /\ RacedInv'
<1> SUFFICES ASSUME TypeOK, RequestInv, MutexInv, RacedInv, [Next]_vars PROVE MutexInv' /\ RacedInv'
  OBVIOUS
<1>s. {"idle", "waiting", "ok", "failed"} \intersect Steps = {}
  BY DEF Steps, GroupSteps
<1>1. ASSUME NEW c \in Calls, Begin(c) PROVE MutexInv' /\ RacedInv'
  <2>1. PICK r \in Requests :
          /\ request' = [request EXCEPT ![c] = r]
          /\ raced' = (raced \/ \E d \in InProgress : Removal(d) \/ r.kind = "removePersonFromGroup")
    BY <1>1, BeginPlaces
  <2>2. pc[c] = "idle" /\ pc' = [pc EXCEPT ![c] = "waiting"] /\ UNCHANGED mutex
    BY <1>1, BeginPlaces
  <2>3. /\ \A d \in Calls \ {c} : pc'[d] = pc[d] /\ request'[d] = request[d] /\ (Removal(d)' <=> Removal(d))
        /\ pc'[c] = "waiting" /\ request'[c] = r
    BY <2>1, <2>2 DEF TypeOK, Removal
  <2>4. MutexInv'
    BY <1>s, <2>2, <2>3 DEF MutexInv
  <2>5. ASSUME ~raced', NEW d \in InProgress', NEW e \in InProgress', Removal(d)' PROVE d = e
    <3>1. ~raced /\ \A f \in InProgress : ~Removal(f) /\ r.kind # "removePersonFromGroup"
      BY <2>1, <2>5
    <3>2. \A f \in InProgress' : f = c \/ f \in InProgress
      BY <2>3 DEF InProgress
    <3>3. d = c /\ r.kind = "removePersonFromGroup"
      BY <2>3, <2>5, <3>1, <3>2 DEF Removal, InProgress
    <3> QED
      BY <3>1, <3>2, <3>3
  <2> QED
    BY <2>4, <2>5 DEF RacedInv
<1>2. ASSUME NEW c \in Calls, Acquire(c) PROVE MutexInv' /\ RacedInv'
  <2>1. MutexInv'
    BY <1>2, <1>s, AcquirePlaces DEF MutexInv, Removal
  <2>2. InProgress' = InProgress
    BY <1>2, <1>s, AcquirePlaces DEF InProgress
  <2>3. RacedInv'
    BY <1>2, <2>2, AcquirePlaces DEF RacedInv, Removal, InProgress
  <2> QED
    BY <2>1, <2>3
<1>3. ASSUME NEW c \in Calls, Step(c), ~Acquire(c) PROVE MutexInv' /\ RacedInv'
  <2>1. pc[c] \in Steps /\ Turn(c) /\ UNCHANGED <<request, raced>>
    BY <1>3, StepTurns
  <2>2. /\ pc'[c] \in Steps => mutex' = mutex
        /\ pc'[c] \notin Steps => mutex' = (IF mutex = c THEN NoCall ELSE mutex)
        /\ \A d \in Calls \ {c} : pc'[d] = pc[d]
    BY <2>1, TurnPlaces
  <2>3. MutexInv'
    BY <2>1, <2>2 DEF MutexInv, Removal
  <2>4. InProgress' \subseteq InProgress
    BY <1>s, <2>1, <2>2 DEF InProgress
  <2>5. RacedInv'
    BY <2>1, <2>4 DEF RacedInv, Removal
  <2> QED
    BY <2>3, <2>5
<1>4. CASE UNCHANGED vars
  BY <1>4 DEF MutexInv, RacedInv, Removal, InProgress
<1> QED
  BY <1>1, <1>2, <1>3, <1>4 DEF Next

(* Two operations make calls at a time only if one of them is a removal,    *)
(* and that has raced.                                                      *)
LEMMA Exclusive ==
  ASSUME RequestInv, MutexInv, RacedInv, NEW c \in Calls, NEW d \in Calls,
         pc[c] \in Steps, pc[d] \in Steps, ~raced \/ (~Removal(c) /\ ~Removal(d))
  PROVE  c = d
<1>1. c \in InProgress /\ d \in InProgress
  BY DEF InProgress, Steps, GroupSteps
<1>2. CASE ~Removal(c) /\ ~Removal(d)
  BY <1>2 DEF MutexInv
<1>3. CASE ~raced /\ (Removal(c) \/ Removal(d))
  BY <1>1, <1>3 DEF RacedInv
<1> QED
  BY <1>2, <1>3

-----------------------------------------------------------------------------
(* What a step does to the directory                                       *)

(* An operation touches the users it is about.  For the memberships that    *)
(* takes that it knows the group that it deletes or rewrites.               *)
LEMMA StepTouches ==
  ASSUME TypeOK, RequestInv, NEW c \in Calls, Step(c), NEW u \in Users, u \notin Names(request[c])
  PROVE  /\ (u \in entries' <=> u \in entries) /\ mail'[u] = mail[u]
         /\ GroupFound(c) => \A s \in Schools : u \in group'[s] <=> u \in group[s]
<1> DEFINE r == request[c]
<1>1. pc[c] # "idle" => u # r.user /\ (r.kind = "modifyPersonAttributes" => u # r.new)
  BY RequestAt, RequestTypes
<1>2. CASE AddLehrer(c) \/ DeleteEntry(c)
  <2>1. UNCHANGED group /\ u # r.user
    BY <1>1, <1>2 DEF AddLehrer, DeleteEntry, Call
  <2>2. (u \in entries' <=> u \in entries) /\ mail'[u] = mail[u]
    BY <1>2, <2>1 DEF AddLehrer, DeleteEntry, Call, TypeOK
  <2> QED
    BY <2>1, <2>2
<1>3. CASE ModifyDN(c)
  <2>1. UNCHANGED group /\ u # r.user /\ u # r.new
    BY <1>1, <1>3, RequestAt DEF ModifyDN, Call
  <2>2. (u \in entries' <=> u \in entries) /\ mail'[u] = mail[u]
    BY <1>3, <2>1 DEF ModifyDN, Call, TypeOK
  <2> QED
    BY <2>1, <2>2
<1>4. CASE ModifyPrimary(c) \/ ModifyAlternative(c)
  <2>1. UNCHANGED <<entries, group>> /\ u # r.user
    BY <1>1, <1>4 DEF ModifyPrimary, ModifyAlternative, Call, SetMail
  <2>2. mail'[u] = mail[u]
    BY <1>4, <2>1 DEF ModifyPrimary, ModifyAlternative, Call, SetMail, TypeOK
  <2> QED
    BY <2>1, <2>2
<1>5. CASE AddGroup(c) \/ AddMember(c) \/ DeleteGroup(c) \/ DeleteMember(c)
  <2>1. UNCHANGED <<entries, mail>> /\ u # r.user
    BY <1>1, <1>5 DEF AddGroup, AddMember, DeleteGroup, DeleteMember, Call, SetGroup
  <2>2. \/ UNCHANGED group
        \/ /\ AddGroup(c) /\ group[r.school] = {} /\ group' = [group EXCEPT ![r.school] = {r.user}]
        \/ /\ AddMember(c) /\ group' = [group EXCEPT ![r.school] = group[r.school] \union {r.user}]
        \/ /\ DeleteGroup(c) /\ group' = [group EXCEPT ![r.school] = {}]
        \/ /\ DeleteMember(c) /\ group' = [group EXCEPT ![r.school] = group[r.school] \ {r.user}]
    BY <1>5 DEF AddGroup, AddMember, DeleteGroup, DeleteMember, Call, SetGroup
  <2>3. GroupFound(c) /\ DeleteGroup(c) => group[r.school] = {r.user}
    BY DEF GroupFound, DeleteGroup
  <2>4. GroupFound(c) => \A s \in Schools : u \in group'[s] <=> u \in group[s]
    BY <2>1, <2>2, <2>3 DEF TypeOK
  <2> QED
    BY <2>1, <2>4
<1>6. CASE ReplaceMembers(c)
  <2>1. UNCHANGED <<entries, mail>> /\ u # r.user /\ u # r.new
    BY <1>1, <1>6, RequestAt DEF ReplaceMembers, Call, SetGroup
  <2>2. PICK s \in Schools :
          /\ seenGroups[c][s] # {}
          /\ group' = group \/ group' = [group EXCEPT ![s] = (seenGroups[c][s] \ {r.user}) \union {r.new}]
    BY <1>6 DEF ReplaceMembers, Call, SetGroup
  <2>0. pc[c] = "replaceMembers"
    BY <1>6 DEF ReplaceMembers
  <2>3. GroupFound(c) => group[s] = seenGroups[c][s]
    BY <2>0, <2>2 DEF GroupFound
  <2>4. ASSUME GroupFound(c), NEW t \in Schools PROVE u \in group'[t] <=> u \in group[t]
    <3>1. group \in [Schools -> SUBSET Users] /\ group[s] = seenGroups[c][s]
      BY <2>3, <2>4 DEF TypeOK
    <3>2. CASE t = s
      BY <2>1, <2>2, <3>1, <3>2
    <3>3. CASE t # s
      BY <2>2, <3>1, <3>3
    <3> QED
      BY <3>2, <3>3
  <2> QED
    BY <2>1, <2>4
<1>7. CASE EnsureOrgUnit(c) \/ EnsureOrgRole(c) \/ Acquire(c) \/ SearchGroup(c) \/ SearchLehrer(c)
             \/ SearchMember(c) \/ SearchEntry(c) \/ SearchGroups(c) \/ SearchEntryToDelete(c) \/ SearchMail(c)
  <2>1. UNCHANGED <<entries, mail, group>>
    BY <1>7 DEF EnsureOrgUnit, EnsureOrgRole, Acquire, SearchGroup, SearchLehrer, SearchMember, SearchEntry,
                SearchGroups, SearchEntryToDelete, SearchMail, Call, Read, SetStructure
  <2> QED
    BY <2>1
<1> QED
  BY <1>2, <1>3, <1>4, <1>5, <1>6, <1>7 DEF Step

(* A step of another operation leaves alone what this one has read; one     *)
(* that removes a member, the entries.                                      *)
LEMMA OthersWait ==
  ASSUME TypeOK, RequestInv, MutexInv, RacedInv,
         NEW c \in Calls, NEW d \in Calls \ {c}, Step(d), pc[c] \in Steps
  PROVE  /\ Removal(c) \/ UNCHANGED <<entries, mail>>
         /\ ~raced => UNCHANGED <<entries, mail, group>>
<1>1. CASE Acquire(d)
  BY <1>1 DEF Acquire
<1>2. CASE ~Acquire(d)
  <2>1. pc[d] \in Steps
    BY <1>2, StepTurns
  <2>2. raced /\ (Removal(c) \/ Removal(d))
    BY <2>1, Exclusive
  <2>3. Removal(d) => pc[d] \in {"searchMember", "deleteGroup", "deleteMember"}
    BY <2>1 DEF RequestInv, StepsOf, Removal, Steps, GroupSteps
  <2>4. Removal(d) => UNCHANGED <<entries, mail>>
    BY <2>3 DEF Step, EnsureOrgUnit, EnsureOrgRole, Acquire, SearchGroup, AddGroup, AddMember, SearchLehrer, AddLehrer,
                SearchMember, DeleteGroup, DeleteMember, SearchEntry, ModifyDN, SearchGroups, ReplaceMembers,
                SearchEntryToDelete, DeleteEntry, SearchMail, ModifyPrimary, ModifyAlternative, Call, Read, SetGroup
  <2> QED
    BY <2>2, <2>4
<1> QED
  BY <1>1, <1>2

(* Nor does it change where this one is.                                    *)
LEMMA OthersPlaces ==
  ASSUME TypeOK, RequestInv, NEW c \in Calls, NEW d \in Calls \ {c}, Step(d)
  PROVE  /\ pc'[c] = pc[c] /\ attempt'[c] = attempt[c]
         /\ seenGroups'[c] = seenGroups[c] /\ seenMail'[c] = seenMail[c]
         /\ UNCHANGED <<request, past>>
         /\ faults' = faults \/ faults' = faults + 1
<1>1. CASE Acquire(d)
  BY <1>1, AcquirePlaces
<1>2. CASE ~Acquire(d)
  <2>1. /\ pc'[c] = pc[c] /\ attempt'[c] = attempt[c] /\ UNCHANGED <<request, past>>
        /\ faults' = faults \/ faults' = faults + 1
    BY <1>2, StepTurns, TurnPlaces
  <2>2. CASE SearchGroups(d) \/ ReplaceMembers(d)
    BY <2>1, <2>2 DEF SearchGroups, ReplaceMembers, Read, TypeOK
  <2>3. CASE SearchMail(d)
    BY <2>1, <2>3 DEF SearchMail, Read, TypeOK
  <2>4. CASE ~(SearchGroups(d) \/ ReplaceMembers(d) \/ SearchMail(d))
    <3>1. UNCHANGED <<seenGroups, seenMail>>
      BY <1>2, <2>4 DEF Step, EnsureOrgUnit, EnsureOrgRole, SearchGroup, AddGroup, AddMember, SearchLehrer, AddLehrer,
           SearchMember, DeleteGroup, DeleteMember, SearchEntry, ModifyDN, SearchEntryToDelete, DeleteEntry,
           ModifyPrimary, ModifyAlternative
    <3> QED
      BY <2>1, <3>1
  <2> QED
    BY <2>2, <2>3, <2>4
<1> QED
  BY <1>1, <1>2

-----------------------------------------------------------------------------
(* What an operation has found out                                         *)

(* Before the first call nothing has been looked for. *)
LEMMA InitFound == Init => FoundInv
BY DEF Init, FoundInv, EntryFound, GroupFound

(* Each operation finds out before it writes.                               *)
LEMMA OwnFound ==
  ASSUME TypeOK, RequestInv, NEW c \in Calls, Step(c), EntryFound(c)
  PROVE  EntryFound(c)' /\ (GroupFound(c) => GroupFound(c)')
<1> DEFINE r == request[c]
<1>r. request' = request
  BY AcquirePlaces, StepTurns
<1>c. pc \in [Calls -> {"idle", "waiting"} \union Steps \union Answers]
  BY DEF TypeOK
<1>n. ASSUME pc'[c] \in {"waiting", "ok", "failed", "orgUnit", "orgRole", "searchGroup", "searchMember",
                         "deleteMember", "searchEntry", "searchEntryToDelete", "del", "searchMail"}
      PROVE  EntryFound(c)' /\ GroupFound(c)'
  BY <1>n DEF EntryFound, GroupFound
<1>f. Fail(c) => pc'[c] \in {"waiting", "failed"}
  BY <1>c DEF Fail, Answer
<1>i. ASSUME NEW first, FailInner(c, first) PROVE pc'[c] \in {"waiting", "failed", first}
  BY <1>c, <1>f, <1>i DEF FailInner
<1>o. Answer(c, "ok") => pc'[c] = "ok"
  BY <1>c DEF Answer
<1>g. ASSUME NEW to, Goto(c, to) PROVE pc'[c] = to
  BY <1>c, <1>g DEF Goto
<1>1. CASE Acquire(c)
  <2>1. pc'[c] \in {"orgUnit", "searchMember", "searchEntry", "searchEntryToDelete", "searchMail"}
    BY <1>1, AcquirePlaces, RequestTypes DEF FirstStep
  <2> QED
    BY <1>n, <2>1
<1>2. CASE EnsureOrgUnit(c) \/ EnsureOrgRole(c)
  <2>1. Goto(c, "orgRole") \/ Goto(c, "searchGroup") \/ FailInner(c, "orgUnit")
    BY <1>2 DEF EnsureOrgUnit, EnsureOrgRole, Call
  <2>2. pc'[c] \in {"orgRole", "searchGroup", "orgUnit", "waiting", "failed"}
    BY <1>g, <1>i, <2>1
  <2> QED
    BY <1>n, <2>2
<1>3. CASE SearchGroup(c)
  <2>1. UNCHANGED directory
    BY <1>3 DEF SearchGroup, Read
  <2>2. \/ FailInner(c, "orgUnit")
        \/ Goto(c, "addGroup") /\ group[r.school] = {}
        \/ Goto(c, "addMember") /\ group[r.school] # {} /\ r.user \notin group[r.school]
        \/ Goto(c, "searchLehrer") /\ r.user \in group[r.school]
    BY <1>3 DEF SearchGroup, Read
  <2>3. CASE FailInner(c, "orgUnit")
    BY <1>i, <1>n, <2>3
  <2>4. CASE Goto(c, "addGroup") /\ group[r.school] = {}
    BY <1>g, <1>r, <2>1, <2>4 DEF EntryFound, GroupFound
  <2>5. CASE Goto(c, "addMember") /\ group[r.school] # {} /\ r.user \notin group[r.school]
    BY <1>g, <1>r, <2>1, <2>5 DEF EntryFound, GroupFound
  <2>6. CASE Goto(c, "searchLehrer") /\ r.user \in group[r.school]
    BY <1>g, <1>r, <2>1, <2>6 DEF EntryFound, GroupFound
  <2> QED
    BY <2>2, <2>3, <2>4, <2>5, <2>6
<1>4. CASE AddGroup(c) \/ AddMember(c)
  <2>0. r.school \in Schools
    BY <1>4, RequestAt, RequestTypes DEF AddGroup, AddMember, GroupSteps
  <2>1. \/ FailInner(c, "orgUnit")
        \/ Goto(c, "searchLehrer") /\ r.user \in group'[r.school]
    BY <1>4, <2>0 DEF AddGroup, AddMember, Call, SetGroup, TypeOK
  <2>2. CASE FailInner(c, "orgUnit")
    BY <1>i, <1>n, <2>2
  <2>3. CASE Goto(c, "searchLehrer") /\ r.user \in group'[r.school]
    BY <1>g, <1>r, <2>3 DEF EntryFound, GroupFound
  <2> QED
    BY <2>1, <2>2, <2>3
<1>5. CASE SearchLehrer(c)
  <2>1. UNCHANGED directory /\ pc[c] = "searchLehrer"
    BY <1>5 DEF SearchLehrer, Read
  <2>2. \/ Answer(c, "ok") \/ Fail(c)
        \/ Goto(c, "addLehrer") /\ r.user \notin entries
    BY <1>5 DEF SearchLehrer, Read
  <2>3. CASE Answer(c, "ok") \/ Fail(c)
    BY <1>o, <1>f, <1>n, <2>3
  <2>4. CASE Goto(c, "addLehrer") /\ r.user \notin entries
    BY <1>g, <1>r, <2>1, <2>4 DEF EntryFound, GroupFound
  <2> QED
    BY <2>2, <2>3, <2>4
<1>6. CASE AddLehrer(c) \/ DeleteGroup(c) \/ DeleteMember(c) \/ DeleteEntry(c) \/ ModifyAlternative(c)
  <2>1. Answer(c, "ok") \/ Fail(c)
    BY <1>6 DEF AddLehrer, DeleteGroup, DeleteMember, DeleteEntry, ModifyAlternative, Call
  <2> QED
    BY <1>o, <1>f, <1>n, <2>1
<1>7. CASE SearchMember(c)
  <2>1. UNCHANGED directory
    BY <1>7 DEF SearchMember, Read
  <2>2. \/ Fail(c)
        \/ Goto(c, "deleteMember")
        \/ Goto(c, "deleteGroup") /\ group[r.school] = {r.user}
    BY <1>7 DEF SearchMember, Read
  <2>3. CASE Fail(c)
    BY <1>f, <1>n, <2>3
  <2>4. CASE Goto(c, "deleteMember")
    BY <1>g, <1>n, <2>4
  <2>5. CASE Goto(c, "deleteGroup") /\ group[r.school] = {r.user}
    BY <1>g, <1>r, <2>1, <2>5 DEF EntryFound, GroupFound
  <2> QED
    BY <2>2, <2>3, <2>4, <2>5
<1>8. CASE SearchEntry(c)
  <2>1. UNCHANGED directory
    BY <1>8 DEF SearchEntry, Read
  <2>2. \/ Fail(c)
        \/ Goto(c, "searchGroups") /\ r.user \in entries /\ r.new = r.user
        \/ Goto(c, "modifyDN") /\ r.user \in entries /\ r.new # r.user
    BY <1>8 DEF SearchEntry, Read
  <2>3. CASE Fail(c)
    BY <1>f, <1>n, <2>3
  <2>4. CASE Goto(c, "searchGroups") /\ r.user \in entries /\ r.new = r.user
    BY <1>g, <1>r, <2>1, <2>4 DEF EntryFound, GroupFound
  <2>5. CASE Goto(c, "modifyDN") /\ r.user \in entries /\ r.new # r.user
    BY <1>g, <1>r, <2>1, <2>5 DEF EntryFound, GroupFound
  <2> QED
    BY <2>2, <2>3, <2>4, <2>5
<1>9. CASE ModifyDN(c)
  <2>1. \/ Fail(c)
        \/ Goto(c, "searchGroups") /\ entries' = (entries \ {r.user}) \union {r.new}
    BY <1>9 DEF ModifyDN, Call
  <2>2. CASE Fail(c)
    BY <1>f, <1>n, <2>2
  <2>3. CASE Goto(c, "searchGroups") /\ entries' = (entries \ {r.user}) \union {r.new}
    BY <1>g, <1>r, <2>3 DEF EntryFound, GroupFound
  <2> QED
    BY <2>1, <2>2, <2>3
<1>10. CASE SearchGroups(c)
  <2>1. UNCHANGED directory /\ pc[c] = "searchGroups"
    BY <1>10 DEF SearchGroups, Read
  <2>2. r.new \in entries /\ (r.new # r.user => r.user \notin entries)
    BY <2>1 DEF EntryFound
  <2>3. \/ Answer(c, "ok") \/ FailInner(c, "searchGroups")
        \/ /\ Goto(c, "replaceMembers")
           /\ \A s \in Schools : seenGroups'[c][s] # {} => seenGroups'[c][s] = group[s]
    BY <1>10 DEF SearchGroups, Read, TypeOK
  <2>4. CASE Answer(c, "ok")
    BY <1>o, <1>n, <2>4
  <2>5. CASE FailInner(c, "searchGroups")
    <3>1. pc'[c] \in {"waiting", "failed"} \/ pc'[c] = "searchGroups"
      BY <1>i, <2>5
    <3> QED
      BY <1>n, <1>r, <2>1, <2>2, <3>1 DEF EntryFound, GroupFound
  <2>6. CASE /\ Goto(c, "replaceMembers")
             /\ \A s \in Schools : seenGroups'[c][s] # {} => seenGroups'[c][s] = group[s]
    BY <1>g, <1>r, <2>1, <2>2, <2>6 DEF EntryFound, GroupFound
  <2> QED
    BY <2>3, <2>4, <2>5, <2>6
<1>11. CASE ReplaceMembers(c)
  <2>1. pc[c] = "replaceMembers" /\ UNCHANGED <<entries, mail>>
    BY <1>11 DEF ReplaceMembers, Call, SetGroup
  <2>2. PICK s \in Schools :
          /\ seenGroups' = [seenGroups EXCEPT ![c][s] = {}]
          /\ \A t \in Schools \ {s} : group'[t] = group[t]
    BY <1>11 DEF ReplaceMembers, Call, SetGroup, TypeOK
  <2>3. Goto(c, "replaceMembers") \/ Answer(c, "ok")
    BY <1>11 DEF ReplaceMembers, Call
  <2>4. pc'[c] \in {"replaceMembers", "ok"}
    BY <1>g, <1>o, <2>3
  <2>5. seenGroups'[c][s] = {} /\ \A t \in Schools \ {s} : seenGroups'[c][t] = seenGroups[c][t]
    BY <2>2 DEF TypeOK
  <2> QED
    BY <1>n, <1>r, <2>1, <2>2, <2>4, <2>5 DEF EntryFound, GroupFound
<1>12. CASE SearchEntryToDelete(c)
  <2>1. Goto(c, "del") \/ Fail(c)
    BY <1>12 DEF SearchEntryToDelete, Read
  <2> QED
    BY <1>f, <1>g, <1>n, <2>1
<1>13. CASE SearchMail(c)
  <2>1. UNCHANGED directory
    BY <1>13 DEF SearchMail, Read
  <2>2. Fail(c) \/ (Goto(c, "modifyPrimary") /\ r.user \in entries)
    BY <1>13 DEF SearchMail, Read
  <2>3. CASE Fail(c)
    BY <1>f, <1>n, <2>3
  <2>4. CASE Goto(c, "modifyPrimary") /\ r.user \in entries
    BY <1>g, <1>r, <2>1, <2>4 DEF EntryFound, GroupFound
  <2> QED
    BY <2>2, <2>3, <2>4
<1>14. CASE ModifyPrimary(c)
  <2>1. UNCHANGED entries /\ r.user \in entries
    BY <1>14 DEF ModifyPrimary, Call, SetMail, EntryFound
  <2>2. Fail(c) \/ Goto(c, "modifyAlternative")
    BY <1>14 DEF ModifyPrimary, Call
  <2>3. CASE Fail(c)
    BY <1>f, <1>n, <2>3
  <2>4. CASE Goto(c, "modifyAlternative")
    BY <1>g, <1>r, <2>1, <2>4 DEF EntryFound, GroupFound
  <2> QED
    BY <2>2, <2>3, <2>4
<1> QED
  BY <1>1, <1>2, <1>3, <1>4, <1>5, <1>6, <1>7, <1>8, <1>9, <1>10, <1>11, <1>12, <1>13, <1>14 DEF Step

(* And nobody else writes meanwhile.                                        *)
LEMMA NextFound ==
  TypeOK /\ RequestInv /\ MutexInv /\ RacedInv /\ FoundInv /\ [Next]_vars => FoundInv'
<1> SUFFICES ASSUME TypeOK, RequestInv, MutexInv, RacedInv, FoundInv, [Next]_vars, NEW c \in Calls
             PROVE  EntryFound(c)' /\ (~raced' => GroupFound(c)')
  BY DEF FoundInv
<1>a. EntryFound(c) /\ (~raced => GroupFound(c))
  BY DEF FoundInv
<1>f. ASSUME pc'[c] = pc[c], request'[c] = request[c], pc[c] \in Steps => seenGroups'[c] = seenGroups[c],
             pc[c] \in Steps /\ ~Removal(c) => UNCHANGED entries,
             pc[c] \in Steps /\ ~raced => UNCHANGED group, raced => raced'
      PROVE  EntryFound(c)' /\ (~raced' => GroupFound(c)')
  <2>1. EntryFound(c)'
    BY <1>a, <1>f, RequestAt DEF EntryFound, Steps, Removal, GroupSteps
  <2>2. ~raced' => GroupFound(c)'
    BY <1>a, <1>f DEF GroupFound, Steps, GroupSteps
  <2> QED
    BY <2>1, <2>2
<1>1. ASSUME NEW d \in Calls, Begin(d) PROVE EntryFound(c)' /\ (~raced' => GroupFound(c)')
  <2>1. CASE d = c
    <3>1. pc'[c] = "waiting"
      BY <1>1, <2>1, BeginPlaces DEF TypeOK
    <3> QED
      BY <3>1 DEF EntryFound, GroupFound
  <2>2. CASE d # c
    <3>1. PICK r \in Requests :
            /\ request' = [request EXCEPT ![d] = r]
            /\ raced' = (raced \/ \E e \in InProgress : Removal(e) \/ r.kind = "removePersonFromGroup")
      BY <1>1, BeginPlaces
    <3>2. pc' = [pc EXCEPT ![d] = "waiting"] /\ UNCHANGED <<directory, seenGroups>>
      BY <1>1, BeginPlaces
    <3>3. pc'[c] = pc[c] /\ request'[c] = request[c]
      BY <2>2, <3>1, <3>2 DEF TypeOK
    <3>4. raced => raced'
      BY <3>1
    <3>5. seenGroups'[c] = seenGroups[c] /\ UNCHANGED entries /\ UNCHANGED group
      BY <3>2 DEF directory
    <3> QED
      BY <1>f, <3>3, <3>4, <3>5
  <2> QED
    BY <2>1, <2>2
<1>2. ASSUME NEW d \in Calls, Step(d), d # c PROVE EntryFound(c)' /\ (~raced' => GroupFound(c)')
  BY <1>2, <1>f, OthersPlaces, OthersWait
<1>3. ASSUME Step(c) PROVE EntryFound(c)' /\ (~raced' => GroupFound(c)')
  <2>1. raced' = raced
    BY <1>3, AcquirePlaces, StepTurns
  <2> QED
    BY <1>3, <1>a, <2>1, OwnFound
<1>4. CASE UNCHANGED vars
  BY <1>4, <1>f
<1> QED
  BY <1>1, <1>2, <1>3, <1>4 DEF Next

-----------------------------------------------------------------------------
(* An operation whose users no other operation is about                    *)

(* The others touch neither its users nor its place.                        *)
LEMMA OthersKeep ==
  ASSUME TypeOK, RequestInv, NEW c \in Calls, pc[c] # "idle", OperationInv(c),
         pc'[c] = pc[c], attempt'[c] = attempt[c], request'[c] = request[c], before'[c] = before[c],
         seenGroups'[c] = seenGroups[c], seenMail'[c] = seenMail[c],
         faults' = faults \/ faults' = faults + 1, raced => raced',
         \A u \in Names(request[c]) :
           /\ (u \in entries' <=> u \in entries) /\ mail'[u] = mail[u]
           /\ ~raced => \A s \in Schools : u \in group'[s] <=> u \in group[s]
  PROVE  OperationInv(c)'
<1> DEFINE r == request[c]
<1>r. r \in Requests /\ r.user \in Names(r)
        /\ (r.kind = "modifyPersonAttributes" => r.new \in Names(r))
        /\ (r.kind \in {"createLehrer", "removePersonFromGroup"} => r.school \in Schools)
  BY RequestAt, RequestTypes
<1>f. faults \in Nat /\ (faults' = 0 => faults = 0) /\ attempt[c] \in Nat
  BY DEF TypeOK
<1>s. FaultsSpent(c) => FaultsSpent(c)'
  BY <1>f DEF FaultsSpent
<1>g. ~raced => \A u \in Names(r) : GroupsOf(u)' = GroupsOf(u)
  BY DEF GroupsOf
<1>1. CreateInv(c)'
  BY <1>r, <1>s DEF OperationInv, CreateInv
<1>2. RemoveInv(c)'
  BY <1>r DEF OperationInv, RemoveInv
<1>3. RenameInv(c)'
  BY <1>r, <1>s DEF OperationInv, RenameInv
<1>4. MoveInv(c)'
  <2> SUFFICES ASSUME r.kind = "modifyPersonAttributes", faults' = 0, ~raced' PROVE MoveInv(c)'
    BY DEF MoveInv
  <2>1. r.user \in Names(r) /\ r.new \in Names(r) /\ ~raced /\ faults = 0
    BY <1>r, <1>f
  <2>2. GroupsOf(r.user)' = GroupsOf(r.user) /\ GroupsOf(r.new)' = GroupsOf(r.new)
    BY <1>g, <2>1
  <2>3. Moved(c) => Moved(c)'
    BY <2>1, <2>2 DEF Moved
  <2>4. MoveInv(c)
    BY DEF OperationInv
  <2>5. \A s \in before[c].groups : s \in Schools
    BY DEF TypeOK
  <2> QED
    BY <2>1, <2>2, <2>3, <2>4, <2>5 DEF MoveInv
<1>5. MailInv(c)'
  <2>1. AddressKept(c) => AddressKept(c)'
    BY <1>r DEF AddressKept
  <2> QED
    BY <1>r, <1>f, <2>1 DEF OperationInv, MailInv
<1> QED
  BY <1>1, <1>2, <1>3, <1>4, <1>5 DEF OperationInv

(* It has done nothing yet.                                                 *)
LEMMA BeginKeeps ==
  ASSUME TypeOK, RequestInv, NEW c \in Calls, Begin(c)
  PROVE  OperationInv(c)'
<1>1. PICK r \in Requests :
        /\ request' = [request EXCEPT ![c] = r]
        /\ before' = [before EXCEPT ![c] = [groups |-> GroupsOf(r.user),
                                            primary |-> mail[r.user].primary,
                                            known |-> entries \intersect Names(r)]]
  BY BeginPlaces
<1>2. /\ pc[c] = "idle" /\ pc' = [pc EXCEPT ![c] = "waiting"]
      /\ UNCHANGED <<directory, faults, attempt>>
  BY BeginPlaces
<1>3. /\ request'[c] = r /\ pc'[c] = "waiting"
      /\ before'[c].groups = GroupsOf(r.user) /\ before'[c].primary = mail[r.user].primary
      /\ before'[c].known = entries \intersect Names(r)
  BY <1>1, <1>2 DEF TypeOK
<1>4. attempt'[c] = 1 /\ faults' \in 0 .. MaxFaults
  BY <1>2 DEF RequestInv, TypeOK
<1>5. FaultsSpent(c)'
  <2>0. faults' \in Nat
    BY <1>4
  <2>1. \A n \in Nat : 1 <= n + 1
    OBVIOUS
  <2>3. attempt'[c] <= faults' + 1
    BY <1>4, <2>0, <2>1
  <2>2. pc'[c] # "failed"
    BY <1>3
  <2> QED
    BY <2>2, <2>3 DEF FaultsSpent
<1>6. CreateInv(c)' /\ RemoveInv(c)'
  BY <1>3, <1>5 DEF CreateInv, RemoveInv
<1>7. RenameInv(c)'
  BY <1>2, <1>3, <1>5, RequestTypes DEF RenameInv
<1>8. MoveInv(c)' /\ MailInv(c)'
  BY <1>2, <1>3 DEF MoveInv, MailInv, GroupsOf
<1> QED
  BY <1>6, <1>7, <1>8 DEF OperationInv

(* A failed attempt counts a failed call.                                   *)
LEMMA TurnSpends ==
  ASSUME TypeOK, RequestInv, NEW c \in Calls, Step(c), FaultsSpent(c),
         pc'[c] \in {"waiting", "failed"} => faults' # faults
  PROVE  FaultsSpent(c)'
<1>0. faults \in Nat /\ attempt[c] \in Nat
  BY DEF TypeOK
<1>1. CASE Acquire(c)
  BY <1>1, AcquirePlaces DEF FaultsSpent, Steps, GroupSteps
<1>2. CASE ~Acquire(c)
  <2>1. pc[c] \in Steps /\ Turn(c) /\ (faults' = faults \/ faults' = faults + 1)
    BY <1>2, StepTurns
  <2>2. pc[c] \in Steps => request[c] \in Requests
    BY RequestAt DEF Steps, GroupSteps
  <2>3. CASE Goes(c)
    <3>1. "failed" \notin StepsOf(request[c].kind)
      BY <2>1, <2>2, RequestTypes DEF StepsOf, GroupSteps
    <3> QED
      BY <1>0, <2>1, <2>3, <3>1 DEF Goes, FaultsSpent, TypeOK
  <2>4. CASE Again(c)
    <3>1. pc'[c] = "waiting" /\ attempt'[c] = attempt[c] + 1
      BY <2>4 DEF Again, TypeOK
    <3> QED
      BY <1>0, <2>1, <3>1 DEF FaultsSpent
  <2>5. CASE GivesUp(c)
    <3>1. pc'[c] = "failed" /\ attempt'[c] = attempt[c] /\ attempt[c] = Retries
      BY <2>5 DEF GivesUp, TypeOK
    <3> QED
      BY <1>0, <2>1, <3>1 DEF FaultsSpent
  <2>6. CASE Succeeds(c)
    <3>1. pc'[c] = "ok" /\ attempt'[c] = attempt[c]
      BY <2>6 DEF Succeeds, TypeOK
    <3> QED
      BY <1>0, <2>1, <3>1 DEF FaultsSpent
  <2> QED
    BY <2>1, <2>3, <2>4, <2>5, <2>6 DEF Turn
<1> QED
  BY <1>1, <1>2

(* A step of createLehrer on the way to what it promises. *)
LEMMA CreateStep ==
  ASSUME TypeOK, RequestInv, NEW c \in Calls, Step(c), EntryFound(c), ~raced => GroupFound(c), CreateInv(c)
  PROVE  CreateInv(c)'
<1> DEFINE r == request[c]
<1>r. UNCHANGED <<request, raced>>
  BY AcquirePlaces, StepTurns
<1> SUFFICES ASSUME r.kind = "createLehrer", ~raced, FaultsSpent(c), GroupFound(c)
             PROVE  /\ pc'[c] = "ok" => r.user \in entries' \intersect group'[r.school]
                    /\ FaultsSpent(c)'
  BY <1>r DEF CreateInv
<1>c. pc \in [Calls -> {"idle", "waiting"} \union Steps \union Answers]
  BY DEF TypeOK
<1>g. ASSUME NEW to, Goto(c, to) PROVE pc'[c] = to
  BY <1>c, <1>g DEF Goto
<1>o. Answer(c, "ok") => pc'[c] = "ok"
  BY <1>c DEF Answer
<1>f. Fail(c) => pc'[c] # "ok"
  BY <1>c DEF Fail, Answer
<1>i. FailInner(c, "orgUnit") => pc'[c] # "ok"
  BY <1>c, <1>f DEF FailInner
<1>1. CASE Acquire(c)
  <2>1. pc'[c] = "orgUnit"
    BY <1>1, AcquirePlaces DEF FirstStep
  <2> QED
    BY <2>1, TurnSpends
<1>2. CASE EnsureOrgUnit(c) \/ EnsureOrgRole(c) \/ SearchGroup(c)
  <2>1. faults' = faults => Goto(c, "orgRole") \/ Goto(c, "searchGroup") \/ Goto(c, "addGroup")
                              \/ Goto(c, "addMember") \/ Goto(c, "searchLehrer")
    BY <1>2 DEF EnsureOrgUnit, EnsureOrgRole, SearchGroup, Call, Read, Fault, TypeOK
  <2>2. Goto(c, "orgRole") \/ Goto(c, "searchGroup") \/ Goto(c, "addGroup")
          \/ Goto(c, "addMember") \/ Goto(c, "searchLehrer") \/ FailInner(c, "orgUnit")
    BY <1>2 DEF EnsureOrgUnit, EnsureOrgRole, SearchGroup, Call, Read
  <2>3. pc'[c] # "ok" /\ (faults' = faults => pc'[c] \notin {"waiting", "failed"})
    BY <1>g, <1>i, <2>1, <2>2
  <2> QED
    BY <2>3, TurnSpends
<1>3. CASE AddGroup(c) \/ AddMember(c)
  <2>1. IF AddGroup(c) THEN group[r.school] = {} ELSE group[r.school] # {} /\ r.user \notin group[r.school]
    BY <1>3 DEF AddGroup, AddMember, GroupFound
  <2>2. faults' = faults => Goto(c, "searchLehrer")
    BY <1>3, <2>1 DEF AddGroup, AddMember, Call, Fault, TypeOK
  <2>3. Goto(c, "searchLehrer") \/ FailInner(c, "orgUnit")
    BY <1>3 DEF AddGroup, AddMember, Call
  <2>4. pc'[c] # "ok" /\ (faults' = faults => pc'[c] \notin {"waiting", "failed"})
    BY <1>g, <1>i, <2>2, <2>3
  <2> QED
    BY <2>4, TurnSpends
<1>4. CASE SearchLehrer(c)
  <2>1. pc[c] = "searchLehrer" /\ UNCHANGED directory
    BY <1>4 DEF SearchLehrer, Read
  <2>2. faults' = faults => (Answer(c, "ok") /\ r.user \in entries) \/ Goto(c, "addLehrer")
    BY <1>4 DEF SearchLehrer, Read, Fault, TypeOK
  <2>3. (Answer(c, "ok") /\ r.user \in entries) \/ Goto(c, "addLehrer") \/ Fail(c)
    BY <1>4 DEF SearchLehrer, Read
  <2>4. pc'[c] = "ok" => r.user \in entries' \intersect group'[r.school]
    BY <1>g, <1>f, <2>1, <2>3 DEF GroupFound
  <2>5. faults' = faults => pc'[c] \notin {"waiting", "failed"}
    BY <1>g, <1>o, <2>2
  <2> QED
    BY <2>4, <2>5, TurnSpends
<1>5. CASE AddLehrer(c)
  <2>1. pc[c] = "addLehrer" /\ UNCHANGED group /\ r.user \notin entries
    BY <1>5 DEF AddLehrer, Call, EntryFound
  <2>2. faults' = faults => Answer(c, "ok") /\ r.user \in entries'
    BY <1>5, <2>1 DEF AddLehrer, Call, Fault, TypeOK
  <2>3. (Answer(c, "ok") /\ r.user \in entries') \/ Fail(c)
    BY <1>5 DEF AddLehrer, Call
  <2>4. pc'[c] = "ok" => r.user \in entries' \intersect group'[r.school]
    BY <1>f, <2>1, <2>3 DEF GroupFound
  <2>5. faults' = faults => pc'[c] \notin {"waiting", "failed"}
    BY <1>o, <2>2
  <2> QED
    BY <2>4, <2>5, TurnSpends
<1>6. Acquire(c) \/ pc[c] \in GroupSteps \union {"searchLehrer", "addLehrer"}
  BY StepTurns DEF RequestInv, StepsOf, Steps, GroupSteps
<1> QED
  BY <1>1, <1>2, <1>3, <1>4, <1>5, <1>6
     DEF Step, GroupSteps, SearchMember, DeleteGroup, DeleteMember, SearchEntry, ModifyDN, SearchGroups,
         ReplaceMembers, SearchEntryToDelete, DeleteEntry, SearchMail, ModifyPrimary, ModifyAlternative

(* A step of removing a member on the way to what it promises. *)
LEMMA RemoveStep ==
  ASSUME TypeOK, RequestInv, NEW c \in Calls, Step(c)
  PROVE  RemoveInv(c)'
<1> DEFINE r == request[c]
<1>r. UNCHANGED <<request, raced>>
  BY AcquirePlaces, StepTurns
<1> SUFFICES ASSUME r.kind = "removePersonFromGroup", pc'[c] = "ok" PROVE r.user \notin group'[r.school]
  BY <1>r DEF RemoveInv
<1>c. pc \in [Calls -> {"idle", "waiting"} \union Steps \union Answers]
  BY DEF TypeOK
<1>0. ~Acquire(c) /\ ~Fail(c) /\ \A to \in {"deleteGroup", "deleteMember"} : ~Goto(c, to)
  BY <1>c, AcquirePlaces DEF FirstStep, Fail, Answer, Goto
<1>1. pc[c] \in {"searchMember", "deleteGroup", "deleteMember"}
  BY <1>0, StepTurns DEF RequestInv, StepsOf, Steps, GroupSteps
<1>2. SearchMember(c) \/ DeleteGroup(c) \/ DeleteMember(c)
  BY <1>0, <1>1 DEF Step, EnsureOrgUnit, EnsureOrgRole, SearchGroup, AddGroup, AddMember, SearchLehrer, AddLehrer,
         SearchEntry, ModifyDN, SearchGroups, ReplaceMembers, SearchEntryToDelete, DeleteEntry, SearchMail,
         ModifyPrimary, ModifyAlternative
<1>3. r.school \in Schools
  BY <1>1, RequestAt, RequestTypes
<1>4. ~SearchMember(c)
  BY <1>0 DEF SearchMember, Read
<1>5. CASE DeleteGroup(c)
  BY <1>0, <1>3, <1>5 DEF DeleteGroup, Call, SetGroup, TypeOK
<1>6. CASE DeleteMember(c)
  BY <1>0, <1>3, <1>6 DEF DeleteMember, Call, SetGroup, TypeOK
<1> QED
  BY <1>2, <1>4, <1>5, <1>6

(* A step of renaming a teacher on the way to what it promises. *)
LEMMA RenameStep ==
  ASSUME TypeOK, RequestInv, NEW c \in Calls, Step(c), EntryFound(c), RenameInv(c)
  PROVE  RenameInv(c)'
<1> DEFINE r == request[c]
<1>r. UNCHANGED <<request, before>>
  BY AcquirePlaces, StepTurns
<1> SUFFICES ASSUME r.kind = "modifyPersonAttributes", before[c].known = {r.user}, r.user \in entries'
             PROVE  FaultsSpent(c)' /\ (r.new = r.user \/ r.new \notin entries')
  BY <1>r DEF RenameInv
<1>c. pc \in [Calls -> {"idle", "waiting"} \union Steps \union Answers]
  BY DEF TypeOK
<1>g. ASSUME NEW to, Goto(c, to) PROVE pc'[c] = to
  BY <1>c, <1>g DEF Goto
<1>o. Answer(c, "ok") => pc'[c] = "ok"
  BY <1>c DEF Answer
<1>h. ASSUME UNCHANGED entries
      PROVE  r.user \in entries /\ (r.new = r.user \/ r.new \notin entries) /\ FaultsSpent(c)
  BY <1>h DEF RenameInv
<1>1. CASE Acquire(c)
  <2>1. pc'[c] = "searchEntry" /\ UNCHANGED entries
    BY <1>1, AcquirePlaces DEF FirstStep
  <2> QED
    BY <1>h, <2>1, TurnSpends
<1>2. CASE SearchEntry(c)
  <2>1. UNCHANGED entries
    BY <1>2 DEF SearchEntry, Read
  <2>2. faults' = faults => Goto(c, "searchGroups") \/ Goto(c, "modifyDN")
    BY <1>2, <1>h, <2>1 DEF SearchEntry, Read, Fault, TypeOK
  <2>3. faults' = faults => pc'[c] \notin {"waiting", "failed"}
    BY <1>g, <2>2
  <2> QED
    BY <1>h, <2>1, <2>3, TurnSpends
<1>3. CASE ModifyDN(c)
  <2>1. r.user \in entries /\ r.new # r.user
    BY <1>3 DEF ModifyDN, EntryFound
  <2>2. UNCHANGED entries
    BY <1>3, <2>1 DEF ModifyDN, Call
  <2>3. faults' # faults
    BY <1>3, <1>h, <2>1, <2>2 DEF ModifyDN, Call, Fault, TypeOK
  <2> QED
    BY <1>h, <2>2, <2>3, TurnSpends
<1>4. CASE SearchGroups(c) \/ ReplaceMembers(c)
  <2>1. UNCHANGED entries
    BY <1>4 DEF SearchGroups, ReplaceMembers, Call, Read, SetGroup
  <2>0. faults' = faults => ~Fault
    BY DEF Fault, TypeOK
  <2>2. faults' = faults => Goto(c, "replaceMembers") \/ Answer(c, "ok")
    BY <1>4, <2>0 DEF SearchGroups, ReplaceMembers, Call, Read
  <2>3. faults' = faults => pc'[c] \notin {"waiting", "failed"}
    BY <1>g, <1>o, <2>2
  <2> QED
    BY <1>h, <2>1, <2>3, TurnSpends
<1>5. Acquire(c) \/ pc[c] \in {"searchEntry", "modifyDN", "searchGroups", "replaceMembers"}
  BY StepTurns DEF RequestInv, StepsOf, Steps, GroupSteps
<1> QED
  BY <1>1, <1>2, <1>3, <1>4, <1>5
     DEF Step, EnsureOrgUnit, EnsureOrgRole, SearchGroup, AddGroup, AddMember, SearchLehrer, AddLehrer,
         SearchMember, DeleteGroup, DeleteMember, SearchEntryToDelete, DeleteEntry, SearchMail, ModifyPrimary, ModifyAlternative

(* A step of moving a teacher to another group on the way to what it promises. *)
LEMMA MoveStep ==
  ASSUME TypeOK, RequestInv, NEW c \in Calls, Step(c), EntryFound(c), ~raced => GroupFound(c), MoveInv(c)
  PROVE  MoveInv(c)'
<1> DEFINE r == request[c]
           first == {"waiting", "searchEntry", "modifyDN", "searchGroups"}
<1>r. UNCHANGED <<request, before, raced>> /\ (faults' = faults \/ faults' = faults + 1)
  BY AcquirePlaces, StepTurns
<1> SUFFICES ASSUME r.kind = "modifyPersonAttributes", faults' = 0, ~raced
             PROVE  /\ pc'[c] \in first => GroupsOf(r.user)' = before[c].groups
                    /\ pc'[c] = "replaceMembers" =>
                         /\ \A s \in before[c].groups : seenGroups'[c][s] # {} \/ r.new \in group'[s]
                         /\ r.new # r.user => \A s \in GroupsOf(r.user)' : seenGroups'[c][s] # {}
                    /\ pc'[c] = "ok" => Moved(c)'
  BY <1>r DEF MoveInv
<1>z. faults = 0 /\ ~Fault
  <2>1. faults \in Nat
    BY DEF TypeOK
  <2> QED
    BY <1>r, <2>1 DEF Fault
<1>c. pc \in [Calls -> {"idle", "waiting"} \union Steps \union Answers]
  BY DEF TypeOK
<1>b. before[c].groups \in SUBSET Schools
  BY DEF TypeOK
<1>g. ASSUME NEW to, Goto(c, to) PROVE pc'[c] = to
  BY <1>c, <1>g DEF Goto
<1>o. Answer(c, "ok") => pc'[c] = "ok"
  BY <1>c DEF Answer
<1>f. Fail(c) => pc'[c] \in {"waiting", "failed"}
  BY <1>c DEF Fail, Answer
<1>w. pc[c] \in first => GroupsOf(r.user) = before[c].groups
  BY <1>z DEF MoveInv
<1>u. ASSUME UNCHANGED group PROVE GroupsOf(r.user)' = GroupsOf(r.user) /\ GroupsOf(r.new)' = GroupsOf(r.new)
  BY <1>r, <1>u DEF GroupsOf
<1>1. CASE Acquire(c)
  <2>1. pc[c] = "waiting" /\ pc'[c] = "searchEntry" /\ UNCHANGED group
    BY <1>1, AcquirePlaces DEF FirstStep
  <2> QED
    BY <1>u, <1>w, <2>1
<1>2. CASE SearchEntry(c) \/ ModifyDN(c)
  <2>1. pc[c] \in {"searchEntry", "modifyDN"} /\ UNCHANGED group
    BY <1>2 DEF SearchEntry, ModifyDN, Call, Read
  <2>2. Goto(c, "searchGroups") \/ Goto(c, "modifyDN") \/ Fail(c)
    BY <1>2 DEF SearchEntry, ModifyDN, Call, Read
  <2>3. pc'[c] \in {"searchGroups", "modifyDN", "waiting", "failed"}
    BY <1>f, <1>g, <2>2
  <2> QED
    BY <1>u, <1>w, <2>1, <2>3
<1>3. CASE SearchGroups(c)
  <2>1. pc[c] = "searchGroups" /\ UNCHANGED directory
    BY <1>3 DEF SearchGroups, Read
  <2>2. r.new \in entries /\ (r.new # r.user => r.user \notin entries)
    BY <2>1 DEF EntryFound
  <2>3. \/ Answer(c, "ok") /\ GroupsOf(r.user) = {}
        \/ Goto(c, "replaceMembers")
    BY <1>3, <1>z DEF SearchGroups, Read
  <2>4. \A s \in GroupsOf(r.user) : seenGroups'[c][s] # {}
    BY <1>3, <1>z DEF SearchGroups, Read, GroupsOf, TypeOK
  <2>5. CASE Answer(c, "ok") /\ GroupsOf(r.user) = {}
    <3>1. Moved(c)'
      BY <1>r, <1>u, <1>w, <2>1, <2>2, <2>5 DEF Moved
    <3> QED
      BY <1>o, <2>5, <3>1
  <2>6. CASE Goto(c, "replaceMembers")
    BY <1>g, <1>u, <1>w, <2>1, <2>4, <2>6
  <2> QED
    BY <2>3, <2>5, <2>6
<1>4. CASE ReplaceMembers(c)
  <2>1. pc[c] = "replaceMembers"
    BY <1>4 DEF ReplaceMembers
  <2>2. /\ r.new \in entries /\ (r.new # r.user => r.user \notin entries)
        /\ \A s \in Schools : seenGroups[c][s] # {} => group[s] = seenGroups[c][s]
    BY <2>1 DEF EntryFound, GroupFound
  <2>3. /\ \A s \in before[c].groups : seenGroups[c][s] # {} \/ r.new \in group[s]
        /\ r.new # r.user => \A s \in GroupsOf(r.user) : seenGroups[c][s] # {}
    BY <1>z, <2>1 DEF MoveInv
  <2>4. PICK s \in Schools :
          /\ seenGroups[c][s] # {}
          /\ seenGroups' = [seenGroups EXCEPT ![c][s] = {}]
          /\ group[s] # {} => group' = [group EXCEPT ![s] = (seenGroups[c][s] \ {r.user}) \union {r.new}]
          /\ IF \E t \in Schools \ {s} : seenGroups[c][t] # {} THEN Goto(c, "replaceMembers") ELSE Answer(c, "ok")
    BY <1>4, <1>z DEF ReplaceMembers, Call, SetGroup
  <2>5. group' = [group EXCEPT ![s] = (seenGroups[c][s] \ {r.user}) \union {r.new}]
    BY <2>2, <2>4
  <2>6. /\ group'[s] = (seenGroups[c][s] \ {r.user}) \union {r.new}
        /\ \A t \in Schools \ {s} : group'[t] = group[t]
    BY <2>5 DEF TypeOK
  <2>7. \A t \in Schools \ {s} : seenGroups'[c][t] = seenGroups[c][t]
    BY <2>4 DEF TypeOK
  <2>8. \A t \in before[c].groups : (t # s /\ seenGroups'[c][t] # {}) \/ r.new \in group'[t]
    BY <1>b, <2>3, <2>6, <2>7
  <2>9. r.new # r.user => \A t \in GroupsOf(r.user)' : t # s /\ seenGroups'[c][t] # {}
    BY <1>r, <2>3, <2>6, <2>7 DEF GroupsOf
  <2>10. CASE Goto(c, "replaceMembers")
    BY <1>g, <2>8, <2>9, <2>10
  <2>11. CASE Answer(c, "ok") /\ \A t \in Schools \ {s} : seenGroups[c][t] = {}
    <3>1. \A t \in before[c].groups : r.new \in group'[t]
      BY <1>b, <2>7, <2>8, <2>11
    <3>2. r.new # r.user => GroupsOf(r.user)' = {}
      BY <1>r, <2>7, <2>9, <2>11 DEF GroupsOf
    <3>3. UNCHANGED entries
      BY <1>4 DEF ReplaceMembers, Call, SetGroup
    <3>4. Moved(c)'
      BY <1>b, <1>r, <2>2, <3>1, <3>2, <3>3 DEF Moved, GroupsOf
    <3> QED
      BY <1>o, <2>11, <3>4
  <2> QED
    BY <2>4, <2>10, <2>11
<1>5. Acquire(c) \/ pc[c] \in {"searchEntry", "modifyDN", "searchGroups", "replaceMembers"}
  BY StepTurns DEF RequestInv, StepsOf, Steps, GroupSteps
<1> QED
  BY <1>1, <1>2, <1>3, <1>4, <1>5
     DEF Step, EnsureOrgUnit, EnsureOrgRole, SearchGroup, AddGroup, AddMember, SearchLehrer, AddLehrer,
         SearchMember, DeleteGroup, DeleteMember, SearchEntryToDelete, DeleteEntry, SearchMail, ModifyPrimary, ModifyAlternative

(* A step of changing the addresses on the way to what it promises. *)
LEMMA MailStep ==
  ASSUME TypeOK, RequestInv, NEW c \in Calls, Step(c), EntryFound(c), MailInv(c)
  PROVE  MailInv(c)'
<1> DEFINE r == request[c]
<1>r. UNCHANGED <<request, before>> /\ (faults' = faults \/ faults' = faults + 1)
  BY AcquirePlaces, StepTurns
<1> SUFFICES ASSUME r.kind = "changeEmailAddress", faults' = 0
             PROVE  /\ pc'[c] \in {"waiting", "searchMail", "modifyPrimary"} =>
                         mail'[r.user].primary = before[c].primary
                    /\ pc'[c] \in {"modifyPrimary", "modifyAlternative"} /\ before[c].primary # NoAddress =>
                         seenMail'[c] = before[c].primary
                    /\ pc'[c] = "modifyAlternative" => mail'[r.user].primary = r.mail
                    /\ pc'[c] = "ok" => AddressKept(c)'
  BY <1>r DEF MailInv
<1>z. faults = 0 /\ ~Fault
  <2>1. faults \in Nat
    BY DEF TypeOK
  <2> QED
    BY <1>r, <2>1 DEF Fault
<1>c. pc \in [Calls -> {"idle", "waiting"} \union Steps \union Answers]
  BY DEF TypeOK
<1>g. ASSUME NEW to, Goto(c, to) PROVE pc'[c] = to
  BY <1>c, <1>g DEF Goto
<1>o. Answer(c, "ok") => pc'[c] = "ok"
  BY <1>c DEF Answer
<1>f. Fail(c) => pc'[c] \in {"waiting", "failed"}
  BY <1>c DEF Fail, Answer
<1>u. pc[c] \in {"searchMail", "modifyPrimary", "modifyAlternative"} =>
        r.user \in Users /\ mail[r.user] \in [primary : MaybeAddress, alternative : MaybeAddress]
  BY RequestAt, RequestTypes DEF TypeOK
<1>1. CASE Acquire(c)
  <2>1. pc[c] = "waiting" /\ pc'[c] = "searchMail" /\ UNCHANGED mail
    BY <1>1, AcquirePlaces DEF FirstStep
  <2> QED
    BY <1>z, <2>1 DEF MailInv
<1>2. CASE SearchMail(c)
  <2>1. pc[c] = "searchMail" /\ UNCHANGED mail
    BY <1>2 DEF SearchMail, Read
  <2>2. mail[r.user].primary = before[c].primary
    BY <1>z, <2>1 DEF MailInv
  <2>3. \/ Fail(c)
        \/ /\ Goto(c, "modifyPrimary")
           /\ \E a : /\ mail[r.user].primary # NoAddress => a = mail[r.user].primary
                     /\ seenMail' = [seenMail EXCEPT ![c] = a]
    BY <1>2, <1>z DEF SearchMail, Read
  <2>4. CASE Fail(c)
    BY <1>f, <2>1, <2>2, <2>4
  <2>5. CASE /\ Goto(c, "modifyPrimary")
             /\ \E a : /\ mail[r.user].primary # NoAddress => a = mail[r.user].primary
                       /\ seenMail' = [seenMail EXCEPT ![c] = a]
    <3>1. before[c].primary # NoAddress => seenMail'[c] = before[c].primary
      BY <2>2, <2>5 DEF TypeOK
    <3> QED
      BY <1>g, <2>1, <2>2, <2>5, <3>1
  <2> QED
    BY <2>3, <2>4, <2>5
<1>3. CASE ModifyPrimary(c)
  <2>1. pc[c] = "modifyPrimary" /\ UNCHANGED seenMail /\ r.user \in entries
    BY <1>3 DEF ModifyPrimary, EntryFound
  <2>2. Goto(c, "modifyAlternative") /\ mail' = [mail EXCEPT ![r.user] = [mail[r.user] EXCEPT !.primary = r.mail]]
    BY <1>3, <1>z, <2>1 DEF ModifyPrimary, Call, SetMail
  <2>3. mail'[r.user].primary = r.mail
    BY <1>u, <2>1, <2>2 DEF TypeOK
  <2> QED
    BY <1>g, <1>z, <2>1, <2>2, <2>3 DEF MailInv
<1>4. CASE ModifyAlternative(c)
  <2>1. pc[c] = "modifyAlternative" /\ r.user \in entries
    BY <1>4 DEF ModifyAlternative, EntryFound
  <2>2. Answer(c, "ok") /\ mail' = [mail EXCEPT ![r.user] = [mail[r.user] EXCEPT !.alternative = seenMail[c]]]
    BY <1>4, <1>z, <2>1 DEF ModifyAlternative, Call, SetMail
  <2>3. mail'[r.user].primary = mail[r.user].primary /\ mail'[r.user].alternative = seenMail[c]
    BY <1>u, <2>1, <2>2 DEF TypeOK
  <2>4. AddressKept(c)'
    BY <1>r, <1>z, <2>1, <2>3 DEF AddressKept, MailInv
  <2> QED
    BY <1>o, <2>2, <2>4
<1>5. Acquire(c) \/ pc[c] \in {"searchMail", "modifyPrimary", "modifyAlternative"}
  BY StepTurns DEF RequestInv, StepsOf, Steps, GroupSteps
<1> QED
  BY <1>1, <1>2, <1>3, <1>4, <1>5
     DEF Step, EnsureOrgUnit, EnsureOrgRole, SearchGroup, AddGroup, AddMember, SearchLehrer, AddLehrer,
         SearchMember, DeleteGroup, DeleteMember, SearchEntry, ModifyDN, SearchGroups, ReplaceMembers,
         SearchEntryToDelete, DeleteEntry

(* Every step keeps what is known of the operations on their own.           *)
LEMMA NextAlone ==
  TypeOK /\ RequestInv /\ MutexInv /\ RacedInv /\ FoundInv /\ AloneInv /\ [Next]_vars => AloneInv'
<1> SUFFICES ASSUME TypeOK, RequestInv, MutexInv, RacedInv, FoundInv, AloneInv, [Next]_vars,
                    NEW c \in Calls, pc'[c] # "idle", Alone(c)'
             PROVE  OperationInv(c)'
  BY DEF AloneInv
<1>c. pc \in [Calls -> {"idle", "waiting"} \union Steps \union Answers]
  BY DEF TypeOK
<1>k. pc[c] # "idle" /\ Alone(c) => OperationInv(c)
  BY DEF AloneInv
<1>1. ASSUME Begin(c) PROVE OperationInv(c)'
  BY <1>1, BeginKeeps
<1>2. ASSUME NEW d \in Calls \ {c}, Begin(d) PROVE OperationInv(c)'
  <2>1. /\ UNCHANGED <<directory, faults, attempt, seenGroups, seenMail>>
        /\ \A e \in Calls \ {d} : pc'[e] = pc[e] /\ request'[e] = request[e] /\ before'[e] = before[e]
    <3>1. /\ UNCHANGED <<directory, faults, attempt, seenGroups, seenMail>>
          /\ pc' = [pc EXCEPT ![d] = "waiting"]
          /\ \E r : request' = [request EXCEPT ![d] = r]
          /\ \E b : before' = [before EXCEPT ![d] = b]
      BY <1>2, BeginPlaces
    <3> QED
      BY <3>1 DEF TypeOK
  <2>0. raced => raced'
    BY <1>2, BeginPlaces
  <2>2. pc[d] = "idle"
    BY <1>2, BeginPlaces
  <2>3. Alone(c)
    BY <2>1, <2>2 DEF Alone
  <2> QED
    BY <1>k, <2>0, <2>1, <2>3, OthersKeep
<1>3. ASSUME NEW d \in Calls \ {c}, Step(d) PROVE OperationInv(c)'
  <2>1. /\ pc'[c] = pc[c] /\ attempt'[c] = attempt[c]
        /\ seenGroups'[c] = seenGroups[c] /\ seenMail'[c] = seenMail[c]
        /\ UNCHANGED <<request, past>>
        /\ faults' = faults \/ faults' = faults + 1
    BY <1>3, OthersPlaces
  <2>2. pc[d] # "idle" /\ pc'[d] # "idle" /\ \A e \in Calls \ {d} : pc'[e] = pc[e]
    <3>1. CASE Acquire(d)
      BY <3>1, AcquirePlaces DEF Steps, GroupSteps
    <3>2. CASE ~Acquire(d)
      <4>1. pc[d] \in Steps /\ Turn(d)
        BY <1>3, <3>2, StepTurns
      <4>2. pc[d] # "idle" /\ "idle" \notin StepsOf(request[d].kind)
        BY <4>1, RequestAt, RequestTypes DEF StepsOf, Steps, GroupSteps
      <4> QED
        BY <4>1, <4>2, TurnPlaces
    <3> QED
      BY <3>1, <3>2
  <2>4. Alone(c) /\ Names(request[d]) \intersect Names(request[c]) = {}
    BY <2>1, <2>2 DEF Alone
  <2>5. pc[c] # "idle" /\ Names(request[c]) \subseteq Users
    BY <2>1, RequestAt, RequestTypes
  <2>6. ~raced => GroupFound(d)
    BY DEF FoundInv
  <2>7. \A u \in Names(request[c]) :
          /\ (u \in entries' <=> u \in entries) /\ mail'[u] = mail[u]
          /\ ~raced => \A s \in Schools : u \in group'[s] <=> u \in group[s]
    BY <1>3, <2>4, <2>5, <2>6, StepTouches
  <2> QED
    BY <1>k, <2>1, <2>4, <2>5, <2>7, OthersKeep
<1>4. ASSUME Step(c) PROVE OperationInv(c)'
  <2>1. pc[c] # "idle" /\ request' = request /\ \A e \in Calls \ {c} : pc'[e] = pc[e]
    <3>1. CASE Acquire(c)
      BY <3>1, AcquirePlaces
    <3>2. CASE ~Acquire(c)
      BY <1>4, <3>2, StepTurns, TurnPlaces DEF Steps, GroupSteps
    <3> QED
      BY <3>1, <3>2
  <2>2. OperationInv(c)
    BY <1>k, <2>1 DEF Alone
  <2>3. EntryFound(c) /\ (~raced => GroupFound(c))
    BY DEF FoundInv
  <2> QED
    BY <1>4, <2>2, <2>3, CreateStep, RemoveStep, RenameStep, MoveStep, MailStep DEF OperationInv
<1>5. CASE UNCHANGED vars
  <2>1. Alone(c) /\ pc[c] # "idle"
    BY <1>5 DEF Alone
  <2> QED
    BY <1>5, <1>k, <2>1, OthersKeep
<1> QED
  BY <1>1, <1>2, <1>3, <1>4, <1>5 DEF Next

-----------------------------------------------------------------------------
(* Theorems                                                                *)

Inv == TypeOK /\ RequestInv /\ MutexInv /\ RacedInv /\ FoundInv /\ AloneInv

(* The invariant holds in every reachable state.                            *)
THEOREM Invariance == Spec => []Inv
<1>1. Init => Inv
  BY InitTyped, InitExclusive, InitFound DEF Init, AloneInv, Inv
<1>2. Inv /\ [Next]_vars => Inv'
  BY NextTyped, NextExclusive, NextFound, NextAlone DEF Inv
<1> QED
  BY <1>1, <1>2, PTL DEF Spec

(* runExclusive: of the operations under the mutex at most one makes its    *)
(* calls, and it holds the mutex; nobody holds it who waits for an attempt  *)
(* or has been answered.                                                    *)
THEOREM MutualExclusion ==
  Spec => [](\A c \in Calls : pc[c] \in Steps /\ ~Removal(c) <=> mutex = c)
BY Invariance, PTL DEF Inv, MutexInv

(* Unless a removal has overlapped another operation, a teacher whom        *)
(* createLehrer has answered "ok" for has an entry and stays a member of    *)
(* the school's group, and one who was removed stays out of it, whatever    *)
(* the operations about other teachers do.                                  *)
THEOREM MembershipsStay == Spec => []MembershipStays
<1>1. Inv => MembershipStays
  BY DEF Inv, AloneInv, OperationInv, CreateInv, RemoveInv, MembershipStays, Answered
<1> QED
  BY Invariance, <1>1, PTL

(* What is answered "ok" is what was asked for, and a creation or a         *)
(* renaming fails only after a failed call in each of its attempts.         *)
THEOREM DirectoryChangedAsAsked == Spec => []ChangedAsAsked
<1>1. Inv => ChangedAsAsked
  <2> SUFFICES ASSUME Inv, NEW c \in Calls
               PROVE  /\ RetriesTolerate(c)
                      /\ faults = 0 /\ ~raced /\ Answered(c, "modifyPersonAttributes", "ok") => Moved(c)
                      /\ faults = 0 /\ Answered(c, "changeEmailAddress", "ok") => AddressKept(c)
    BY DEF ChangedAsAsked
  <2>1. pc[c] # "idle" /\ Alone(c) =>
          CreateInv(c) /\ RenameInv(c) /\ MoveInv(c) /\ MailInv(c)
    BY DEF Inv, AloneInv, OperationInv
  <2>2. RetriesTolerate(c)
    BY <2>1 DEF RetriesTolerate, Answered, CreateInv, RenameInv, FaultsSpent
  <2>3. faults = 0 /\ ~raced /\ Answered(c, "modifyPersonAttributes", "ok") => Moved(c)
    BY <2>1 DEF Answered, MoveInv
  <2>4. faults = 0 /\ Answered(c, "changeEmailAddress", "ok") => AddressKept(c)
    BY <2>1 DEF Answered, MailInv
  <2> QED
    BY <2>2, <2>3, <2>4
<1> QED
  BY Invariance, <1>1, PTL

(* A membership comes and goes only while an operation about that teacher   *)
(* is in progress, unless a removal has overlapped another operation.       *)
THEOREM MembershipsAskedFor == Spec => OnlyAskedFor
<1> DEFINE Asked ==
      \A s \in Schools, u \in Users :
        ~raced /\ (u \in group[s]) # (u \in group'[s]) => \E c \in InProgress : u \in Names(request[c])
<1>1. Inv /\ [Next]_vars => [Asked]_vars
  <2> SUFFICES ASSUME Inv, Next, ~raced, NEW s \in Schools, NEW u \in Users, (u \in group[s]) # (u \in group'[s])
               PROVE  \E c \in InProgress : u \in Names(request[c])
    OBVIOUS
  <2>1. PICK c \in Calls : Begin(c) \/ Step(c)
    BY DEF Next
  <2>2. Step(c) /\ ~Acquire(c)
    BY <2>1 DEF Begin, Acquire
  <2>3. TypeOK /\ RequestInv /\ GroupFound(c)
    BY DEF Inv, FoundInv
  <2>4. u \in Names(request[c])
    BY <2>2, <2>3, StepTouches
  <2>5. c \in InProgress
    BY <2>2, <2>3, StepTurns DEF InProgress, Steps, GroupSteps
  <2> QED
    BY <2>4, <2>5
<1> QED
  BY Invariance, <1>1, PTL DEF Spec, OnlyAskedFor
=============================================================================
