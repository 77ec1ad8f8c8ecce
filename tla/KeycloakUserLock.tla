--------------------------- MODULE KeycloakUserLock ---------------------------
(***************************************************************************)
(* Locking and unlocking of users.  A person is locked for an occasion:    *)
(* manually by an administrator, or by cron because the KoPers number is   *)
(* missing after the deadline.  Each occasion is a row of table user_lock; *)
(* the effect is the flag "enabled" of the user in Keycloak.               *)
(*                                                                         *)
(* KeycloakUserService.updateKeycloakUserStatus changes both, table and    *)
(* Keycloak, one after the other.  Four callers share it: the              *)
(* administrator's request, cron kopers-lock, cron unlock (locks past      *)
(* their Befristung), and the update of the person's Personalnummer.       *)
(***************************************************************************)
EXTENDS Naturals, FiniteSets

CONSTANTS
  Persons,
  Admins,      \* requests of administrators that may be in progress at a time
  MaxRows,     \* bound: rows inserted into user_lock
  MaxFaults    \* bound: errors of Keycloak and of the database

ASSUME LockAssumption ==
  /\ Admins \intersect {"kopers", "unlock", "nummer"} = {}
  /\ MaxRows \in Nat /\ MaxFaults \in Nat

PersonLockOccasion == {"KOPERS_GESPERRT", "MANUELL_GESPERRT"}

\* One call of updateKeycloakUserStatus: who makes it, for whom and for which
\* occasion.  The unlock job makes one for each lock it has read.
Tasks ==
  [job : Admins, person : Persons, occasion : {"MANUELL_GESPERRT"}]
    \union [job : {"kopers", "nummer"}, person : Persons, occasion : {"KOPERS_GESPERRT"}]
    \union [job : {"unlock"}, person : Persons, occasion : PersonLockOccasion]

\* locked_until: not set, still to come, or past.
Befristungen == {"never", "open", "over"}
UserLocks == [id : Nat, person : Persons, occasion : PersonLockOccasion, until : Befristungen]

AtRest == {"idle", "ok", "failed"}
LockSteps == {"find", "pick", "write", "create", "disable"}
UnlockSteps == {"locks", "delete", "remaining", "enable", "save"}

VARIABLES
  locks,      \* table user_lock
  enabled,    \* [Persons -> BOOLEAN], in Keycloak
  overdue,    \* [Persons -> BOOLEAN]: no Personalnummer, and the deadline is over
  inserted,   \* rows inserted so far: the next id
  faults,
  crossed,    \* history: persons for whom a request that locks overlapped another one
  (* Functions on Tasks. *)
  pc,
  until,      \* locked_until of the lock to be written
  picked      \* id of the row that update() has found

vars == <<locks, enabled, overdue, inserted, faults, crossed, pc, until, picked>>

LocksOf(x) == {l \in locks : l.person = x}
Has(x, o) == \E l \in LocksOf(x) : l.occasion = o

Init ==
  /\ locks = {} /\ inserted = 0 /\ faults = 0 /\ crossed = {}
  /\ enabled = [x \in Persons |-> TRUE]
  /\ overdue \in [Persons -> BOOLEAN]
  /\ pc = [t \in Tasks |-> "idle"]
  /\ until = [t \in Tasks |-> "never"]
  /\ picked = [t \in Tasks |-> 0]

InFlight == {t \in Tasks : pc[t] \notin AtRest}
Busy(x) == \E t \in InFlight : t.person = x
Locking(x) == \E t \in InFlight : t.person = x /\ pc[t] \in LockSteps

\* The tasks of T begin, each with step.
Begins(T, step) ==
  crossed' = crossed \union
    {x \in Persons : /\ \E t \in T : t.person = x
                     /\ Locking(x) \/ (step \in LockSteps /\ Busy(x))}

\* The bound leaves room for n locks more.
Room(n) == inserted + Cardinality({t \in Tasks : pc[t] \in LockSteps}) + n <= MaxRows

Go(t, from, to) == pc[t] = from /\ pc' = [pc EXCEPT ![t] = to]
\* The client for Keycloak was not authenticated, or a call throws.
Fails(t, from) == faults < MaxFaults /\ faults' = faults + 1 /\ Go(t, from, "failed")

-----------------------------------------------------------------------------
(* The callers                                                             *)

\* PUT lock-user.
AdminBegins(t) ==
  /\ t.job \in Admins /\ pc[t] \in AtRest
  /\ \E step \in {"find", "delete"}, u \in {"never", "open"} :
       /\ Begins({t}, step)
       /\ step = "find" => Room(1)
       /\ pc' = [pc EXCEPT ![t] = step]
       /\ until' = [until EXCEPT ![t] = IF step = "find" THEN u ELSE "never"]
  /\ UNCHANGED <<locks, enabled, overdue, inserted, faults, picked>>

\* getKoPersUserLockList.
KopersList == {x \in Persons : overdue[x] /\ ~Has(x, "KOPERS_GESPERRT")}

\* koPersUserLock: the persons of the list, all at a time.
KopersLock ==
  LET mine == {t \in Tasks : t.job = "kopers"} IN
  /\ \A t \in mine : pc[t] \in AtRest
  /\ Begins({t \in mine : t.person \in KopersList}, "find")
  /\ Room(Cardinality(KopersList))
  /\ pc' = [t \in Tasks |-> IF t \notin mine THEN pc[t]
                            ELSE IF t.person \in KopersList THEN "find" ELSE "ok"]
  /\ UNCHANGED <<locks, enabled, overdue, inserted, faults, until, picked>>

\* Mutant: the comparison with today is the wrong way round.
LocksToUnlock_Later == {l \in locks : l.until = "open"}

\* getLocksToUnlock.
LocksToUnlock == {l \in locks : l.until = "over"}

\* unlockUsersWithExpiredLocks.
UnlockExpired ==
  LET mine == {t \in Tasks : t.job = "unlock"}
      due == {t \in mine : \E l \in LocksToUnlock : l.person = t.person /\ l.occasion = t.occasion}
  IN
  /\ \A t \in mine : pc[t] \in AtRest
  /\ Begins(due, "delete")
  /\ pc' = [t \in Tasks |-> IF t \in due THEN "delete" ELSE IF t \in mine THEN "ok" ELSE pc[t]]
  /\ UNCHANGED <<locks, enabled, overdue, inserted, faults, until, picked>>

\* updatePersonMetadata with a Personalnummer that nobody else has.
NummerBegins(t) ==
  /\ t.job = "nummer" /\ pc[t] \in AtRest
  /\ Begins({t}, "locks")
  /\ pc' = [pc EXCEPT ![t] = "locks"]
  /\ UNCHANGED <<locks, enabled, overdue, inserted, faults, until, picked>>

\* Mutant: the wrong lock is looked for.
NummerReadsLocks_Manual(t) ==
  /\ Go(t, "locks", IF Has(t.person, "MANUELL_GESPERRT") THEN "delete" ELSE "save")
  /\ UNCHANGED <<locks, enabled, overdue, inserted, faults, crossed, until, picked>>

\* "Remove KoPers-Lock, if existing".
NummerReadsLocks(t) ==
  /\ Go(t, "locks", IF Has(t.person, "KOPERS_GESPERRT") THEN "delete" ELSE "save")
  /\ UNCHANGED <<locks, enabled, overdue, inserted, faults, crossed, until, picked>>

NummerSaves(t) ==
  /\ Go(t, "save", "ok")
  /\ overdue' = [overdue EXCEPT ![t.person] = FALSE]
  /\ UNCHANGED <<locks, enabled, inserted, faults, crossed, until, picked>>

-----------------------------------------------------------------------------
(* updateKeycloakUserStatus, lock = true                                   *)

\* Only a manual lock counts as existing, for both occasions.
FindExisting(t) ==
  /\ Go(t, "find", IF Has(t.person, "MANUELL_GESPERRT") THEN "pick" ELSE "create")
  /\ UNCHANGED <<locks, enabled, overdue, inserted, faults, crossed, until, picked>>

\* UserLockRepository.update looks for some lock of the person ...
PickLock(t) ==
  /\ \/ \E l \in LocksOf(t.person) :
          Go(t, "pick", "write") /\ picked' = [picked EXCEPT ![t] = l.id]
     \/ LocksOf(t.person) = {} /\ Go(t, "pick", "failed") /\ UNCHANGED picked
  /\ UNCHANGED <<locks, enabled, overdue, inserted, faults, until, crossed>>

\* ... and overwrites it with the new one, occasion included.  A locked_until
\* that is undefined may be written as "not set" or left out of the UPDATE.
WriteLock(t) ==
  /\ pc[t] = "write"
  /\ \E u \in Befristungen :
     LET hit == {l \in locks : l.id = picked[t]}
         new == {[l EXCEPT !.occasion = t.occasion, !.until = u] : l \in hit}
     IN /\ u = until[t] \/ (until[t] = "never" /\ \E l \in hit : l.until = u)
        /\ \/ /\ \A l \in locks \ hit : l.person = t.person => l.occasion # t.occasion
              /\ locks' = (locks \ hit) \union new
              /\ Go(t, "write", "disable")
           \/ /\ hit # {}
              /\ \E l \in locks \ hit : l.person = t.person /\ l.occasion = t.occasion
              /\ Go(t, "write", "failed")
              /\ UNCHANGED locks
           \/ hit = {} /\ Go(t, "write", "disable") /\ UNCHANGED locks
  /\ until' = [until EXCEPT ![t] = "never"]
  /\ picked' = [picked EXCEPT ![t] = 0]
  /\ UNCHANGED <<enabled, overdue, inserted, faults, crossed>>

\* Mutant: a third value of locked_until stands for "not set".
CreateLock_Unbefristet(t) ==
  /\ \/ /\ ~Has(t.person, t.occasion)
        /\ Go(t, "create", "disable")
        /\ inserted' = inserted + 1
        /\ locks' = locks \union {[id |-> inserted + 1, person |-> t.person,
                                   occasion |-> t.occasion,
                                   until |-> IF until[t] = "never" THEN "unset" ELSE until[t]]}
     \/ Has(t.person, t.occasion) /\ Go(t, "create", "failed") /\ UNCHANGED <<locks, inserted>>
  /\ until' = [until EXCEPT ![t] = "never"]
  /\ UNCHANGED <<enabled, overdue, faults, picked, crossed>>

\* createUserLock, under the unique constraint on person and occasion.
CreateLock(t) ==
  /\ \/ /\ ~Has(t.person, t.occasion)
        /\ Go(t, "create", "disable")
        /\ inserted' = inserted + 1
        /\ locks' = locks \union {[id |-> inserted + 1, person |-> t.person,
                                   occasion |-> t.occasion, until |-> until[t]]}
     \/ Has(t.person, t.occasion) /\ Go(t, "create", "failed") /\ UNCHANGED <<locks, inserted>>
  /\ until' = [until EXCEPT ![t] = "never"]
  /\ UNCHANGED <<enabled, overdue, faults, picked, crossed>>

DisableUser(t) ==
  /\ Go(t, "disable", "ok")
  /\ enabled' = [enabled EXCEPT ![t.person] = FALSE]
  /\ UNCHANGED <<locks, overdue, inserted, faults, crossed, until, picked>>

-----------------------------------------------------------------------------
(* updateKeycloakUserStatus, lock = false                                  *)

DeleteLock(t) ==
  /\ Go(t, "delete", "remaining")
  /\ locks' = {l \in locks : l.person # t.person \/ l.occasion # t.occasion}
  /\ UNCHANGED <<enabled, overdue, inserted, faults, crossed, until, picked>>

\* A caller is done; the update of the Personalnummer goes on.
Unlocked(t) == IF t.job = "nummer" THEN "save" ELSE "ok"

\* Mutant: other locks are not looked at.
ReadRemaining_Ignored(t) ==
  /\ Go(t, "remaining", "enable")
  /\ UNCHANGED <<locks, enabled, overdue, inserted, faults, crossed, until, picked>>

ReadRemaining(t) ==
  /\ Go(t, "remaining", IF LocksOf(t.person) = {} THEN "enable" ELSE Unlocked(t))
  /\ UNCHANGED <<locks, enabled, overdue, inserted, faults, crossed, until, picked>>

EnableUser(t) ==
  /\ Go(t, "enable", Unlocked(t))
  /\ enabled' = [enabled EXCEPT ![t.person] = TRUE]
  /\ UNCHANGED <<locks, overdue, inserted, faults, crossed, until, picked>>

\* Any step may fail; the steps before it have had their effect.
StepFails(t) ==
  /\ \E from \in LockSteps \union UnlockSteps : Fails(t, from)
  /\ UNCHANGED <<locks, enabled, overdue, inserted, until, picked, crossed>>

\* The Befristung of a lock passes.
Expire ==
  /\ \E l \in locks : l.until = "open" /\ locks' = (locks \ {l}) \union {[l EXCEPT !.until = "over"]}
  /\ UNCHANGED <<enabled, overdue, inserted, faults, pc, until, picked, crossed>>

Step(t) ==
  \/ NummerReadsLocks(t) \/ NummerSaves(t)
  \/ FindExisting(t) \/ PickLock(t) \/ WriteLock(t) \/ CreateLock(t) \/ DisableUser(t)
  \/ DeleteLock(t) \/ ReadRemaining(t) \/ EnableUser(t)
  \/ StepFails(t)

Next ==
  \/ KopersLock \/ UnlockExpired \/ Expire
  \/ \E t \in Tasks : AdminBegins(t) \/ NummerBegins(t) \/ Step(t)

Spec == Init /\ [][Next]_vars

\* Cron starts the unlock job every day, so it also gets a turn among requests
\* that come and go; Node runs every continuation.
FairSpec == Spec /\ SF_vars(UnlockExpired) /\ \A t \in Tasks : WF_vars(Step(t))

-----------------------------------------------------------------------------
(* Properties                                                              *)

TypeOK ==
  /\ locks \in SUBSET UserLocks
  /\ enabled \in [Persons -> BOOLEAN] /\ overdue \in [Persons -> BOOLEAN]
  /\ inserted \in Nat /\ faults \in Nat /\ crossed \in SUBSET Persons
  /\ pc \in [Tasks -> AtRest \union LockSteps \union UnlockSteps]
  /\ until \in [Tasks -> Befristungen]
  /\ picked \in [Tasks -> Nat]

(* Nothing failed, and of the requests for the person that overlapped none  *)
(* was one that locks.                                                      *)
Orderly(x) == ~Busy(x) /\ faults = 0 /\ x \notin crossed

(* When no request for a user is in progress, the user is disabled in       *)
(* Keycloak exactly if the table holds a lock for some occasion, also when  *)
(* requests that unlock have overlapped in any order.                       *)
LocksDisable ==
  \A x \in Persons : Orderly(x) => (LocksOf(x) = {} <=> enabled[x])

(* A person with a Personalnummer is not locked for want of one.            *)
NummerEndsKopersLock ==
  \A x \in Persons : Orderly(x) => overdue[x] \/ ~Has(x, "KOPERS_GESPERRT")

(* A manual lock ends when an administrator lifts it or its Befristung is   *)
(* over, whatever becomes of the lock for the KoPers number: already        *)
(* without requests that overlap.                                           *)
ManualLockStays ==
  [][\A x \in Persons \ crossed :
       Has(x, "MANUELL_GESPERRT") /\ ~Has(x, "MANUELL_GESPERRT")'
         => \E t \in Tasks : t.person = x /\ t.occasion = "MANUELL_GESPERRT" /\ DeleteLock(t)]_vars

(* A lock past its Befristung is lifted in the end, also when Keycloak or   *)
(* the database fail now and then; unless requests that lock the person     *)
(* overlap others (their writes could hand the lock from one occasion to    *)
(* the other forever).                                                      *)
ExpiredLifted ==
  \A x \in Persons :
    (\E l \in LocksOf(x) : l.until = "over")
      ~> ~(\E l \in LocksOf(x) : l.until = "over") \/ x \in crossed
=============================================================================
