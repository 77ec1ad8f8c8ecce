------------------------ MODULE PersonenkontexteUpdate ------------------------
(***************************************************************************)
(* The update of the Personenkontexte (assignments of a person to an       *)
(* organisation in a Rolle) of ONE person, as class PersonenkontexteUpdate *)
(* performs it: read, validate against what the client saw, delete row by  *)
(* row, insert row by row, read again, note whether the person is still    *)
(* assigned anywhere, and publish a PersonenkontextUpdatedEvent.           *)
(*                                                                         *)
(* There is no transaction around the whole: every database access is an   *)
(* await of its own, so several requests for the same person interleave    *)
(* between any two of them.  One action below is the code between two      *)
(* awaits that touch shared state.                                         *)
(*                                                                         *)
(* A row carries the moment of its insertion (column updated_at): rows are *)
(* never modified in place, a changed Befristung is a delete and an        *)
(* insert.  clock is the server's wall clock as far as these stamps show   *)
(* it; MinTick = 0 allows two inserts in the same millisecond.             *)
(***************************************************************************)
EXTENDS Integers, Sequences, FiniteSets

CONSTANTS
  Orgs,               \* organisations
  Rollen,             \* Rollen
  RollenartOf,        \* [Rollen -> Rollenart]
  Befristungen,       \* values of column befristung, "none" included
  Unbefristet,        \* the Befristung that stands for "not set"
  Abgelaufen,         \* the Befristungen before today's midnight
  BefristungPflicht,  \* Rollen with RollenMerkmal BEFRISTUNG_PFLICHT
  EditCalls,          \* requests of an administrator (PUT personenkontext-workflow)
  CronCalls,          \* per-person updates started by cron kontext-expired
  MaxBody,            \* bound: Personenkontexte in one request
  MaxTrouble,         \* bound: overlaps plus faults
  MinTick             \* least distance of two insertion stamps, 0 or 1

Calls == EditCalls \union CronCalls

ASSUME CallsAssumption == EditCalls \intersect CronCalls = {}
ASSUME KontextAssumption ==
  /\ Unbefristet \in Befristungen
  /\ Abgelaufen \subseteq Befristungen \ {Unbefristet}
  /\ BefristungPflicht \subseteq Rollen
ASSUME BoundsAssumption ==
  /\ MinTick \in {0, 1}
  /\ MaxBody \in Nat /\ MaxTrouble \in Nat

\* What a request names: organisation, Rolle and Befristung.
Kontexte == [org : Orgs, rolle : Rollen, bef : Befristungen]
\* A row of table personenkontext of this person.
Rows == [org : Orgs, rolle : Rollen, bef : Befristungen, upd : Nat]

\* Rows as they may be when the observation begins, at clock 1.
InitialRows == [org : Orgs, rolle : Rollen, bef : Befristungen, upd : {1}]
ASSUME FiniteAssumption == IsFiniteSet(InitialRows)

KontextOf(r) == [org |-> r.org, rolle |-> r.rolle, bef |-> r.bef]
KontexteOf(R) == {KontextOf(r) : r \in R}
\* The columns of the unique constraint (person_id, organisation_id, rolle_id).
SameKey(k, l) == k.org = l.org /\ k.rolle = l.rolle
DistinctKeys(R) == \A k, l \in R : SameKey(k, l) => k = l

Steps == {"idle", "read", "find", "rollenart", "validate",
          "permissions", "delete", "add", "after", "unassign", "publish",
          "done", "rejected", "crashed"}

\* A PersonenkontextUpdatedEvent of this person.
Events == [created : SUBSET Kontexte, removed : SUBSET Rows, current : SUBSET Rows]

VARIABLES
  rows,      \* table personenkontext, the rows of this person
  person,    \* table person: does the row exist, is org_unassignment_date set
  clock,     \* the largest insertion stamp handed out so far
  bus,       \* the events published, in order
  faults,    \* database errors, crashes and deletions of the person so far
  overlaps,  \* history: requests that came while another was in progress
  (* The requests: functions on Calls. *)
  pc,        \* the next step
  view,      \* what the client was shown
  lastMod,   \* its lastModified, 0 for undefined
  count,     \* its count
  body,      \* dBiamPersonenkontextBodyParams
  todo,      \* those still to be looked up, deleted or added
  old,       \* sentPKs that were found in the database
  existing,  \* existingPKs
  removed,   \* deletedPKs
  created,   \* createdPKs
  after,     \* existingPKsAfterUpdate
  errors     \* a delete or an insert failed and was logged

db      == <<rows, person, clock>>
trouble == <<faults, overlaps>>
client  == <<view, lastMod, count, body>>
found   == <<old, existing>>
written == <<removed, created, errors>>
vars    == <<db, bus, trouble, pc, client, todo, found, written, after>>

SameRollenartIn(R) == \A k, l \in R : RollenartOf[k.rolle] = RollenartOf[l.rolle]

Init ==
  /\ clock = 1
  /\ rows \in SUBSET InitialRows
  /\ DistinctKeys(rows) /\ SameRollenartIn(rows)
  /\ person \in [exists : {TRUE}, unassigned : BOOLEAN]
  /\ person.unassigned => rows = {}
  /\ bus = <<>>
  /\ faults = 0 /\ overlaps = 0
  /\ pc = [c \in Calls |-> "idle"]
  /\ lastMod = [c \in Calls |-> 0]
  /\ count = [c \in Calls |-> 0]
  /\ errors = [c \in Calls |-> FALSE]
  /\ view = [c \in Calls |-> {}]
  /\ body = [c \in Calls |-> {}]
  /\ todo = [c \in Calls |-> {}]
  /\ old = [c \in Calls |-> {}]
  /\ existing = [c \in Calls |-> {}]
  /\ removed = [c \in Calls |-> {}]
  /\ created = [c \in Calls |-> {}]
  /\ after = [c \in Calls |-> {}]

InFlight == {c \in Calls : pc[c] \notin {"idle", "read", "done", "rejected", "crashed"}}

Fault ==
  /\ faults + overlaps < MaxTrouble
  /\ faults' = faults + 1 /\ UNCHANGED overlaps

\* A request arrives, perhaps while others are in progress.
Arrives ==
  /\ overlaps' = IF InFlight = {} THEN overlaps ELSE overlaps + 1
  /\ faults + overlaps' <= MaxTrouble
  /\ UNCHANGED faults

-----------------------------------------------------------------------------
(* Control: from one step to the next, or one more turn of a loop.         *)

Go(c, from, to) == pc[c] = from /\ pc' = [pc EXCEPT ![c] = to]
Stay(c, step) == pc[c] = step /\ UNCHANGED pc

(* Before the request: what the client bases it on.                        *)

IsNewestStamp(m, R) ==
  /\ \A r \in R : r.upd <= m
  /\ IF R = {} THEN m = 0 ELSE \E r \in R : r.upd = m

\* The administrator's page: the Zuordnungen and lastModifiedZuordnungen.
ShowUebersicht(c) ==
  /\ c \in EditCalls
  /\ Go(c, "idle", "read")
  /\ \E m \in 0 .. clock :
       IsNewestStamp(m, rows) /\ lastMod' = [lastMod EXCEPT ![c] = m]
  /\ view' = [view EXCEPT ![c] = rows]
  /\ count' = [count EXCEPT ![c] = Cardinality(rows)]
  /\ UNCHANGED <<db, bus, trouble, body, todo, found, written, after>>

\* Mutant: the entries of the update are kept in place of the rows.
SelectExpired_KeepsBodies(c) ==
  /\ c \in CronCalls
  /\ Go(c, "idle", "read")
  /\ \E r \in rows : r.bef \in Abgelaufen
  /\ view' = [view EXCEPT ![c] = KontexteOf(rows)]
  /\ count' = [count EXCEPT ![c] = Cardinality(rows)]
  /\ UNCHANGED <<db, bus, trouble, lastMod, body, todo, found, written, after>>

\* Cron: the persons with at least one Kontext past its Befristung.  (One that
\* ran out since midnight is selected and kept; here it counts as running.)
SelectExpired(c) ==
  /\ c \in CronCalls
  /\ Go(c, "idle", "read")
  /\ \E r \in rows : r.bef \in Abgelaufen
  /\ view' = [view EXCEPT ![c] = rows]
  /\ count' = [count EXCEPT ![c] = Cardinality(rows)]
  /\ UNCHANGED <<db, bus, trouble, lastMod, body, todo, found, written, after>>

\* The request arrives; for cron the kept Kontexte and a fresh lastModified.
Submit(c, B) ==
  /\ Arrives
  /\ Go(c, "read", "find")
  /\ body' = [body EXCEPT ![c] = B]
  /\ todo' = [todo EXCEPT ![c] = B]
  /\ \/ c \in EditCalls /\ UNCHANGED <<clock, lastMod>>
     \/ /\ c \in CronCalls
        /\ B = KontexteOf({r \in view[c] : r.bef \notin Abgelaufen})
        /\ clock' = clock + 1
        /\ lastMod' = [lastMod EXCEPT ![c] = clock + 1]
  /\ UNCHANGED <<rows, person, bus, view, count, found, written, after>>

-----------------------------------------------------------------------------
(* getSentPersonenkontexte .. checkPermissionsForChanged                   *)

\* One turn of the loop: the Kontext is "old" if an identical row exists.
FindSent(c) ==
  /\ Stay(c, "find")
  /\ \E k \in todo[c] :
       /\ todo' = [todo EXCEPT ![c] = @ \ {k}]
       /\ old' = [old EXCEPT ![c] = IF k \in KontexteOf(rows) THEN @ \union {k} ELSE @]
  /\ UNCHANGED <<db, bus, trouble, client, existing, written, after>>

ReadExisting(c) ==
  /\ todo[c] = {}
  /\ Go(c, "find", "rollenart")
  /\ existing' = [existing EXCEPT ![c] = rows]
  /\ UNCHANGED <<db, bus, trouble, client, todo, old, written, after>>

\* CheckRollenartSpecification reads the person's rows once more.  The code
\* compares with the first existing Rolle, whichever the database lists first.
RollenartAccepted(sent, R) ==
  IF R = {} \/ sent = {}
  THEN SameRollenartIn(sent)
  ELSE \E r \in R : \A k \in sent : RollenartOf[k.rolle] = RollenartOf[r.rolle]
RollenartRefused(sent, R) ==
  IF R = {} \/ sent = {}
  THEN ~SameRollenartIn(sent)
  ELSE \E r \in R : \E k \in sent : RollenartOf[k.rolle] # RollenartOf[r.rolle]

BefristungAccepted(sent) ==
  \A k \in sent : k.rolle \in BefristungPflicht => k.bef # Unbefristet

CheckSpecifications(c) ==
  /\ \/ /\ RollenartAccepted(body[c], rows) /\ BefristungAccepted(body[c])
        /\ Go(c, "rollenart", "validate")
     \/ /\ RollenartRefused(body[c], rows) \/ ~BefristungAccepted(body[c])
        /\ Go(c, "rollenart", "rejected")
  /\ UNCHANGED <<db, bus, trouble, client, todo, found, written, after>>

\* Mutant: lastModified is only looked at for being there.
UpToDate_CountOnly(c) ==
  /\ Cardinality(existing[c]) = count[c]
  /\ existing[c] = {} \/ lastMod[c] # 0

\* validate: count and lastModified.
UpToDate(c) ==
  /\ Cardinality(existing[c]) = count[c]
  /\ \/ existing[c] = {}
     \/ /\ lastMod[c] # 0
        /\ \A r \in existing[c] : r.upd <= lastMod[c]

Validate(c) ==
  /\ \/ person.exists /\ UpToDate(c) /\ Go(c, "validate", "permissions")
     \/ ~(person.exists /\ UpToDate(c)) /\ Go(c, "validate", "rejected")
  /\ UNCHANGED <<db, bus, trouble, client, todo, found, written, after>>

\* Whether the caller may modify person and organisations is not modelled:
\* both answers are possible.
CheckPermissions(c) ==
  /\ \/ /\ Go(c, "permissions", "delete")
        /\ todo' = [todo EXCEPT ![c] = KontexteOf(existing[c]) \ body[c]]
     \/ Go(c, "permissions", "rejected") /\ UNCHANGED todo
  /\ UNCHANGED <<db, bus, trouble, client, found, written, after>>

-----------------------------------------------------------------------------
(* delete, add                                                             *)

ExistingRow(c, k) == CHOOSE r \in existing[c] : KontextOf(r) = k

\* nativeDelete by person, organisation and Rolle; no row is no error.
DeleteOne(c) ==
  /\ Stay(c, "delete")
  /\ \E k \in todo[c] :
       /\ rows' = {r \in rows : ~SameKey(r, k)}
       /\ todo' = [todo EXCEPT ![c] = @ \ {k}]
       /\ removed' = [removed EXCEPT ![c] = @ \union {ExistingRow(c, k)}]
  /\ UNCHANGED <<person, clock, bus, trouble, client, found, created, errors, after>>

DeleteOneFails(c) ==
  /\ Fault
  /\ Stay(c, "delete")
  /\ \E k \in todo[c] : todo' = [todo EXCEPT ![c] = @ \ {k}]
  /\ errors' = [errors EXCEPT ![c] = TRUE]
  /\ UNCHANGED <<db, bus, client, found, removed, created, after>>

\* Mutant: add() takes a Kontext with a changed Befristung for existing.
DeletesDone_IgnoresBefristung(c) ==
  /\ todo[c] = {}
  /\ Go(c, "delete", "add")
  /\ todo' = [todo EXCEPT ![c] = {k \in body[c] : \A r \in existing[c] : ~SameKey(k, r)}]
  /\ UNCHANGED <<db, bus, trouble, client, found, written, after>>

DeletesDone(c) ==
  /\ todo[c] = {}
  /\ Go(c, "delete", "add")
  /\ todo' = [todo EXCEPT ![c] = body[c] \ KontexteOf(existing[c])]
  /\ UNCHANGED <<db, bus, trouble, client, found, written, after>>

\* save() of a Kontext without id: an insert, under the unique constraint and
\* the foreign key on the person.
CanInsert(k) == person.exists /\ \A r \in rows : ~SameKey(r, k)

AddOne(c) ==
  /\ Stay(c, "add")
  /\ \E k \in todo[c] \ old[c] :
       /\ CanInsert(k)
       /\ \E tick \in MinTick .. 1 :
            /\ clock' = clock + tick
            /\ rows' = rows \union
                 {[org |-> k.org, rolle |-> k.rolle, bef |-> k.bef, upd |-> clock + tick]}
       /\ todo' = [todo EXCEPT ![c] = @ \ {k}]
       /\ created' = [created EXCEPT ![c] = @ \union {k}]
  /\ UNCHANGED <<person, bus, trouble, client, found, removed, errors, after>>

\* save() of a Kontext with id, found by FindSent but gone from existingPKs: an
\* update of an entity the session still holds, which changes nothing.
AddFoundEarlier(c) ==
  /\ Stay(c, "add")
  /\ \E k \in todo[c] \intersect old[c] :
       /\ todo' = [todo EXCEPT ![c] = @ \ {k}]
       /\ created' = [created EXCEPT ![c] = @ \union {k}]
  /\ UNCHANGED <<db, bus, trouble, client, found, removed, errors, after>>

\* Mutant: createdPKs is extended before the insert is tried.
AddOneFails_Reported(c) ==
  /\ Stay(c, "add")
  /\ \E k \in todo[c] :
       /\ \/ k \notin old[c] /\ ~CanInsert(k) /\ UNCHANGED trouble
          \/ Fault
       /\ todo' = [todo EXCEPT ![c] = @ \ {k}]
       /\ created' = [created EXCEPT ![c] = @ \union {k}]
  /\ errors' = [errors EXCEPT ![c] = TRUE]
  /\ UNCHANGED <<db, bus, client, found, removed, after>>

AddOneFails(c) ==
  /\ Stay(c, "add")
  /\ \E k \in todo[c] :
       /\ \/ k \notin old[c] /\ ~CanInsert(k) /\ UNCHANGED trouble
          \/ Fault
       /\ todo' = [todo EXCEPT ![c] = @ \ {k}]
  /\ errors' = [errors EXCEPT ![c] = TRUE]
  /\ UNCHANGED <<db, bus, client, found, removed, created, after>>

AddsDone(c) ==
  /\ todo[c] = {}
  /\ Go(c, "add", "after")
  /\ UNCHANGED <<db, bus, trouble, client, todo, found, written, after>>

-----------------------------------------------------------------------------
(* The rest of update(), publishEvent                                      *)

\* Mutant: the rows read before the update are passed on.
ReadAfterUpdate_NoReread(c) ==
  /\ Go(c, "after", "unassign")
  /\ after' = [after EXCEPT ![c] = existing[c]]
  /\ UNCHANGED <<db, bus, trouble, client, todo, found, written>>

ReadAfterUpdate(c) ==
  /\ Go(c, "after", "unassign")
  /\ after' = [after EXCEPT ![c] = rows]
  /\ UNCHANGED <<db, bus, trouble, client, todo, found, written>>

\* Mutant: the date is set but never cleared.
NoteUnassignment_NeverCleared(c) ==
  /\ Go(c, "unassign", "publish")
  /\ person' = [person EXCEPT !.unassigned = @ \/ after[c] = {}]
  /\ UNCHANGED <<rows, clock, bus, trouble, client, todo, found, written, after>>

\* orgUnassignmentDate is set when nothing is left and cleared otherwise.
NoteUnassignment(c) ==
  /\ Go(c, "unassign", "publish")
  /\ person' = IF person.exists
               THEN [person EXCEPT !.unassigned = (after[c] = {})] ELSE person
  /\ UNCHANGED <<rows, clock, bus, trouble, client, todo, found, written, after>>

\* Mutant: no event when nothing was created.
PublishEvent_OnlyNew(c) ==
  /\ Go(c, "publish", "done")
  /\ bus' = IF person.exists /\ created[c] # {}
            THEN Append(bus, [created |-> created[c], removed |-> removed[c],
                              current |-> after[c]])
            ELSE bus
  /\ UNCHANGED <<db, trouble, client, todo, found, written, after>>

PublishEvent(c) ==
  /\ Go(c, "publish", "done")
  /\ bus' = IF person.exists
            THEN Append(bus, [created |-> created[c], removed |-> removed[c],
                              current |-> after[c]])
            ELSE bus
  /\ UNCHANGED <<db, trouble, client, todo, found, written, after>>

-----------------------------------------------------------------------------
(* The surroundings                                                        *)

\* The process serving the request stops, or a read or the save of the person
\* throws; nothing of the request survives.
Crash(c) ==
  /\ c \in InFlight
  /\ Fault
  /\ pc' = [pc EXCEPT ![c] = "crashed"]
  /\ UNCHANGED <<db, bus, client, todo, found, written, after>>

\* deletePerson's last statement: the row, and by cascade the person's rows.
DeletePersonRow ==
  /\ person.exists
  /\ Fault
  /\ person' = [person EXCEPT !.exists = FALSE]
  /\ rows' = {}
  /\ UNCHANGED <<clock, bus, pc, client, todo, found, written, after>>

Process(c) ==
  \/ FindSent(c) \/ ReadExisting(c) \/ CheckSpecifications(c)
  \/ Validate(c) \/ CheckPermissions(c)
  \/ DeleteOne(c) \/ DeleteOneFails(c) \/ DeletesDone(c)
  \/ AddOne(c) \/ AddFoundEarlier(c) \/ AddOneFails(c) \/ AddsDone(c)
  \/ ReadAfterUpdate(c) \/ NoteUnassignment(c) \/ PublishEvent(c)

Bodies == {B \in SUBSET Kontexte : Cardinality(B) <= MaxBody}

Next ==
  \/ \E c \in Calls :
       \/ ShowUebersicht(c) \/ SelectExpired(c)
       \/ \E B \in Bodies : Submit(c, B)
       \/ Process(c) \/ Crash(c)
  \/ DeletePersonRow

Spec == Init /\ [][Next]_vars

-----------------------------------------------------------------------------
(* Properties                                                              *)

TypeOK ==
  /\ rows \in SUBSET Rows
  /\ person \in [exists : BOOLEAN, unassigned : BOOLEAN]
  /\ clock \in Nat
  /\ bus \in Seq(Events)
  /\ faults \in Nat /\ overlaps \in Nat
  /\ pc \in [Calls -> Steps]
  /\ lastMod \in [Calls -> Nat] /\ count \in [Calls -> Nat]
  /\ errors \in [Calls -> BOOLEAN]
  /\ body \in [Calls -> SUBSET Kontexte] /\ todo \in [Calls -> SUBSET Kontexte]
  /\ old \in [Calls -> SUBSET Kontexte] /\ created \in [Calls -> SUBSET Kontexte]
  /\ view \in [Calls -> SUBSET Rows] /\ existing \in [Calls -> SUBSET Rows]
  /\ removed \in [Calls -> SUBSET Rows] /\ after \in [Calls -> SUBSET Rows]

Validated == {"permissions", "delete", "add", "after", "unassign", "publish", "done"}
Written == {"unassign", "publish", "done"}
NoCrash == \A c \in Calls : pc[c] # "crashed"

(* The check of count and lastModified (validate) is sound: a request that  *)
(* passes it read exactly the rows its client had been shown, however many  *)
(* other requests ran in between.  Needs MinTick = 1.                       *)
ViewStillCurrent ==
  \A c \in EditCalls : pc[c] \in Validated => existing[c] = view[c]

Alone == overlaps = 0

(* A request that ran alone and logged no error leaves exactly the Kontexte *)
(* it was sent; a changed Befristung, a delete plus an insert under the     *)
(* same unique key, arrives as well.  All Rollen of a person have the same  *)
(* Rollenart, which CheckRollenartSpecification enforces and relies upon,   *)
(* also after errors and crashes in the middle of an update.  And once a    *)
(* request has been answered, org_unassignment_date is set exactly for a    *)
(* person without Kontexte: the cron job that removes persons without       *)
(* organisation counts its days from it.                                    *)
ResultAsRequested ==
  Alone =>
    /\ \A c \in Calls :
         (person.exists /\ pc[c] \in Written /\ ~errors[c])
           => KontexteOf(after[c]) = body[c]
    /\ SameRollenartIn(rows)
    /\ (person.exists /\ InFlight = {} /\ NoCrash /\ \E c \in Calls : pc[c] = "done")
         => (person.unassigned <=> rows = {})

(* All Rollen of a person have the same Rollenart, whatever overlaps.       *)
SameRollenartAlways == SameRollenartIn(rows)

ChangesAnnounced ==
  (person.exists /\ InFlight = {} /\ NoCrash) =>
    /\ \A r \in rows : r.upd > 1 => \E i \in 1 .. Len(bus) : KontextOf(r) \in bus[i].created
    /\ \A i \in 1 .. Len(bus) : \A k \in bus[i].created \ KontexteOf(rows) :
         \E j \in 1 .. Len(bus) : \E r \in bus[j].removed : SameKey(r, k)

(* currentKontexte, as a request is about to publish them in a              *)
(* PersonenkontextUpdatedEvent, are the Kontexte the person has then.  And  *)
(* following newKontexte and removedKontexte from event to event, as LDAP   *)
(* and OX do, leads to the same Kontexte as taking currentKontexte of the   *)
(* last event, as itslearning does, also when single writes failed.  Also   *)
(* when requests overlap, once all are answered, every Kontext that came    *)
(* into being was announced as new, and every one announced as new that is  *)
(* gone was announced as removed.                                           *)
EventsTellState ==
  /\ ChangesAnnounced
  /\ Alone =>
       /\ \A c \in Calls : (person.exists /\ pc[c] = "publish") => after[c] = rows
       /\ NoCrash => \A i \in 1 .. Len(bus) - 1 :
            KontexteOf(bus[i + 1].current) =
              (KontexteOf(bus[i].current) \ KontexteOf(bus[i + 1].removed)) \union bus[i + 1].created

-----------------------------------------------------------------------------
(* Requests that run one at a time refine a compare-and-set register: the   *)
(* rows between the first delete and the last insert are not yet its value. *)

Writing == {c \in Calls : pc[c] \in {"delete", "add"}}

RegisterValue ==
  IF Writing = {} THEN KontexteOf(rows)
  ELSE KontexteOf(existing[CHOOSE c \in Writing : TRUE])

\* Nothing is promised when requests overlap, one breaks off or the person is
\* deleted; cron does not come as a client that was shown the present state.
Excused ==
  ~Alone \/ ~NoCrash \/ ~person.exists \/ \E c \in CronCalls : pc[c] \notin {"idle", "read"}

Register == INSTANCE KontextRegister WITH
  Clients   <- EditCalls,
  Values    <- SUBSET Kontexte,
  value     <- RegisterValue,
  shown     <- [c \in EditCalls |-> IF pc[c] = "idle" THEN {}
                                    ELSE {KontexteOf(view[c])}],
  answered  <- {c \in EditCalls : pc[c] \in {"after", "unassign", "publish", "done"}},
  announced <- IF bus = <<>> THEN {} ELSE {KontexteOf(bus[Len(bus)].current)},
  excused   <- Excused

(* Every step of edits that do not overlap is a step of the register, also  *)
(* when single deletes and inserts fail: no update goes through on a view   *)
(* that is no longer the state, none is half visible once answered, and     *)
(* each event announces the state.                                          *)
RefinesRegister == Register!Spec
=============================================================================
