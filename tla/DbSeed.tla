-------------------------------- MODULE DbSeed --------------------------------
(***************************************************************************)
(* Seeding of the database (DbSeedConsole, DbSeedService).  Before a pod   *)
(* serves requests its init container applies the seeding files, one after *)
(* the other, and starts again when that fails; the pods of a deployment   *)
(* do so at the same time.  A file is known by the hash of its content and *)
(* is applied at most once.  Its entities have virtual ids, and table      *)
(* seeding_reference has the uuid that each of them was given.             *)
(*                                                                         *)
(* Attributes are left out, but for being valid, the username of a person  *)
(* (its virtual id stands for it) and the Personalnummer.                  *)
(***************************************************************************)
EXTENDS Integers, Sequences, FiniteSets

CONSTANTS
  Seeders,    \* init containers
  Hashes,     \* contents of files
  Content,    \* [Hashes -> sequence of entities]
  Directory,  \* the files to begin with: a sequence of hashes
  Corrected,  \* [Hashes -> the content that may replace it, or itself]
  NoUuid,
  MaxFailures   \* bound: failing calls and crashes

Types == {"ORGANISATION", "PERSON", "ROLLE", "SERVICE_PROVIDER", "KONTEXT"}
Keys == {e.key : e \in UNION {{Content[h][i] : i \in DOMAIN Content[h]} : h \in Hashes}}

\* key: type and virtual id, refs: what it refers to, override: its uuid if the
\* file has one.  Uuids made up are numbered from 1 on: none of them is in a file.
Entities ==
  [key : Types \X Nat, refs : SUBSET ((Types \ {"KONTEXT"}) \X Nat),
   override : (Int \ Nat) \union {NoUuid}, valid : BOOLEAN, nummer : Int \union {NoUuid}]

ASSUME ContentAssumption ==
  /\ Content \in [Hashes -> Seq(Entities)] /\ Corrected \in [Hashes -> Hashes]
  /\ Directory \in Seq(Hashes) /\ MaxFailures \in Nat /\ NoUuid \notin Int

VARIABLES
  directory,  \* the files, in the order of their names
  seeding,    \* table seeding: [Hashes -> status]
  rows,       \* all other tables: [key, nummer, uuid, from]
  reference,  \* table seeding_reference: [key, uuid]
  keycloak,   \* [Keys -> uuid of the person whose user has the name of this one]
  seeder,     \* [Seeders -> [at, file, hash, item, uuid]]
  made,       \* uuids made up
  failures,
  (* History. *)
  refused,    \* persons that were not created, which is only logged
  disturbed  \* two of them were at work, a call failed, or a file was corrected

seedVars == <<directory, seeding, rows, reference, keycloak, seeder, made, failures, refused, disturbed>>
tables == <<rows, reference, keycloak, made>>

Off == [at |-> "off", file |-> 0, hash |-> NoUuid, item |-> 0, uuid |-> NoUuid]

SeedInit ==
  /\ directory = Directory /\ seeding = [h \in Hashes |-> "none"]
  /\ rows = {} /\ reference = {}
  (* Keycloak may have users of an earlier database, here of the person 0. *)
  /\ \E left \in {NoUuid, 0} : keycloak = [k \in Keys |-> IF k[1] = "PERSON" THEN left ELSE NoUuid]
  /\ seeder = [s \in Seeders |-> Off] /\ made = 0 /\ failures = 0
  /\ refused = {} /\ disturbed = FALSE

-----------------------------------------------------------------------------
(* One file after the other                                                *)

Entity(s) == Content[seeder[s].hash][seeder[s].item]
From(s) == <<seeder[s].hash, seeder[s].item>>
Goto(s, at) == seeder' = [seeder EXCEPT ![s].at = at]
NextFile(s) == seeder' = [seeder EXCEPT ![s] = [Off EXCEPT !.at = "find", !.file = seeder[s].file + 1]]
Stop(s) == seeder' = [seeder EXCEPT ![s] = Off]

Start(s) ==
  /\ seeder[s].at = "off"
  /\ seeder' = [seeder EXCEPT ![s] = [Off EXCEPT !.at = "find", !.file = 1]]
  /\ disturbed' = (disturbed \/ \E t \in Seeders : seeder[t].at # "off")
  /\ UNCHANGED <<directory, seeding, tables, failures, refused>>

\* Mutant: the files after one that failed are not applied either.
FindSeed_StopsAtFailed(s) ==
  /\ seeder[s].at = "find"
  /\ IF seeder[s].file > Len(directory) THEN Stop(s)
     ELSE LET hash == directory[seeder[s].file] IN
          IF seeding[hash] = "FAILED" THEN Stop(s)
          ELSE IF seeding[hash] # "none" THEN NextFile(s)
          ELSE seeder' = [seeder EXCEPT ![s].at = "create", ![s].hash = hash]
  /\ UNCHANGED <<directory, seeding, tables, failures, refused, disturbed>>
\* A file that is known is skipped, whatever became of it.
FindSeed(s) ==
  /\ seeder[s].at = "find"
  /\ IF seeder[s].file > Len(directory) THEN Stop(s)
     ELSE LET hash == directory[seeder[s].file] IN
          IF seeding[hash] # "none" THEN NextFile(s)
          ELSE seeder' = [seeder EXCEPT ![s].at = "create", ![s].hash = hash]
  /\ UNCHANGED <<directory, seeding, tables, failures, refused, disturbed>>

\* Mutant: a row that is there is taken over.
CreateSeed_Upsert(s) ==
  /\ seeder[s].at = "create"
  /\ seeding' = [seeding EXCEPT ![seeder[s].hash] = "STARTED"]
  /\ seeder' = [seeder EXCEPT ![s].at = "entity", ![s].item = 1]
  /\ UNCHANGED <<directory, tables, failures, refused, disturbed>>
\* The hash is the primary key: when another one was faster, this one stops.
CreateSeed(s) ==
  LET hash == seeder[s].hash IN
  /\ seeder[s].at = "create"
  /\ IF seeding[hash] = "none"
     THEN /\ seeding' = [seeding EXCEPT ![hash] = "STARTED"]
          /\ seeder' = [seeder EXCEPT ![s].at = "entity", ![s].item = 1]
     ELSE Stop(s) /\ UNCHANGED seeding
  /\ UNCHANGED <<directory, tables, failures, refused, disturbed>>

Done(s) ==
  /\ seeder[s].at = "entity" /\ seeder[s].item > Len(Content[seeder[s].hash])
  /\ seeding' = [seeding EXCEPT ![seeder[s].hash] = "DONE"]
  /\ NextFile(s)
  /\ UNCHANGED <<directory, tables, failures, refused, disturbed>>

\* An error ends the run; the entities before it stay.
\* Mutant: the error is logged, and the file counts as applied.
FileFails_Logged(s) ==
  /\ seeding' = [seeding EXCEPT ![seeder[s].hash] = "DONE"]
  /\ Stop(s) /\ UNCHANGED tables
FileFails(s) ==
  /\ seeding' = [seeding EXCEPT ![seeder[s].hash] = "FAILED"]
  /\ Stop(s) /\ UNCHANGED tables

-----------------------------------------------------------------------------
(* One entity after the other                                              *)

AtEntity(s) == seeder[s].at = "entity" /\ seeder[s].item <= Len(Content[seeder[s].hash])
NextItem(s) == seeder' = [seeder EXCEPT ![s].at = "entity", ![s].item = @ + 1, ![s].uuid = NoUuid]

\* getReferencedOrganisation etc.: of several uuids, which only corrected files lead to,
\* any may be taken.
Found(key) == \E r \in reference : r.key = key /\ \E x \in rows : x.uuid = r.uuid
Acceptable(e) == e.valid /\ \A key \in e.refs : Found(key)
Uuid(e) == IF e.override # NoUuid THEN e.override ELSE made + 1
Taken(uuid) == \E x \in rows : x.uuid = uuid
Row(s, uuid) == [key |-> Entity(s).key, nummer |-> Entity(s).nummer, uuid |-> uuid, from |-> From(s)]

\* Mutant: an entity that is there is written again.
SeedEntity_AnyUuid(s) ==
  LET e == Entity(s)
      uuid == Uuid(e)
  IN
  /\ AtEntity(s) /\ e.key[1] # "PERSON"
  /\ Acceptable(e)
  /\ rows' = rows \union {Row(s, uuid)}
  /\ made' = IF e.override # NoUuid THEN made ELSE made + 1
  /\ IF e.key[1] = "KONTEXT" THEN NextItem(s)
     ELSE seeder' = [seeder EXCEPT ![s].at = "refer", ![s].uuid = uuid]
  /\ UNCHANGED <<directory, seeding, reference, keycloak, failures, refused, disturbed>>
\* seedOrganisation, seedServiceProvider, seedRolle, and seedPersonenkontext, which
\* leaves no reference.
SeedEntity(s) ==
  LET e == Entity(s)
      uuid == Uuid(e)
  IN
  /\ AtEntity(s) /\ e.key[1] # "PERSON"
  /\ Acceptable(e) /\ ~Taken(uuid)
  /\ rows' = rows \union {Row(s, uuid)}
  /\ made' = IF e.override # NoUuid THEN made ELSE made + 1
  /\ IF e.key[1] = "KONTEXT" THEN NextItem(s)
     ELSE seeder' = [seeder EXCEPT ![s].at = "refer", ![s].uuid = uuid]
  /\ UNCHANGED <<directory, seeding, reference, keycloak, failures, refused, disturbed>>

\* seedPerson: a user of that name is deleted in Keycloak, whoever has it, ...
ReplaceUser(s) ==
  LET e == Entity(s) IN
  /\ AtEntity(s) /\ e.key[1] = "PERSON" /\ e.valid
  /\ \/ keycloak' = [keycloak EXCEPT ![e.key] = NoUuid] /\ UNCHANGED failures
     \/ failures < MaxFailures /\ failures' = failures + 1 /\ UNCHANGED keycloak   \* the answer is ignored
  /\ made' = IF e.override # NoUuid THEN made ELSE made + 1
  /\ seeder' = [seeder EXCEPT ![s].at = "user", ![s].uuid = Uuid(e)]
  /\ UNCHANGED <<directory, seeding, rows, reference, refused, disturbed>>

\* ... PersonRepository.create checks the Personalnummer and creates the user, ...
NummerTaken(e) == e.nummer # NoUuid /\ \E x \in rows : x.nummer = e.nummer
CreateUser(s) ==
  LET e == Entity(s) IN
  /\ seeder[s].at = "user" /\ ~NummerTaken(e) /\ keycloak[e.key] = NoUuid
  /\ keycloak' = [keycloak EXCEPT ![e.key] = seeder[s].uuid]
  /\ Goto(s, "commit")
  /\ UNCHANGED <<directory, seeding, rows, reference, made, failures, refused, disturbed>>

\* ... or returns an error: it is logged, and the next person comes.
Refuse(s) ==
  /\ refused' = refused \union {From(s)} /\ NextItem(s)
  /\ UNCHANGED <<directory, seeding, tables, disturbed>>
PersonRefused(s) ==
  /\ seeder[s].at = "user" /\ (NummerTaken(Entity(s)) \/ keycloak[Entity(s).key] # NoUuid)
  /\ Refuse(s) /\ UNCHANGED failures

CommitPerson(s) ==
  /\ seeder[s].at = "commit" /\ ~Taken(seeder[s].uuid)
  /\ rows' = rows \union {Row(s, seeder[s].uuid)}
  /\ Goto(s, "refer")
  /\ UNCHANGED <<directory, seeding, reference, keycloak, made, failures, refused, disturbed>>

\* dbSeedReferenceRepo.create
SaveReference(s) ==
  /\ seeder[s].at = "refer"
  /\ reference' = reference \union {[key |-> Entity(s).key, uuid |-> seeder[s].uuid]}
  /\ NextItem(s)
  /\ UNCHANGED <<directory, seeding, rows, keycloak, made, failures, refused, disturbed>>

\* An invalid entity, a reference that is not found, a uuid that is taken.
EntityFails(s) ==
  /\ \/ AtEntity(s) /\ Entity(s).key[1] # "PERSON" /\ ~(Acceptable(Entity(s)) /\ ~Taken(Uuid(Entity(s))))
     \/ AtEntity(s) /\ Entity(s).key[1] = "PERSON" /\ ~Entity(s).valid
     \/ seeder[s].at = "commit" /\ Taken(seeder[s].uuid)
  /\ FileFails(s)
  /\ UNCHANGED <<directory, failures, refused, disturbed>>

-----------------------------------------------------------------------------
(* Faults, and people                                                      *)

Fault == failures < MaxFailures /\ failures' = failures + 1 /\ disturbed' = TRUE

\* A call of the database fails; or, storing that the file has failed, does so as well.
CallFails(s) ==
  /\ Fault /\ seeder[s].at \in {"entity", "commit", "refer"}
  /\ FileFails(s)
  /\ UNCHANGED <<directory, refused>>

\* Keycloak is not there: the user is not created.
KeycloakFails(s) ==
  /\ seeder[s].at = "user"
  /\ failures < MaxFailures /\ failures' = failures + 1
  /\ Refuse(s)

\* The process ends, or cannot store a status.
Crash(s) ==
  /\ Fault /\ seeder[s].at # "off" /\ Stop(s)
  /\ UNCHANGED <<directory, seeding, tables, refused>>

\* Someone corrects a file: its content is a new one.
Correct(n) ==
  /\ \A s \in Seeders : seeder[s].at = "off"
  /\ seeding[directory[n]] = "FAILED" /\ Corrected[directory[n]] # directory[n]
  /\ directory' = [directory EXCEPT ![n] = Corrected[directory[n]]]
  /\ disturbed' = TRUE
  /\ UNCHANGED <<seeding, tables, seeder, failures, refused>>

Step(s) ==
  \/ Start(s) \/ FindSeed(s) \/ CreateSeed(s) \/ Done(s)
  \/ SeedEntity(s) \/ ReplaceUser(s) \/ CreateUser(s) \/ PersonRefused(s) \/ CommitPerson(s)
  \/ SaveReference(s) \/ EntityFails(s)

SeedNext ==
  \/ \E s \in Seeders : Step(s) \/ CallFails(s) \/ KeycloakFails(s) \/ Crash(s)
  \/ \E n \in DOMAIN directory : Correct(n)

\* A container that has ended is started again, and Node goes on when a call is answered.
SeedSpec == SeedInit /\ [][SeedNext]_seedVars /\ \A s \in Seeders : WF_seedVars(Step(s))
-----------------------------------------------------------------------------
(* Properties                                                              *)

SeedTypeOK ==
  /\ directory \in [DOMAIN Directory -> Hashes]
  /\ seeding \in [Hashes -> {"none", "STARTED", "DONE", "FAILED"}]
  /\ \A x \in rows : x.key \in Keys /\ \A y \in rows : x.uuid = y.uuid => x = y
  /\ \A r \in reference : \E x \in rows : x.uuid = r.uuid /\ x.key = r.key
  /\ \A s \in Seeders : seeder[s].at \in {"entity", "user", "commit", "refer"} => seeding[seeder[s].hash] # "none"
  /\ failures \in 0..MaxFailures

(* However often and by whomever it is started and broken off, no entity of *)
(* a file comes into being twice.  A file that is DONE has all its entities *)
(* in the tables, with the one reference by which others find them, but for *)
(* persons that were refused; and a person that is the only one of its name *)
(* has its user.  A file FAILED for a cause that is in the files: an        *)
(* invalid entity, a uuid given twice or a reference to what does not come  *)
(* before; unless calls failed, or two were at work, one of which skipped   *)
(* the file that the other was busy with.                                   *)
Of(h, i) == {x \in rows : x.from = <<h, i>>}
OnlyOneOfItsName(h, i) ==
  \A g \in Hashes : \A j \in DOMAIN Content[g] :
    Content[g][j].key = Content[h][i].key => g = h /\ j = i
ComesBefore(f, h, i) ==
  IF f[1] = h THEN f[2] < i
  ELSE \E n \in DOMAIN directory :
         directory[n] = f[1] /\ \A m \in DOMAIN directory : directory[m] = h => n < m
Applied(h, i) ==
  LET e == Content[h][i] IN
  \/ <<h, i>> \in refused
  \/ \E x \in Of(h, i) :
       /\ e.key[1] # "KONTEXT" => [key |-> x.key, uuid |-> x.uuid] \in reference
       /\ e.key[1] = "PERSON" /\ OnlyOneOfItsName(h, i) => keycloak[x.key] = x.uuid
Unseedable(h, i) ==
  LET e == Content[h][i] IN
  \/ ~e.valid
  \/ \E key \in e.refs : \A x \in rows : x.key = key => ~ComesBefore(x.from, h, i)
  \/ e.override # NoUuid /\ Of(h, i) = {}
StatusTellsTruth ==
  \A h \in Hashes :
    /\ \A i \in DOMAIN Content[h] : Cardinality(Of(h, i)) <= 1
    /\ seeding[h] = "DONE" => \A i \in DOMAIN Content[h] : Applied(h, i)
    /\ seeding[h] = "FAILED" /\ ~disturbed => \E i \in DOMAIN Content[h] : Unseedable(h, i)

(* A file that lies in the directory is tried in the end, whatever becomes  *)
(* of those before it: each run gets past one file at least, because it     *)
(* skips those that failed before (docs/seeding.md, Error handling).        *)
EveryFileTried ==
  \A h \in Hashes : (\E n \in DOMAIN directory : directory[n] = h)
    ~> (seeding[h] # "none" \/ \A n \in DOMAIN directory : directory[n] # h)
=============================================================================
