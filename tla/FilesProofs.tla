------------------------------ MODULE FilesProofs ------------------------------
(***************************************************************************)
(* The two ways in which a file becomes rows of the database, one by one,  *)
(* with a status that is to tell how it went.                              *)
(*                                                                         *)
(* DbSeed, for any files, containers and failures: a file has one          *)
(* container at work on it at most and never a second one, which is why    *)
(* nothing comes into being twice; and as long as nothing disturbs, the    *)
(* files are known in their order, which is why a file that failed failed  *)
(* for a cause that is in the files.                                       *)
(*                                                                         *)
(* ImportWorkflow, for any number of imports, rows, executions and closing *)
(* requests: it shows no row as imported without its person, finishes no   *)
(* import with a row untried, keeps no row of a completed one, and gives   *)
(* an import executed once the status its rows have earned.                *)
(***************************************************************************)
EXTENDS DbSeed, ImportWorkflow, FiniteSetTheorems, TLAPS

USE DEF seedVars, tables

-----------------------------------------------------------------------------
(* The invariant                                                           *)

AtWork == {"entity", "user", "commit", "refer"}
Busy(s) == seeder[s].at \in AtWork

Places == [at : {"off", "find", "create"} \union AtWork, file : Nat, hash : Hashes \union {NoUuid},
           item : Nat, uuid : Int \union {NoUuid}]

Typed ==
  /\ directory \in Seq(Hashes) /\ DOMAIN directory = DOMAIN Directory
  /\ seeding \in [Hashes -> {"none", "STARTED", "DONE", "FAILED"}]
  /\ keycloak \in [Keys -> Int \union {NoUuid}]
  /\ seeder \in [Seeders -> Places]
  /\ made \in Nat /\ failures \in 0..MaxFailures /\ disturbed \in BOOLEAN

(* A container at work on a file is the only one, and has yet to finish it.  *)
Works(s) ==
  LET p == seeder[s] IN
  /\ p.at # "off" => p.file >= 1
  /\ p.at = "create" => p.hash \in Hashes
  /\ Busy(s) =>
       /\ p.hash \in Hashes /\ seeding[p.hash] = "STARTED" /\ p.item >= 1
       /\ \A t \in Seeders : Busy(t) /\ seeder[t].hash = p.hash => t = s
  /\ p.at \in {"user", "commit", "refer"} =>
       /\ p.item <= Len(Content[p.hash]) /\ p.uuid \in Int /\ p.uuid <= made
       /\ p.at \in {"user", "commit"} => Entity(s).key[1] = "PERSON"
       /\ p.at = "refer" => Entity(s).key[1] # "KONTEXT" /\ Row(s, p.uuid) \in rows

WorkInv == \A s \in Seeders : Works(s)

(* What is in the tables comes from the entities that were worked on.       *)
SeededFrom(x, h, i) ==
  /\ x.from = <<h, i>> /\ x.key = Content[h][i].key /\ x.uuid \in Int /\ x.uuid <= made
  /\ seeding[h] # "none"
  /\ \A s \in Seeders : Busy(s) /\ seeder[s].hash = h =>
       i < seeder[s].item \/ (i = seeder[s].item /\ seeder[s].at = "refer")

SeededInv ==
  /\ \A x \in rows : \E h \in Hashes : \E i \in DOMAIN Content[h] : SeededFrom(x, h, i)
  /\ \A x, y \in rows : x.from = y.from \/ x.uuid = y.uuid => x = y
  /\ \A r \in reference : \E x \in rows : x.uuid = r.uuid /\ x.key = r.key

(* What lies behind a container in its file is applied, as all of a file    *)
(* that is done.                                                            *)
AppliedUpTo(s) ==
  Busy(s) => \A i \in DOMAIN Content[seeder[s].hash] :
               i < seeder[s].item => Applied(seeder[s].hash, i)

UserThere(s) ==
  seeder[s].at \in {"commit", "refer"} /\ Entity(s).key[1] = "PERSON"
    /\ OnlyOneOfItsName(seeder[s].hash, seeder[s].item)
  => keycloak[Entity(s).key] = seeder[s].uuid

AppliedInv ==
  /\ \A h \in Hashes : seeding[h] = "DONE" => \A i \in DOMAIN Content[h] : Applied(h, i)
  /\ \A s \in Seeders : AppliedUpTo(s) /\ UserThere(s)

(* As long as nothing disturbs: one container at a time, ...                *)
Lonely == \A s, t \in Seeders : seeder[s].at # "off" /\ seeder[t].at # "off" => s = t

Referenced(x) == x.key[1] = "KONTEXT" \/ [key |-> x.key, uuid |-> x.uuid] \in reference

Fresh(s) ==
  seeder[s].at \in {"user", "commit"} /\ Entity(s).override = NoUuid =>
    \A x \in rows : x.uuid # seeder[s].uuid

AloneInv ==
  ~disturbed =>
    /\ Lonely
    /\ \A x \in rows :
         Referenced(x) \/ \E s \in Seeders : seeder[s].at = "refer" /\ seeder[s].uuid = x.uuid
    /\ \A s \in Seeders : Fresh(s)

(* ... and the files are known in their order.                              *)
KnownUpTo(n) == \A m \in DOMAIN directory : m < n => seeding[directory[m]] # "none"
InOrder(s) ==
  LET p == seeder[s] IN
  /\ p.at # "off" => KnownUpTo(p.file)
  /\ p.at = "create" =>
       p.file \in DOMAIN directory /\ directory[p.file] = p.hash /\ seeding[p.hash] = "none"
  /\ Busy(s) =>
       /\ p.file \in DOMAIN directory /\ directory[p.file] = p.hash
       /\ \A m \in DOMAIN directory : m < p.file => directory[m] # p.hash
       /\ \A h \in Hashes : seeding[h] # "none" /\ h # p.hash =>
            \E m \in DOMAIN directory : m < p.file /\ directory[m] = h

OrderInv ==
  ~disturbed =>
    /\ \A h \in Hashes : seeding[h] # "none" =>
         \E n \in DOMAIN directory : directory[n] = h /\ KnownUpTo(n)
    /\ \A s \in Seeders : InOrder(s)

FailedInv ==
  ~disturbed => \A h \in Hashes :
    seeding[h] = "FAILED" => \E i \in DOMAIN Content[h] : Unseedable(h, i)

-----------------------------------------------------------------------------
(* Where a step leaves a container                                         *)

Moved(s, p) ==
  /\ seeder' \in [Seeders -> Places] /\ seeder'[s] = p
  /\ \A t \in Seeders : t # s => seeder'[t] = seeder[t]

Place(at, file, hash, item, uuid) ==
  [at |-> at, file |-> file, hash |-> hash, item |-> item, uuid |-> uuid]

(* A step that puts one container into a place.                             *)
LEMMA MovedBy ==
  ASSUME Typed, NEW s \in Seeders, NEW q \in Places, seeder' = [seeder EXCEPT ![s] = q]
  PROVE  Moved(s, q)
BY DEF Typed, Moved

(* Where a Seeder stands, field by field. *)
LEMMA PlaceTyped ==
  ASSUME Typed, NEW s \in Seeders
  PROVE  LET p == seeder[s] IN
         /\ seeder \in [Seeders -> Places]
         /\ p = Place(p.at, p.file, p.hash, p.item, p.uuid)
         /\ p.at \in {"off", "find", "create"} \union AtWork
         /\ p.file \in Nat /\ p.hash \in Hashes \union {NoUuid} /\ p.item \in Nat
         /\ p.uuid \in Int \union {NoUuid}
<1>1. seeder \in [Seeders -> Places] /\ seeder[s] \in Places
  BY DEF Typed
<1> QED BY <1>1 DEF Places, Place

(* Fields of the right types make a place. *)
LEMMA PlacesAre ==
  ASSUME NEW at \in {"off", "find", "create"} \union AtWork, NEW file \in Nat,
         NEW hash \in Hashes \union {NoUuid}, NEW item \in Nat, NEW uuid \in Int \union {NoUuid}
  PROVE  Place(at, file, hash, item, uuid) \in Places
BY DEF Place, Places

(* A container that leaves its file has no hash, no item and no uuid.       *)
LEMMA Leaving ==
  ASSUME Typed, NEW s \in Seeders
  PROVE  /\ NextFile(s) => Moved(s, Place("find", seeder[s].file + 1, NoUuid, 0, NoUuid))
         /\ Stop(s) => Moved(s, Place("off", 0, NoUuid, 0, NoUuid))
         /\ seeder' = [seeder EXCEPT ![s] = [Off EXCEPT !.at = "find", !.file = 1]]
              => Moved(s, Place("find", 1, NoUuid, 0, NoUuid))
<1> DEFINE n == seeder[s].file + 1
           o == Place("off", 0, NoUuid, 0, NoUuid)
           q(m) == Place("find", m, NoUuid, 0, NoUuid)
<1>1. n \in Nat
  BY PlaceTyped
<1>2. o \in Places /\ q(n) \in Places /\ q(1) \in Places
  BY <1>1, PlacesAre
<1>3. Off = o
  BY DEF Off, Place
<1> HIDE DEF n
<1>4. [Off EXCEPT !.at = "find", !.file = n] = q(n) /\ [Off EXCEPT !.at = "find", !.file = 1] = q(1)
  <2>1. [Off EXCEPT !.at = "find"] = q(0)
    BY <1>3 DEF Place
  <2>2. [q(0) EXCEPT !.file = n] = q(n) /\ [q(0) EXCEPT !.file = 1] = q(1)
    BY DEF Place
  <2> QED BY <2>1, <2>2
<1>5. ASSUME NextFile(s) PROVE Moved(s, q(n))
  <2>1. seeder' = [seeder EXCEPT ![s] = q(n)]
    BY <1>4, <1>5 DEF NextFile, n
  <2> QED BY <1>2, <2>1, MovedBy
<1>6. ASSUME Stop(s) PROVE Moved(s, o)
  <2>1. seeder' = [seeder EXCEPT ![s] = o]
    BY <1>3, <1>6 DEF Stop
  <2> QED BY <1>2, <2>1, MovedBy
<1>7. ASSUME seeder' = [seeder EXCEPT ![s] = [Off EXCEPT !.at = "find", !.file = 1]] PROVE Moved(s, q(1))
  <2>1. seeder' = [seeder EXCEPT ![s] = q(1)]
    BY <1>4, <1>7
  <2> QED BY <1>2, <2>1, MovedBy
<1> QED BY <1>5, <1>6, <1>7 DEF n

(* Within a file it keeps the hash.                                         *)
LEMMA Staying ==
  ASSUME Typed, NEW s \in Seeders,
         NEW p, NEW old, NEW file, NEW hash, NEW item, NEW uuid,
         p = Place(old, file, hash, item, uuid), p = seeder[s]
  PROVE  /\ NextItem(s) => Moved(s, Place("entity", file, hash, item + 1, NoUuid))
         /\ \A at \in AtWork : Goto(s, at) => Moved(s, Place(at, file, hash, item, uuid))
         /\ \A at \in AtWork, u \in Int \union {NoUuid} :
              seeder' = [seeder EXCEPT ![s].at = at, ![s].uuid = u]
                => Moved(s, Place(at, file, hash, item, u))
         /\ seeder' = [seeder EXCEPT ![s].at = "entity", ![s].item = 1]
              => Moved(s, Place("entity", file, hash, 1, uuid))
         /\ \A h \in Hashes :
              seeder' = [seeder EXCEPT ![s].at = "create", ![s].hash = h]
                => Moved(s, Place("create", file, h, item, uuid))
<1>1. /\ seeder \in [Seeders -> Places]
      /\ file \in Nat /\ hash \in Hashes \union {NoUuid} /\ item \in Nat
      /\ uuid \in Int \union {NoUuid}
  <2>1. p.file = file /\ p.hash = hash /\ p.item = item /\ p.uuid = uuid
    BY DEF Place
  <2> QED BY <2>1, PlaceTyped
<1>2. ASSUME NextItem(s) PROVE Moved(s, Place("entity", file, hash, item + 1, NoUuid))
  <2>1. Place("entity", file, hash, item + 1, NoUuid) \in Places
    <3>1. item + 1 \in Nat
      BY <1>1
    <3> QED BY <1>1, <3>1, PlacesAre DEF AtWork
  <2>2. seeder' = [seeder EXCEPT ![s] = [p EXCEPT !.at = "entity", !.item = @ + 1, !.uuid = NoUuid]]
    BY <1>1, <1>2 DEF NextItem
  <2>3. [p EXCEPT !.at = "entity", !.item = @ + 1, !.uuid = NoUuid]
          = Place("entity", file, hash, item + 1, NoUuid)
    <3>1. [p EXCEPT !.at = "entity"] = Place("entity", file, hash, item, uuid)
      BY DEF Place
    <3>2. [Place("entity", file, hash, item, uuid) EXCEPT !.item = @ + 1]
            = Place("entity", file, hash, item + 1, uuid)
      BY DEF Place
    <3>3. [Place("entity", file, hash, item + 1, uuid) EXCEPT !.uuid = NoUuid]
            = Place("entity", file, hash, item + 1, NoUuid)
      BY DEF Place
    <3> QED BY <3>1, <3>2, <3>3
  <2> QED BY <2>1, <2>2, <2>3, MovedBy
<1>3. ASSUME NEW at \in AtWork, Goto(s, at) PROVE Moved(s, Place(at, file, hash, item, uuid))
  <2>1. Place(at, file, hash, item, uuid) \in Places
    BY <1>1, PlacesAre
  <2>2. [p EXCEPT !.at = at] = Place(at, file, hash, item, uuid)
    BY DEF Place
  <2>3. seeder' = [seeder EXCEPT ![s] = [p EXCEPT !.at = at]]
    BY <1>1, <1>3 DEF Goto
  <2> QED BY <2>1, <2>2, <2>3, MovedBy
<1>4. ASSUME NEW at \in AtWork, NEW u \in Int \union {NoUuid},
             seeder' = [seeder EXCEPT ![s].at = at, ![s].uuid = u]
      PROVE  Moved(s, Place(at, file, hash, item, u))
  <2>1. Place(at, file, hash, item, u) \in Places
    BY <1>1, PlacesAre
  <2>2. [p EXCEPT !.at = at, !.uuid = u] = Place(at, file, hash, item, u)
    <3>1. [p EXCEPT !.at = at] = Place(at, file, hash, item, uuid)
      BY DEF Place
    <3>2. [Place(at, file, hash, item, uuid) EXCEPT !.uuid = u]
            = Place(at, file, hash, item, u)
      BY DEF Place
    <3> QED BY <3>1, <3>2
  <2>3. seeder' = [seeder EXCEPT ![s] = [p EXCEPT !.at = at, !.uuid = u]]
    BY <1>1, <1>4
  <2> QED BY <2>1, <2>2, <2>3, MovedBy
<1>5. ASSUME seeder' = [seeder EXCEPT ![s].at = "entity", ![s].item = 1]
      PROVE  Moved(s, Place("entity", file, hash, 1, uuid))
  <2>1. Place("entity", file, hash, 1, uuid) \in Places
    BY <1>1, PlacesAre DEF AtWork
  <2>2. [p EXCEPT !.at = "entity", !.item = 1] = Place("entity", file, hash, 1, uuid)
    <3>1. [p EXCEPT !.at = "entity"] = Place("entity", file, hash, item, uuid)
      BY DEF Place
    <3>2. [Place("entity", file, hash, item, uuid) EXCEPT !.item = 1]
            = Place("entity", file, hash, 1, uuid)
      BY DEF Place
    <3> QED BY <3>1, <3>2
  <2>3. seeder' = [seeder EXCEPT ![s] = [p EXCEPT !.at = "entity", !.item = 1]]
    BY <1>1, <1>5
  <2> QED BY <2>1, <2>2, <2>3, MovedBy
<1>6. ASSUME NEW h \in Hashes, seeder' = [seeder EXCEPT ![s].at = "create", ![s].hash = h]
      PROVE  Moved(s, Place("create", file, h, item, uuid))
  <2>1. Place("create", file, h, item, uuid) \in Places
    BY <1>1, PlacesAre
  <2>2. [p EXCEPT !.at = "create", !.hash = h] = Place("create", file, h, item, uuid)
    <3>1. [p EXCEPT !.at = "create"] = Place("create", file, hash, item, uuid)
      BY DEF Place
    <3>2. [Place("create", file, hash, item, uuid) EXCEPT !.hash = h]
            = Place("create", file, h, item, uuid)
      BY DEF Place
    <3> QED BY <3>1, <3>2
  <2>3. seeder' = [seeder EXCEPT ![s] = [p EXCEPT !.at = "create", !.hash = h]]
    BY <1>1, <1>6
  <2> QED BY <2>1, <2>2, <2>3, MovedBy
<1> QED BY <1>2, <1>3, <1>4, <1>5, <1>6

(* What the formulas that move a Seeder within its file say, as the place where it
   stands afterwards. *)
LEMMA Stays ==
  ASSUME Typed, NEW s \in Seeders
  PROVE  LET p == seeder[s] IN
         /\ NextItem(s) => Moved(s, Place("entity", p.file, p.hash, p.item + 1, NoUuid))
         /\ \A at \in AtWork : Goto(s, at) => Moved(s, Place(at, p.file, p.hash, p.item, p.uuid))
         /\ \A at \in AtWork, u \in Int \union {NoUuid} :
              seeder' = [seeder EXCEPT ![s].at = at, ![s].uuid = u]
                => Moved(s, Place(at, p.file, p.hash, p.item, u))
         /\ seeder' = [seeder EXCEPT ![s].at = "entity", ![s].item = 1]
              => Moved(s, Place("entity", p.file, p.hash, 1, p.uuid))
         /\ \A h \in Hashes :
              seeder' = [seeder EXCEPT ![s].at = "create", ![s].hash = h]
                => Moved(s, Place("create", p.file, h, p.item, p.uuid))
<1>1. PICK p, old, file, hash, item, uuid : p = seeder[s] /\ p = Place(old, file, hash, item, uuid)
  BY PlaceTyped
<1>2. p.file = file /\ p.hash = hash /\ p.item = item /\ p.uuid = uuid
  BY <1>1 DEF Place
<1>3. /\ NextItem(s) => Moved(s, Place("entity", file, hash, item + 1, NoUuid))
      /\ \A at \in AtWork : Goto(s, at) => Moved(s, Place(at, file, hash, item, uuid))
      /\ \A at \in AtWork, u \in Int \union {NoUuid} :
           seeder' = [seeder EXCEPT ![s].at = at, ![s].uuid = u]
             => Moved(s, Place(at, file, hash, item, u))
      /\ seeder' = [seeder EXCEPT ![s].at = "entity", ![s].item = 1]
           => Moved(s, Place("entity", file, hash, 1, uuid))
      /\ \A h \in Hashes :
           seeder' = [seeder EXCEPT ![s].at = "create", ![s].hash = h]
             => Moved(s, Place("create", file, h, item, uuid))
  BY <1>1, Staying
<1> QED BY <1>1, <1>2, <1>3

(* An entity of a file, and the uuid that it is given.                      *)
LEMMA EntityTyped ==
  ASSUME NEW h \in Hashes, NEW i \in Nat, i >= 1, i <= Len(Content[h])
  PROVE  /\ i \in DOMAIN Content[h]
         /\ Content[h][i] \in Entities /\ Content[h][i].key \in Keys
         /\ Content[h][i].override \in (Int \ Nat) \union {NoUuid}
<1>1. Content[h] \in Seq(Entities)
  BY ContentAssumption
<1>2. i \in DOMAIN Content[h]
  BY <1>1
<1>3. Content[h][i] \in Entities
  BY <1>1, <1>2
<1>4. Content[h][i].key \in Keys
  BY <1>2 DEF Keys
<1> QED BY <1>2, <1>3, <1>4 DEF Entities

(* The uuid an entity is stored under is one, and no later than those made so far. *)
LEMMA UuidTyped ==
  ASSUME Typed, NEW e \in Entities
  PROVE  /\ Uuid(e) \in Int /\ Uuid(e) # NoUuid
         /\ \A m \in Nat : m = (IF e.override # NoUuid THEN made ELSE made + 1)
              => made <= m /\ Uuid(e) <= m
<1>1. made \in Nat /\ e.override \in (Int \ Nat) \union {NoUuid}
  BY DEF Typed, Entities
<1>2. CASE e.override # NoUuid
  <2>1. Uuid(e) = e.override /\ e.override \in Int /\ e.override < 0
    BY <1>1, <1>2 DEF Uuid
  <2> QED BY <1>1, <1>2, <2>1
<1>3. CASE e.override = NoUuid
  <2>1. NoUuid \notin Int
    BY ContentAssumption
  <2> QED BY <1>1, <1>3, <2>1 DEF Uuid
<1> QED BY <1>2, <1>3

-----------------------------------------------------------------------------
(* Nothing comes into being twice                                          *)

(* A Seeder that moved stands where it went, and no other one has moved. *)
LEMMA MovedTo ==
  ASSUME NEW s \in Seeders, NEW at, NEW file, NEW hash, NEW item, NEW uuid,
         Moved(s, Place(at, file, hash, item, uuid))
  PROVE  /\ seeder' \in [Seeders -> Places]
         /\ seeder'[s].at = at /\ seeder'[s].file = file /\ seeder'[s].hash = hash
         /\ seeder'[s].item = item /\ seeder'[s].uuid = uuid
         /\ \A t \in Seeders : t # s => seeder'[t] = seeder[t]
BY DEF Moved, Place

(* A step of s that neither touches the files of others nor enters one of   *)
(* theirs leaves them as they are.                                          *)
LEMMA OthersWork ==
  ASSUME WorkInv, NEW s \in Seeders, NEW t \in Seeders, t # s,
         seeder'[t] = seeder[t], rows \subseteq rows',
         made \in Int, made' \in Int, made <= made', seeder[t].uuid \in Int \union {NoUuid},
         Busy(t) => seeding'[seeder[t].hash] = seeding[seeder[t].hash],
         \A u \in Seeders : u # s => seeder'[u] = seeder[u],
         Busy(s)' /\ Busy(t) => seeder'[s].hash # seeder[t].hash
  PROVE  Works(t)'
<1>1. Works(t)
  BY DEF WorkInv
<1>2. Busy(t)' <=> Busy(t)
  BY DEF Busy
<1>3. Entity(t)' = Entity(t) /\ \A u : Row(t, u)' = Row(t, u)
  BY DEF Entity, Row, From
<1>4. \A u \in Seeders : u # s => (Busy(u)' <=> Busy(u))
  BY DEF Busy
<1>5. Busy(t) => \A u \in Seeders : Busy(u)' /\ seeder'[u].hash = seeder[t].hash => u = t
  BY <1>1, <1>4 DEF Works
<1>6. seeder[t].at \in {"user", "commit", "refer"} => seeder[t].uuid <= made'
  BY <1>1 DEF Works
<1> QED BY <1>1, <1>2, <1>3, <1>5, <1>6 DEF Works

(* A row keeps its entity as long as no container gets back to it.          *)
LEMMA RowsStay ==
  ASSUME SeededInv, NEW s \in Seeders, made \in Int, made' \in Int, made <= made',
         \A h \in Hashes : seeding[h] # "none" => seeding'[h] # "none",
         \A t \in Seeders : t # s => seeder'[t] = seeder[t],
         NEW x \in rows, NEW h \in Hashes, NEW i \in DOMAIN Content[h], SeededFrom(x, h, i),
         Busy(s)' /\ seeder'[s].hash = h =>
           i < seeder'[s].item \/ (i = seeder'[s].item /\ seeder'[s].at = "refer")
  PROVE  SeededFrom(x, h, i)'
<1>1. \A t \in Seeders : t # s => (Busy(t)' <=> Busy(t))
  BY DEF Busy
<1>2. x.uuid \in Int /\ x.uuid <= made'
  BY DEF SeededFrom
<1> QED BY <1>1, <1>2 DEF SeededFrom

Once == Typed /\ WorkInv /\ SeededInv

(* A container that leaves its file, perhaps with a verdict on it.          *)
LEMMA LeavingOnce ==
  ASSUME Once, NEW s \in Seeders, Typed', NEW at \in {"off", "find"}, NEW file,
         Moved(s, Place(at, file, NoUuid, 0, NoUuid)), at = "find" => file >= 1,
         UNCHANGED <<rows, reference, made>>,
         \/ UNCHANGED seeding
         \/ Busy(s) /\ \E v \in {"DONE", "FAILED"} : seeding' = [seeding EXCEPT ![seeder[s].hash] = v]
  PROVE  Once'
<1>1. /\ made \in Int /\ made' \in Int /\ made <= made'
      /\ \A t \in Seeders : seeder[t].uuid \in Int \union {NoUuid}
  BY PlaceTyped DEF Once, Typed
<1>2. /\ seeder'[s].at = at /\ seeder'[s].file = file /\ ~Busy(s)'
      /\ \A t \in Seeders : t # s => seeder'[t] = seeder[t]
  BY MovedTo DEF Busy, AtWork
<1>3. /\ \A t \in Seeders : t # s /\ Busy(t) => seeding'[seeder[t].hash] = seeding[seeder[t].hash]
      /\ \A h \in Hashes : seeding[h] # "none" => seeding'[h] # "none"
  <2>1. CASE UNCHANGED seeding
    BY <2>1
  <2>2. ASSUME Busy(s), NEW v \in {"DONE", "FAILED"}, seeding' = [seeding EXCEPT ![seeder[s].hash] = v]
        PROVE  <1>3
    <3>1. /\ seeder[s].hash \in Hashes
          /\ \A t \in Seeders : Busy(t) /\ seeder[t].hash = seeder[s].hash => t = s
      BY <2>2 DEF Once, WorkInv, Works
    <3>2. DOMAIN seeding = Hashes
      BY DEF Once, Typed
    <3> QED BY <2>2, <3>1, <3>2
  <2> QED BY <2>1, <2>2
<1>4. WorkInv'
  <2>1. Works(s)'
    BY <1>2 DEF Works
  <2>2. ASSUME NEW t \in Seeders, t # s PROVE Works(t)'
    BY <1>1, <1>2, <1>3, <2>2, OthersWork DEF Once
  <2> QED BY <2>1, <2>2 DEF WorkInv
<1>5. SeededInv'
  <2>1. ASSUME NEW x \in rows PROVE \E h \in Hashes : \E i \in DOMAIN Content[h] : SeededFrom(x, h, i)'
    <3>0. PICK h \in Hashes : \E i \in DOMAIN Content[h] : SeededFrom(x, h, i)
      BY <2>1 DEF Once, SeededInv
    <3>1. PICK i \in DOMAIN Content[h] : SeededFrom(x, h, i)
      BY <3>0
    <3> QED BY <1>1, <1>2, <1>3, <3>1, RowsStay DEF Once
  <2> QED BY <2>1 DEF Once, SeededInv
<1> QED BY <1>4, <1>5 DEF Once

(* A container that goes on in its file and writes no row.                  *)
LEMMA GoingOnOnce ==
  ASSUME Once, NEW s \in Seeders, Typed', NEW at \in AtWork, NEW item \in Nat, NEW uuid, Busy(s),
         Moved(s, Place(at, seeder[s].file, seeder[s].hash, item, uuid)), Works(s)',
         UNCHANGED <<rows, seeding>>, made <= made',
         \/ item = seeder[s].item /\ (seeder[s].at = "refer" => at = "refer")
         \/ item = seeder[s].item + 1,
         \A r \in reference' \ reference : \E x \in rows : x.uuid = r.uuid /\ x.key = r.key
  PROVE  Once'
<1>1. /\ made \in Int /\ made' \in Int /\ made <= made' /\ seeder[s].item \in Nat
      /\ \A t \in Seeders : seeder[t].uuid \in Int \union {NoUuid}
  BY PlaceTyped DEF Once, Typed
<1>2. /\ seeder'[s].at = at /\ seeder'[s].hash = seeder[s].hash /\ seeder'[s].item = item
      /\ \A t \in Seeders : t # s => seeder'[t] = seeder[t]
  BY MovedTo
<1>3. \A t \in Seeders : Busy(t) /\ seeder[t].hash = seeder[s].hash => t = s
  BY DEF Once, WorkInv, Works
<1>4. WorkInv'
  <2>1. ASSUME NEW t \in Seeders, t # s PROVE Works(t)'
    BY <1>1, <1>2, <1>3, <2>1, OthersWork DEF Once
  <2> QED BY <2>1 DEF WorkInv
<1>5. SeededInv'
  <2>1. ASSUME NEW x \in rows PROVE \E h \in Hashes : \E i \in DOMAIN Content[h] : SeededFrom(x, h, i)'
    <3>0. PICK h \in Hashes : \E i \in DOMAIN Content[h] : SeededFrom(x, h, i)
      BY <2>1 DEF Once, SeededInv
    <3>1. PICK i \in DOMAIN Content[h] : SeededFrom(x, h, i)
      BY <3>0
    <3>2. i \in Int
      BY <3>1, ContentAssumption
    <3>3. seeder[s].hash = h => i < item \/ (i = item /\ at = "refer")
      <4>1. seeder[s].hash = h => i < seeder[s].item \/ (i = seeder[s].item /\ seeder[s].at = "refer")
        BY <3>1 DEF SeededFrom
      <4> QED BY <1>1, <3>2, <4>1
    <3> QED BY <1>1, <1>2, <3>1, <3>3, RowsStay DEF Once
  <2>2. \A r \in reference' : \E x \in rows' : x.uuid = r.uuid /\ x.key = r.key
    BY DEF Once, SeededInv
  <2> QED BY <2>1, <2>2 DEF Once, SeededInv
<1> QED BY <1>4, <1>5 DEF Once

(* A container that writes the row of its entity: it is the first one.      *)
LEMMA WritingOnce ==
  ASSUME Once, NEW s \in Seeders, Typed', NEW at \in AtWork, NEW item \in Nat, NEW new, Busy(s),
         NEW uuid \in Int, uuid <= made', ~Taken(uuid), seeder[s].at # "refer",
         seeder[s].item <= Len(Content[seeder[s].hash]),
         Moved(s, Place(at, seeder[s].file, seeder[s].hash, item, new)), Works(s)',
         UNCHANGED <<reference, seeding>>, made <= made', rows' = rows \union {Row(s, uuid)},
         (item = seeder[s].item /\ at = "refer") \/ item = seeder[s].item + 1
  PROVE  Once'
<1>0. PICK h0, i0, new0 : h0 = seeder[s].hash /\ i0 = seeder[s].item /\ new0 = Row(s, uuid)
  OBVIOUS
<1>1. /\ made \in Int /\ made' \in Int /\ made <= made' /\ i0 \in Nat
      /\ \A t \in Seeders : seeder[t].uuid \in Int \union {NoUuid}
  BY <1>0, PlaceTyped DEF Once, Typed
<1>2. /\ seeder'[s].at = at /\ seeder'[s].hash = h0 /\ seeder'[s].item = item
      /\ \A t \in Seeders : t # s => seeder'[t] = seeder[t]
  BY <1>0, MovedTo
<1>3. /\ h0 \in Hashes /\ i0 >= 1 /\ seeding[h0] = "STARTED"
      /\ \A t \in Seeders : Busy(t) /\ seeder[t].hash = h0 => t = s
  BY <1>0 DEF Once, WorkInv, Works
<1>4. i0 \in DOMAIN Content[h0]
  BY <1>0, <1>1, <1>3, EntityTyped
<1>5. \A x \in rows : x.from # <<h0, i0>>
  <2>1. ASSUME NEW x \in rows, x.from = <<h0, i0>> PROVE FALSE
    <3>0. PICK h \in Hashes : \E i \in DOMAIN Content[h] : SeededFrom(x, h, i)
      BY <2>1 DEF Once, SeededInv
    <3>1. PICK i \in DOMAIN Content[h] : SeededFrom(x, h, i)
      BY <3>0
    <3>2. h = h0 /\ i = i0
      BY <2>1, <3>1 DEF SeededFrom
    <3> QED BY <1>0, <1>1, <3>1, <3>2 DEF SeededFrom
  <2> QED BY <2>1
<1>6. WorkInv'
  <2>1. ASSUME NEW t \in Seeders, t # s PROVE Works(t)'
    BY <1>0, <1>1, <1>2, <1>3, <2>1, OthersWork DEF Once
  <2> QED BY <2>1 DEF WorkInv
<1>7. ASSUME NEW x \in rows PROVE \E h \in Hashes : \E i \in DOMAIN Content[h] : SeededFrom(x, h, i)'
  <2>0. PICK h \in Hashes : \E i \in DOMAIN Content[h] : SeededFrom(x, h, i)
    BY <1>7 DEF Once, SeededInv
  <2>1. PICK i \in DOMAIN Content[h] : SeededFrom(x, h, i)
    BY <2>0
  <2>2. i \in Int
    BY <2>1, ContentAssumption
  <2>3. h0 = h => i < item \/ (i = item /\ at = "refer")
    <3>1. h0 = h => i < i0
      BY <1>0, <2>1 DEF SeededFrom
    <3> QED BY <1>0, <1>1, <2>2, <3>1
  <2> QED BY <1>1, <1>2, <2>1, <2>3, RowsStay DEF Once
<1>8. new0.from = <<h0, i0>> /\ new0.key = Content[h0][i0].key /\ new0.uuid = uuid
  BY <1>0 DEF Row, From, Entity
<1>9. SeededFrom(new0, h0, i0)'
  <2>1. \A t \in Seeders : Busy(t)' /\ seeder'[t].hash = h0 => t = s
    <3>1. \A t \in Seeders : t # s => (Busy(t)' <=> Busy(t))
      BY <1>2 DEF Busy
    <3> QED BY <1>2, <1>3, <3>1
  <2>2. i0 < item \/ (i0 = item /\ at = "refer")
    BY <1>0, <1>1
  <2> QED BY <1>2, <1>3, <1>8, <2>1, <2>2 DEF SeededFrom
<1>10. \A x \in rows : x.uuid # uuid
  BY DEF Taken
<1>11. rows' = rows \union {new0}
  BY <1>0
<1>12. \A x \in rows' : \E h \in Hashes : \E i \in DOMAIN Content[h] : SeededFrom(x, h, i)'
  <2>1. \E h \in Hashes : \E i \in DOMAIN Content[h] : SeededFrom(new0, h, i)'
    BY <1>3, <1>4, <1>9
  <2> QED BY <1>7, <1>11, <2>1
<1>13. \A x, y \in rows' : x.from = y.from \/ x.uuid = y.uuid => x = y
  BY <1>5, <1>8, <1>10, <1>11 DEF Once, SeededInv
<1>14. \A r \in reference' : \E x \in rows' : x.uuid = r.uuid /\ x.key = r.key
  BY <1>11 DEF Once, SeededInv
<1> QED BY <1>6, <1>12, <1>13, <1>14 DEF Once, SeededInv

(* Where each action leaves its container.                                  *)
LEMMA Shapes ==
  ASSUME Typed, NEW s \in Seeders, NEW p, p = seeder[s]
  PROVE  /\ Start(s) => Moved(s, Place("find", 1, NoUuid, 0, NoUuid))
         /\ FindSeed(s) =>
              \/ Moved(s, Place("off", 0, NoUuid, 0, NoUuid))
              \/ /\ p.file <= Len(directory) /\ seeding[directory[p.file]] # "none"
                 /\ Moved(s, Place("find", p.file + 1, NoUuid, 0, NoUuid))
              \/ /\ p.file <= Len(directory) /\ seeding[directory[p.file]] = "none"
                 /\ (p.file >= 1 => Moved(s, Place("create", p.file, directory[p.file], p.item, p.uuid)))
         /\ CreateSeed(s) =>
              \/ UNCHANGED seeding /\ Moved(s, Place("off", 0, NoUuid, 0, NoUuid))
              \/ /\ seeding[p.hash] = "none" /\ seeding' = [seeding EXCEPT ![p.hash] = "STARTED"]
                 /\ Moved(s, Place("entity", p.file, p.hash, 1, p.uuid))
         /\ Done(s) => Moved(s, Place("find", p.file + 1, NoUuid, 0, NoUuid))
         /\ ReplaceUser(s) /\ Uuid(Entity(s)) \in Int =>
              Moved(s, Place("user", p.file, p.hash, p.item, Uuid(Entity(s))))
         /\ CreateUser(s) => Moved(s, Place("commit", p.file, p.hash, p.item, p.uuid))
         /\ Refuse(s) => Moved(s, Place("entity", p.file, p.hash, p.item + 1, NoUuid))
         /\ CommitPerson(s) => Moved(s, Place("refer", p.file, p.hash, p.item, p.uuid))
         /\ SaveReference(s) => Moved(s, Place("entity", p.file, p.hash, p.item + 1, NoUuid))
         /\ FileFails(s) => Moved(s, Place("off", 0, NoUuid, 0, NoUuid))
<1>1. /\ p = Place(p.at, p.file, p.hash, p.item, p.uuid) /\ p.file \in Nat
      /\ p.uuid \in Int \union {NoUuid}
  BY PlaceTyped
<1>2. Start(s) => Moved(s, Place("find", 1, NoUuid, 0, NoUuid))
  BY Leaving DEF Start
<1>3. ASSUME FindSeed(s)
      PROVE  \/ Moved(s, Place("off", 0, NoUuid, 0, NoUuid))
             \/ /\ p.file <= Len(directory) /\ seeding[directory[p.file]] # "none"
                /\ Moved(s, Place("find", p.file + 1, NoUuid, 0, NoUuid))
             \/ /\ p.file <= Len(directory) /\ seeding[directory[p.file]] = "none"
                /\ (p.file >= 1 => Moved(s, Place("create", p.file, directory[p.file], p.item, p.uuid)))
  <2>1. CASE p.file > Len(directory)
    BY <1>3, <2>1, Leaving DEF FindSeed
  <2>2. CASE ~(p.file > Len(directory))
    <3>1. Len(directory) \in Nat /\ p.file <= Len(directory)
      BY <1>1, <2>2 DEF Typed
    <3>2. CASE seeding[directory[p.file]] # "none"
      BY <1>3, <2>2, <3>1, <3>2, Leaving DEF FindSeed
    <3>3. CASE seeding[directory[p.file]] = "none"
      <4>1. seeder' = [seeder EXCEPT ![s].at = "create", ![s].hash = directory[p.file]]
        BY <1>3, <2>2, <3>3 DEF FindSeed
      <4>2. p.file >= 1 => directory[p.file] \in Hashes
        BY <1>1, <3>1 DEF Typed
      <4> QED BY <1>1, <3>1, <3>3, <4>1, <4>2, Stays
    <3> QED BY <3>2, <3>3
  <2> QED BY <2>1, <2>2
<1>4. CreateSeed(s) =>
              \/ UNCHANGED seeding /\ Moved(s, Place("off", 0, NoUuid, 0, NoUuid))
              \/ /\ seeding[p.hash] = "none" /\ seeding' = [seeding EXCEPT ![p.hash] = "STARTED"]
                 /\ Moved(s, Place("entity", p.file, p.hash, 1, p.uuid))
  BY <1>1, Leaving, Stays DEF CreateSeed
<1>5. Done(s) => Moved(s, Place("find", p.file + 1, NoUuid, 0, NoUuid))
  BY Leaving DEF Done
<1>6. ReplaceUser(s) /\ Uuid(Entity(s)) \in Int => Moved(s, Place("user", p.file, p.hash, p.item, Uuid(Entity(s))))
  BY <1>1, Stays DEF ReplaceUser, AtWork
<1>7. CreateUser(s) => Moved(s, Place("commit", p.file, p.hash, p.item, p.uuid))
  BY <1>1, Stays DEF CreateUser, AtWork
<1>8. Refuse(s) => Moved(s, Place("entity", p.file, p.hash, p.item + 1, NoUuid))
  BY <1>1, Stays DEF Refuse
<1>9. CommitPerson(s) => Moved(s, Place("refer", p.file, p.hash, p.item, p.uuid))
  BY <1>1, Stays DEF CommitPerson, AtWork
<1>10. SaveReference(s) => Moved(s, Place("entity", p.file, p.hash, p.item + 1, NoUuid))
  BY <1>1, Stays DEF SaveReference
<1>11. FileFails(s) => Moved(s, Place("off", 0, NoUuid, 0, NoUuid))
  BY Leaving DEF FileFails
<1> QED BY <1>2, <1>3, <1>4, <1>5, <1>6, <1>7, <1>8, <1>9, <1>10, <1>11

(* The entity at hand.                                                      *)
LEMMA AtHand ==
  ASSUME Once, NEW s \in Seeders, AtEntity(s) \/ seeder[s].at \in {"user", "commit", "refer"}
  PROVE  /\ Busy(s) /\ seeder[s].hash \in Hashes /\ seeder[s].item \in DOMAIN Content[seeder[s].hash]
         /\ seeder[s].item \in Nat /\ seeder[s].item >= 1
         /\ seeder[s].item <= Len(Content[seeder[s].hash])
         /\ Entity(s) \in Entities /\ Entity(s).key \in Keys
<1>1. Busy(s)
  BY DEF Busy, AtWork, AtEntity
<1>2. /\ seeder[s].hash \in Hashes /\ seeder[s].item >= 1
      /\ seeder[s].item <= Len(Content[seeder[s].hash])
  BY <1>1 DEF Once, WorkInv, Works, AtEntity
<1>3. seeder[s].item \in Nat
  BY PlaceTyped DEF Once
<1> QED BY <1>1, <1>2, <1>3, EntityTyped DEF Entity

(* The values stay of their types.                                          *)
LEMMA StepTyped ==
  ASSUME Once, [SeedNext]_seedVars
  PROVE  Typed'
<1>1. CASE UNCHANGED seedVars
  BY <1>1 DEF Once, Typed
<1>2. ASSUME NEW s \in Seeders, Start(s) PROVE Typed'
  BY <1>2, Shapes DEF Once, Typed, Start, Moved
<1>3. ASSUME NEW s \in Seeders, FindSeed(s) PROVE Typed'
  <2>1. seeder[s].at = "find" => seeder[s].file >= 1
    BY DEF Once, WorkInv, Works
  <2>2. seeder' \in [Seeders -> Places]
    BY <1>3, <2>1, Shapes DEF Once, FindSeed, Moved
  <2> QED BY <1>3, <2>2 DEF Once, Typed, FindSeed
<1>4. ASSUME NEW s \in Seeders, CreateSeed(s) PROVE Typed'
  <2>1. seeder' \in [Seeders -> Places]
    BY <1>4, Shapes DEF Once, Moved
  <2>2. seeding' \in [Hashes -> {"none", "STARTED", "DONE", "FAILED"}]
    BY <1>4 DEF Once, Typed, CreateSeed
  <2> QED BY <1>4, <2>1, <2>2 DEF Once, Typed, CreateSeed
<1>5. ASSUME NEW s \in Seeders, Done(s) PROVE Typed'
  <2>1. seeder' \in [Seeders -> Places]
    BY <1>5, Shapes DEF Once, Moved
  <2>2. seeding' \in [Hashes -> {"none", "STARTED", "DONE", "FAILED"}]
    BY <1>5 DEF Once, Typed, Done
  <2> QED BY <1>5, <2>1, <2>2 DEF Once, Typed, Done
<1>6. ASSUME NEW s \in Seeders, SeedEntity(s) PROVE Typed'
  <2>1. Uuid(Entity(s)) \in Int
    BY <1>6, AtHand, UuidTyped DEF Once, SeedEntity
  <2>2. seeder' \in [Seeders -> Places]
    BY <1>6, <2>1, Stays DEF Once, SeedEntity, Moved, AtWork
  <2>3. made' \in Nat
    BY <1>6 DEF Once, Typed, SeedEntity
  <2> QED BY <1>6, <2>2, <2>3 DEF Once, Typed, SeedEntity
<1>7. ASSUME NEW s \in Seeders, ReplaceUser(s) PROVE Typed'
  <2>1. Uuid(Entity(s)) \in Int
    BY <1>7, AtHand, UuidTyped DEF Once, ReplaceUser
  <2>2. seeder' \in [Seeders -> Places]
    BY <1>7, <2>1, Shapes DEF Once, Moved
  <2>3. made' \in Nat
    BY <1>7 DEF Once, Typed, ReplaceUser
  <2>4. keycloak' \in [Keys -> Int \union {NoUuid}]
    BY <1>7 DEF Once, Typed, ReplaceUser
  <2>5. failures' \in 0..MaxFailures
    BY <1>7, ContentAssumption DEF Once, Typed, ReplaceUser
  <2> QED BY <1>7, <2>2, <2>3, <2>4, <2>5 DEF Once, Typed, ReplaceUser
<1>8. ASSUME NEW s \in Seeders, CreateUser(s) PROVE Typed'
  <2>1. seeder' \in [Seeders -> Places]
    BY <1>8, Shapes DEF Once, Moved
  <2>2. keycloak' \in [Keys -> Int \union {NoUuid}]
    BY <1>8, PlaceTyped DEF Once, Typed, CreateUser
  <2> QED BY <1>8, <2>1, <2>2 DEF Once, Typed, CreateUser
<1>9. ASSUME NEW s \in Seeders, PersonRefused(s) PROVE Typed'
  BY <1>9, Shapes DEF Once, Typed, PersonRefused, Refuse, Moved
<1>10. ASSUME NEW s \in Seeders, CommitPerson(s) PROVE Typed'
  BY <1>10, Shapes DEF Once, Typed, CommitPerson, Moved
<1>11. ASSUME NEW s \in Seeders, SaveReference(s) PROVE Typed'
  BY <1>11, Shapes DEF Once, Typed, SaveReference, Moved
<1>12. ASSUME NEW s \in Seeders, FileFails(s) PROVE /\ seeder' \in [Seeders -> Places]
                                                 /\ seeding' \in [Hashes -> {"none", "STARTED", "DONE", "FAILED"}]
  <2>1. seeder' \in [Seeders -> Places]
    BY <1>12, Shapes DEF Once, Moved
  <2> QED BY <1>12, <2>1 DEF Once, Typed, FileFails
<1>13. ASSUME NEW s \in Seeders, EntityFails(s) PROVE Typed'
  BY <1>12, <1>13 DEF Once, Typed, EntityFails, FileFails
<1>14. ASSUME failures < MaxFailures, failures' = failures + 1 PROVE failures' \in 0..MaxFailures
  BY <1>14, ContentAssumption DEF Once, Typed
<1>15. ASSUME NEW s \in Seeders, CallFails(s) PROVE Typed'
  BY <1>12, <1>14, <1>15 DEF Once, Typed, CallFails, Fault, FileFails
<1>16. ASSUME NEW s \in Seeders, KeycloakFails(s) PROVE Typed'
  BY <1>14, <1>16, Shapes DEF Once, Typed, KeycloakFails, Refuse, Moved
<1>17. ASSUME NEW s \in Seeders, Crash(s) PROVE Typed'
  BY <1>14, <1>17, Leaving DEF Once, Typed, Crash, Fault, Moved
<1>18. ASSUME NEW n \in DOMAIN directory, Correct(n) PROVE Typed'
  <2>1. Corrected[directory[n]] \in Hashes
    BY ContentAssumption DEF Once, Typed
  <2>2. directory' \in Seq(Hashes) /\ DOMAIN directory' = DOMAIN directory
    BY <1>18, <2>1 DEF Once, Typed, Correct
  <2> QED BY <1>18, <2>2 DEF Once, Typed, Correct
<1> QED BY <1>1, <1>2, <1>3, <1>4, <1>5, <1>6, <1>7, <1>8, <1>9, <1>10, <1>11, <1>13, <1>15,
           <1>16, <1>17, <1>18 DEF SeedNext, Step

(* What a container that goes on in its file has at hand.                   *)
LEMMA WorksOn ==
  ASSUME Once, NEW s \in Seeders, Busy(s), NEW at \in AtWork, NEW item \in Nat, NEW uuid,
         Moved(s, Place(at, seeder[s].file, seeder[s].hash, item, uuid)),
         UNCHANGED seeding, item >= 1,
         at # "entity" => /\ item = seeder[s].item /\ item <= Len(Content[seeder[s].hash])
                          /\ uuid \in Int /\ uuid <= made',
         at \in {"user", "commit"} => Entity(s).key[1] = "PERSON",
         at = "refer" => Entity(s).key[1] # "KONTEXT" /\ Row(s, uuid) \in rows'
  PROVE  Works(s)'
<1>1. /\ seeder'[s].at = at /\ seeder'[s].file = seeder[s].file /\ seeder'[s].hash = seeder[s].hash
      /\ seeder'[s].item = item /\ seeder'[s].uuid = uuid
      /\ \A t \in Seeders : t # s => seeder'[t] = seeder[t]
  BY MovedTo
<1>2. Works(s) /\ seeder[s].at # "off"
  BY DEF Once, WorkInv, Busy, AtWork
<1>3. \A t \in Seeders : t # s => (Busy(t)' <=> Busy(t))
  BY <1>1 DEF Busy
<1>4. \A t \in Seeders : Busy(t)' /\ seeder'[t].hash = seeder[s].hash => t = s
  BY <1>1, <1>2, <1>3 DEF Works
<1>5. at # "entity" => Entity(s)' = Entity(s) /\ \A u : Row(s, u)' = Row(s, u)
  BY <1>1 DEF Entity, Row, From
<1>6. at # "create"
  BY DEF AtWork
<1>7. at \in {"user", "commit", "refer"} => at # "entity"
  OBVIOUS
<1> QED BY <1>1, <1>2, <1>4, <1>5, <1>6, <1>7 DEF Works

(* Actions by which a container leaves its file, or has none.               *)
LEMMA LeaveOnce ==
  ASSUME Once, Typed', NEW s \in Seeders,
         Start(s) \/ Done(s) \/ EntityFails(s) \/ CallFails(s) \/ Crash(s)
  PROVE  Once'
<1>1. seeder[s].file \in Nat /\ seeder[s].file + 1 >= 1
  BY PlaceTyped DEF Once
<1>2. CASE Start(s)
  <2>1. Moved(s, Place("find", 1, NoUuid, 0, NoUuid))
    BY <1>2, Shapes DEF Once
  <2>2. UNCHANGED <<rows, reference, made, seeding>>
    BY <1>2 DEF Start
  <2> QED BY <2>1, <2>2, LeavingOnce
<1>3. CASE Done(s)
  <2>1. Moved(s, Place("find", seeder[s].file + 1, NoUuid, 0, NoUuid))
    BY <1>3, Shapes DEF Once
  <2>2. /\ UNCHANGED <<rows, reference, made>> /\ Busy(s)
        /\ seeding' = [seeding EXCEPT ![seeder[s].hash] = "DONE"]
    BY <1>3 DEF Done, Busy, AtWork
  <2> QED BY <1>1, <2>1, <2>2, LeavingOnce
<1>4. CASE EntityFails(s) \/ CallFails(s)
  <2>1. FileFails(s) /\ Busy(s)
    BY <1>4 DEF EntityFails, CallFails, AtEntity, Busy, AtWork
  <2>2. Moved(s, Place("off", 0, NoUuid, 0, NoUuid))
    BY <2>1, Shapes DEF Once
  <2>3. /\ UNCHANGED <<rows, reference, made>>
        /\ seeding' = [seeding EXCEPT ![seeder[s].hash] = "FAILED"]
    BY <2>1 DEF FileFails
  <2> QED BY <2>1, <2>2, <2>3, LeavingOnce
<1>5. CASE Crash(s)
  <2>1. Moved(s, Place("off", 0, NoUuid, 0, NoUuid))
    BY <1>5, Leaving DEF Once, Crash
  <2>2. UNCHANGED <<rows, reference, made, seeding>>
    BY <1>5 DEF Crash
  <2> QED BY <2>1, <2>2, LeavingOnce
<1> QED BY <1>2, <1>3, <1>4, <1>5

(* Actions by which it comes to a file: the first one to do so starts it.   *)
LEMMA FindOnce ==
  ASSUME Once, Typed', NEW s \in Seeders, FindSeed(s)
  PROVE  Once'
<1>1. seeder[s].at = "find" /\ seeder[s].file \in Nat /\ seeder[s].file >= 1 /\ seeder[s].file + 1 >= 1
  BY PlaceTyped DEF Once, FindSeed, WorkInv, Works
<1>2. UNCHANGED <<rows, reference, made, seeding>>
  BY DEF FindSeed
<1>3. CASE Moved(s, Place("off", 0, NoUuid, 0, NoUuid))
  BY <1>2, <1>3, LeavingOnce
<1>4. CASE Moved(s, Place("find", seeder[s].file + 1, NoUuid, 0, NoUuid))
  BY <1>1, <1>2, <1>4, LeavingOnce
<1>5. CASE /\ seeder[s].file <= Len(directory)
           /\ Moved(s, Place("create", seeder[s].file, directory[seeder[s].file], seeder[s].item, seeder[s].uuid))
  <2>1. /\ seeder'[s].at = "create" /\ seeder'[s].file = seeder[s].file
        /\ seeder'[s].hash = directory[seeder[s].file]
        /\ \A t \in Seeders : t # s => seeder'[t] = seeder[t]
    BY <1>5, MovedTo
  <2>2. directory[seeder[s].file] \in Hashes
    BY <1>1, <1>5 DEF Once, Typed
  <2>3. ~Busy(s)'
    BY <2>1 DEF Busy, AtWork
  <2>4. Works(s)'
    BY <1>1, <2>1, <2>2, <2>3 DEF Works
  <2>5. /\ made \in Int /\ made <= made
        /\ \A t \in Seeders : seeder[t].uuid \in Int \union {NoUuid}
    BY PlaceTyped DEF Once, Typed
  <2>6. ASSUME NEW t \in Seeders, t # s PROVE Works(t)'
    BY <1>2, <2>1, <2>3, <2>5, <2>6, OthersWork DEF Once
  <2>7. SeededInv'
    <3>1. ASSUME NEW x \in rows PROVE \E h \in Hashes : \E i \in DOMAIN Content[h] : SeededFrom(x, h, i)'
      <4>1. PICK h \in Hashes : \E i \in DOMAIN Content[h] : SeededFrom(x, h, i)
        BY <3>1 DEF Once, SeededInv
      <4>2. PICK i \in DOMAIN Content[h] : SeededFrom(x, h, i)
        BY <4>1
      <4> QED BY <1>2, <2>1, <2>3, <2>5, <4>2, RowsStay DEF Once
    <3> QED BY <1>2, <3>1 DEF Once, SeededInv
  <2> QED BY <2>4, <2>6, <2>7 DEF Once, WorkInv
<1> QED BY <1>1, <1>3, <1>4, <1>5, Shapes DEF Once

(* The row of a file is written where there was none (createSeed), so the rows, the
   references and the tables still hold nothing twice. *)
LEMMA CreateOnce ==
  ASSUME Once, Typed', NEW s \in Seeders, CreateSeed(s)
  PROVE  Once'
<1> DEFINE p == seeder[s]
<1>1. p.at = "create" /\ p.file >= 1 /\ p.hash \in Hashes
  BY DEF Once, CreateSeed, WorkInv, Works
<1>2. UNCHANGED <<rows, reference, made>>
  BY DEF CreateSeed
<1>3. CASE UNCHANGED seeding /\ Moved(s, Place("off", 0, NoUuid, 0, NoUuid))
  BY <1>2, <1>3, LeavingOnce
<1>4. CASE /\ seeding[p.hash] = "none" /\ seeding' = [seeding EXCEPT ![p.hash] = "STARTED"]
           /\ Moved(s, Place("entity", p.file, p.hash, 1, p.uuid))
  <2>1. /\ seeder'[s].at = "entity" /\ seeder'[s].file = p.file /\ seeder'[s].hash = p.hash
        /\ seeder'[s].item = 1 /\ \A t \in Seeders : t # s => seeder'[t] = seeder[t]
    BY <1>4, MovedTo
  <2>2. /\ seeding'[p.hash] = "STARTED" /\ \A h \in Hashes : h # p.hash => seeding'[h] = seeding[h]
    BY <1>1, <1>4 DEF Once, Typed
  <2>3. \A t \in Seeders : Busy(t) => seeder[t].hash # p.hash /\ seeder[t].hash \in Hashes
    BY <1>4 DEF Once, WorkInv, Works
  <2>4. /\ made \in Int /\ made <= made
        /\ \A t \in Seeders : seeder[t].uuid \in Int \union {NoUuid}
    BY PlaceTyped DEF Once, Typed
  <2>5. ASSUME NEW t \in Seeders, t # s PROVE Works(t)'
    BY <1>2, <2>1, <2>2, <2>3, <2>4, <2>5, OthersWork DEF Once
  <2>6. Works(s)'
    <3>1. \A t \in Seeders : t # s => (Busy(t)' <=> Busy(t))
      BY <2>1 DEF Busy
    <3> QED BY <1>1, <2>1, <2>2, <2>3, <3>1 DEF Works
  <2>7. SeededInv'
    <3>1. ASSUME NEW x \in rows PROVE \E h \in Hashes : \E i \in DOMAIN Content[h] : SeededFrom(x, h, i)'
      <4>1. PICK h \in Hashes : \E i \in DOMAIN Content[h] : SeededFrom(x, h, i)
        BY <3>1 DEF Once, SeededInv
      <4>2. PICK i \in DOMAIN Content[h] : SeededFrom(x, h, i)
        BY <4>1
      <4>3. h # p.hash
        BY <1>4, <4>2 DEF SeededFrom
      <4>4. \A g \in Hashes : seeding[g] # "none" => seeding'[g] # "none"
        BY <2>2
      <4> QED BY <1>2, <2>1, <2>4, <4>2, <4>3, <4>4, RowsStay DEF Once
    <3> QED BY <1>2, <3>1 DEF Once, SeededInv
  <2> QED BY <2>5, <2>6, <2>7 DEF Once, WorkInv
<1> QED BY <1>3, <1>4, Shapes DEF Once

(* Actions by which it writes a row, ...                                    *)
LEMMA WriteOnce ==
  ASSUME Once, Typed', NEW s \in Seeders, SeedEntity(s) \/ CommitPerson(s)
  PROVE  Once'
<1> DEFINE p == seeder[s]
<1>1. /\ Busy(s) /\ p.item \in Nat /\ p.item >= 1 /\ p.item <= Len(Content[p.hash])
      /\ p.item + 1 \in Nat /\ p.item + 1 >= 1 /\ Entity(s) \in Entities
      /\ made \in Nat /\ made <= made
  BY AtHand DEF SeedEntity, CommitPerson, Once, Typed
<1>2. CASE SeedEntity(s)
  <2> DEFINE e == Entity(s)
             uuid == Uuid(e)
  <2>1. uuid \in Int /\ made <= made' /\ uuid <= made'
    BY <1>1, <1>2, UuidTyped DEF SeedEntity, Once, Typed
  <2>2. /\ UNCHANGED <<reference, seeding>> /\ ~Taken(uuid) /\ rows' = rows \union {Row(s, uuid)}
        /\ p.at # "refer"
    BY <1>2 DEF SeedEntity, AtEntity
  <2>3. CASE e.key[1] = "KONTEXT"
    <3>1. Moved(s, Place("entity", p.file, p.hash, p.item + 1, NoUuid))
      BY <1>2, <2>3, Stays DEF Once, SeedEntity
    <3>2. Works(s)'
      BY <1>1, <2>2, <3>1, WorksOn DEF AtWork
    <3> QED BY <1>1, <2>1, <2>2, <3>1, <3>2, WritingOnce DEF AtWork
  <2>4. CASE e.key[1] # "KONTEXT"
    <3>1. Moved(s, Place("refer", p.file, p.hash, p.item, uuid))
      BY <1>2, <2>1, <2>4, Stays DEF Once, SeedEntity, AtWork
    <3>2. Works(s)'
      BY <1>1, <2>1, <2>2, <2>4, <3>1, WorksOn DEF AtWork
    <3> QED BY <1>1, <2>1, <2>2, <3>1, <3>2, WritingOnce DEF AtWork
  <2> QED BY <2>3, <2>4
<1>3. CASE CommitPerson(s)
  <2>1. Moved(s, Place("refer", p.file, p.hash, p.item, p.uuid))
    BY <1>3, Shapes DEF Once
  <2>2. /\ UNCHANGED <<reference, seeding, made>> /\ ~Taken(p.uuid) /\ rows' = rows \union {Row(s, p.uuid)}
        /\ p.at = "commit"
    BY <1>3 DEF CommitPerson
  <2>3. p.uuid \in Int /\ p.uuid <= made /\ Entity(s).key[1] = "PERSON"
    BY <2>2 DEF Once, WorkInv, Works
  <2>4. Works(s)'
    BY <1>1, <2>1, <2>2, <2>3, WorksOn DEF AtWork
  <2> QED BY <1>1, <2>1, <2>2, <2>3, <2>4, WritingOnce DEF AtWork
<1> QED BY <1>2, <1>3

(* ... and those by which it goes on without one.                           *)
LEMMA GoOnOnce ==
  ASSUME Once, Typed', NEW s \in Seeders,
         ReplaceUser(s) \/ CreateUser(s) \/ PersonRefused(s) \/ KeycloakFails(s) \/ SaveReference(s)
  PROVE  Once'
<1> DEFINE p == seeder[s]
<1>1. /\ Busy(s) /\ p.item \in Nat /\ p.item >= 1 /\ p.item <= Len(Content[p.hash])
      /\ p.item + 1 \in Nat /\ p.item + 1 >= 1 /\ Entity(s) \in Entities
      /\ made \in Nat /\ made <= made
  BY AtHand DEF ReplaceUser, CreateUser, PersonRefused, KeycloakFails, SaveReference, Once, Typed
<1>2. CASE ReplaceUser(s)
  <2> DEFINE uuid == Uuid(Entity(s))
  <2>1. uuid \in Int /\ made <= made' /\ uuid <= made'
    BY <1>1, <1>2, UuidTyped DEF ReplaceUser, Once, Typed
  <2>2. Moved(s, Place("user", p.file, p.hash, p.item, uuid))
    BY <1>2, <2>1, Shapes DEF Once
  <2>3. /\ UNCHANGED <<rows, reference, seeding>> /\ p.at = "entity" /\ Entity(s).key[1] = "PERSON"
    BY <1>2 DEF ReplaceUser, AtEntity
  <2>4. Works(s)'
    BY <1>1, <2>1, <2>2, <2>3, WorksOn DEF AtWork
  <2> QED BY <1>1, <2>1, <2>2, <2>3, <2>4, GoingOnOnce DEF AtWork
<1>3. CASE CreateUser(s)
  <2>1. Moved(s, Place("commit", p.file, p.hash, p.item, p.uuid))
    BY <1>3, Shapes DEF Once
  <2>2. UNCHANGED <<rows, reference, seeding, made>> /\ p.at = "user"
    BY <1>3 DEF CreateUser
  <2>3. p.uuid \in Int /\ p.uuid <= made /\ Entity(s).key[1] = "PERSON"
    BY <2>2 DEF Once, WorkInv, Works
  <2>4. Works(s)'
    BY <1>1, <2>1, <2>2, <2>3, WorksOn DEF AtWork
  <2> QED BY <1>1, <2>1, <2>2, <2>4, GoingOnOnce DEF AtWork
<1>4. CASE PersonRefused(s) \/ KeycloakFails(s)
  <2>1. Refuse(s)
    BY <1>4 DEF PersonRefused, KeycloakFails
  <2>2. Moved(s, Place("entity", p.file, p.hash, p.item + 1, NoUuid))
    BY <2>1, Shapes DEF Once
  <2>3. UNCHANGED <<rows, reference, seeding, made>>
    BY <2>1 DEF Refuse
  <2>4. Works(s)'
    BY <1>1, <2>2, <2>3, WorksOn DEF AtWork
  <2> QED BY <1>1, <2>2, <2>3, <2>4, GoingOnOnce DEF AtWork
<1>5. CASE SaveReference(s)
  <2>1. Moved(s, Place("entity", p.file, p.hash, p.item + 1, NoUuid))
    BY <1>5, Shapes DEF Once
  <2>2. /\ UNCHANGED <<rows, seeding, made>> /\ p.at = "refer"
        /\ reference' = reference \union {[key |-> Entity(s).key, uuid |-> p.uuid]}
    BY <1>5 DEF SaveReference
  <2>3. Works(s)'
    BY <1>1, <2>1, <2>2, WorksOn DEF AtWork
  <2>4. Row(s, p.uuid) \in rows
    BY <2>2 DEF Once, WorkInv, Works
  <2>5. \A r \in reference' \ reference : \E x \in rows : x.uuid = r.uuid /\ x.key = r.key
    BY <2>2, <2>4 DEF Row
  <2> QED BY <1>1, <2>1, <2>2, <2>3, <2>5, GoingOnOnce DEF AtWork
<1> QED BY <1>2, <1>3, <1>4, <1>5

(* No step brings anything into being twice ... *)
LEMMA NextOnce ==
  ASSUME Once, [SeedNext]_seedVars
  PROVE  Once'
<1>1. Typed'
  BY StepTyped
<1>2. CASE UNCHANGED seedVars
  <2>1. WorkInv'
    BY <1>2 DEF Once, WorkInv, Works, Busy, Entity, Row, From
  <2>2. SeededInv'
    BY <1>2 DEF Once, SeededInv, SeededFrom, Busy
  <2> QED BY <1>1, <2>1, <2>2 DEF Once
<1>3. ASSUME NEW n \in DOMAIN directory, Correct(n) PROVE Once'
  <2>1. UNCHANGED <<seeding, rows, reference, made, seeder>>
    BY <1>3 DEF Correct
  <2>2. WorkInv'
    BY <2>1 DEF Once, WorkInv, Works, Busy, Entity, Row, From
  <2>3. SeededInv'
    BY <2>1 DEF Once, SeededInv, SeededFrom, Busy
  <2> QED BY <1>1, <2>2, <2>3 DEF Once
<1> QED BY <1>1, <1>2, <1>3, LeaveOnce, FindOnce, CreateOnce, WriteOnce, GoOnOnce DEF SeedNext, Step

(* ... and at the beginning there is nothing. *)
LEMMA InitOnce == SeedInit => Once
<1> SUFFICES ASSUME SeedInit PROVE Once
  OBVIOUS
<1>1. Off \in Places
  BY DEF Off, Places
<1>2. Typed
  <2>1. keycloak \in [Keys -> Int \union {NoUuid}]
    BY DEF SeedInit
  <2> QED BY <1>1, <2>1, ContentAssumption DEF SeedInit, Typed
<1>3. \A s \in Seeders : seeder[s].at = "off"
  BY DEF SeedInit, Off
<1>4. WorkInv
  BY <1>3 DEF WorkInv, Works, Busy, AtWork
<1>5. SeededInv
  BY DEF SeedInit, SeededInv
<1> QED BY <1>2, <1>4, <1>5 DEF Once

(* Types, uuids and references: for any files, containers and failures      *)
(* SeedTypeOK holds.                                                            *)
THEOREM SeedingTyped == SeedSpec => []SeedTypeOK
<1>1. Once => SeedTypeOK
  <2> SUFFICES ASSUME Once PROVE SeedTypeOK
    OBVIOUS
  <2>1. directory \in [DOMAIN Directory -> Hashes]
    BY DEF Once, Typed
  <2>2. \A x \in rows : x.key \in Keys
    <3>1. ASSUME NEW x \in rows PROVE x.key \in Keys
      <4>1. PICK h \in Hashes : \E i \in DOMAIN Content[h] : SeededFrom(x, h, i)
        BY <3>1 DEF Once, SeededInv
      <4> QED BY <4>1 DEF SeededFrom, Keys
    <3> QED BY <3>1
  <2>3. \A s \in Seeders : seeder[s].at \in AtWork => seeding[seeder[s].hash] # "none"
    BY DEF Once, WorkInv, Works, Busy
  <2> QED BY <2>1, <2>2, <2>3 DEF SeedTypeOK, Once, Typed, SeededInv, AtWork
<1> QED BY InitOnce, NextOnce, <1>1, PTL DEF SeedSpec

-----------------------------------------------------------------------------
(* A file that is done is in the tables                                    *)

(* What is applied stays applied, unless another one of its name comes.     *)
LEMMA AppliedStays ==
  ASSUME Once, NEW h \in Hashes, NEW i \in DOMAIN Content[h], Applied(h, i),
         rows \subseteq rows', reference \subseteq reference', refused \subseteq refused',
         OnlyOneOfItsName(h, i) => keycloak'[Content[h][i].key] = keycloak[Content[h][i].key]
  PROVE  Applied(h, i)'
<1>1. CASE <<h, i>> \in refused
  BY <1>1 DEF Applied
<1>2. CASE <<h, i>> \notin refused
  <2>1. PICK x \in Of(h, i) :
          LET e == Content[h][i] IN
          /\ e.key[1] # "KONTEXT" => [key |-> x.key, uuid |-> x.uuid] \in reference
          /\ e.key[1] = "PERSON" /\ OnlyOneOfItsName(h, i) => keycloak[x.key] = x.uuid
    BY <1>2 DEF Applied
  <2>2. x \in rows /\ x.from = <<h, i>>
    BY <2>1 DEF Of
  <2>3. PICK g \in Hashes : \E j \in DOMAIN Content[g] : SeededFrom(x, g, j)
    BY <2>2 DEF Once, SeededInv
  <2>4. x.key = Content[h][i].key
    BY <2>2, <2>3 DEF SeededFrom
  <2>5. x \in Of(h, i)'
    BY <2>2 DEF Of
  <2>6. OnlyOneOfItsName(h, i)' <=> OnlyOneOfItsName(h, i)
    BY DEF OnlyOneOfItsName
  <2> QED BY <2>1, <2>4, <2>5, <2>6 DEF Applied
<1> QED BY <1>1, <1>2

(* A step of s keeps what was applied: it touches no user but the one of    *)
(* its own entity, which is neither behind it nor in another file.          *)
LEMMA AppliedKept ==
  ASSUME Once, AppliedInv, NEW s \in Seeders,
         rows \subseteq rows', reference \subseteq reference', refused \subseteq refused',
         \A t \in Seeders : t # s => seeder'[t] = seeder[t],
         \/ UNCHANGED keycloak
         \/ /\ AtEntity(s) \/ seeder[s].at \in {"user", "commit", "refer"}
            /\ \A k \in Keys : k # Entity(s).key => keycloak'[k] = keycloak[k]
  PROVE  /\ \A h \in Hashes : seeding[h] = "DONE" => \A i \in DOMAIN Content[h] : Applied(h, i)'
         /\ \A h \in Hashes : Busy(s) /\ h = seeder[s].hash =>
              \A i \in DOMAIN Content[h] : i < seeder[s].item => Applied(h, i)'
         /\ \A t \in Seeders : t # s => AppliedUpTo(t)' /\ UserThere(t)'
<1>1. ASSUME NEW h \in Hashes, NEW i \in DOMAIN Content[h], OnlyOneOfItsName(h, i),
             keycloak'[Content[h][i].key] # keycloak[Content[h][i].key]
      PROVE  Busy(s) /\ h = seeder[s].hash /\ i = seeder[s].item
  <2>1. Content[h][i].key \in Keys
    BY DEF Keys
  <2>2. /\ AtEntity(s) \/ seeder[s].at \in {"user", "commit", "refer"}
        /\ Content[h][i].key = Entity(s).key
    BY <1>1, <2>1
  <2>3. Busy(s) /\ seeder[s].hash \in Hashes /\ seeder[s].item \in DOMAIN Content[seeder[s].hash]
    BY <2>2, AtHand
  <2> QED BY <1>1, <2>2, <2>3 DEF Entity, OnlyOneOfItsName
<1>2. ASSUME NEW h \in Hashes, seeding[h] = "DONE", NEW i \in DOMAIN Content[h] PROVE Applied(h, i)'
  <2>1. Applied(h, i)
    BY <1>2 DEF AppliedInv
  <2>2. ~(Busy(s) /\ h = seeder[s].hash)
    BY <1>2 DEF Once, WorkInv, Works
  <2> QED BY <1>1, <2>1, <2>2, AppliedStays
<1>3. ASSUME NEW t \in Seeders, Busy(t), NEW h \in Hashes, h = seeder[t].hash,
             NEW i \in DOMAIN Content[h], i < seeder[t].item
      PROVE  Applied(h, i)'
  <2>1. Applied(h, i)
    BY <1>3 DEF AppliedInv, AppliedUpTo
  <2>2. seeder[t].item \in Int /\ i \in Int
    BY PlaceTyped, ContentAssumption DEF Once
  <2>3. ~(Busy(s) /\ h = seeder[s].hash /\ i = seeder[s].item)
    BY <1>3, <2>2 DEF Once, WorkInv, Works
  <2> QED BY <1>1, <2>1, <2>3, AppliedStays
<1>4. ASSUME NEW t \in Seeders, t # s PROVE AppliedUpTo(t)'
  <2>1. seeder'[t] = seeder[t] /\ (Busy(t)' <=> Busy(t))
    BY <1>4 DEF Busy
  <2>2. Busy(t) => seeder[t].hash \in Hashes
    BY DEF Once, WorkInv, Works
  <2>3. PICK h : h = seeder[t].hash
    OBVIOUS
  <2> QED BY <1>3, <2>1, <2>2, <2>3 DEF AppliedUpTo
<1>5. ASSUME NEW t \in Seeders, t # s, seeder[t].at \in {"commit", "refer"}, Entity(t).key[1] = "PERSON",
             OnlyOneOfItsName(seeder[t].hash, seeder[t].item)
      PROVE  keycloak'[Entity(t).key] = seeder[t].uuid
  <2>1. keycloak[Entity(t).key] = seeder[t].uuid
    BY <1>5 DEF AppliedInv, UserThere
  <2>2. Busy(t) /\ seeder[t].hash \in Hashes /\ seeder[t].item \in DOMAIN Content[seeder[t].hash]
    BY <1>5, AtHand
  <2>3. ~(Busy(s) /\ seeder[t].hash = seeder[s].hash)
    BY <1>5, <2>2 DEF Once, WorkInv, Works
  <2> QED BY <1>1, <1>5, <2>1, <2>2, <2>3 DEF Entity
<1>6. ASSUME NEW t \in Seeders, t # s PROVE UserThere(t)'
  <2>1. seeder'[t] = seeder[t] /\ Entity(t)' = Entity(t)
    BY <1>6 DEF Entity
  <2>2. OnlyOneOfItsName(seeder[t].hash, seeder[t].item)' <=> OnlyOneOfItsName(seeder[t].hash, seeder[t].item)
    BY <2>1 DEF OnlyOneOfItsName
  <2> QED BY <1>5, <1>6, <2>1, <2>2 DEF UserThere
<1> QED BY <1>2, <1>3, <1>4, <1>6

(* A container that stays with its entity or gets past it.                  *)
LEMMA AppliedOneMore ==
  ASSUME Once, NEW s \in Seeders, NEW h \in Hashes, Busy(s), h = seeder[s].hash, seeder'[s].hash = h,
         \A i \in DOMAIN Content[h] : i < seeder[s].item => Applied(h, i)',
         \/ seeder'[s].item = seeder[s].item
         \/ /\ seeder'[s].item = seeder[s].item + 1
            /\ \A i \in DOMAIN Content[h] : i = seeder[s].item => Applied(h, i)'
  PROVE  AppliedUpTo(s)'
<1>1. seeder[s].item \in Int /\ \A i \in DOMAIN Content[h] : i \in Int
  BY PlaceTyped, ContentAssumption DEF Once
<1>2. \A i \in DOMAIN Content[h] : i < seeder'[s].item => Applied(h, i)'
  BY <1>1
<1> QED BY <1>2 DEF AppliedUpTo

(* The row of the entity at hand, with its reference and its user.          *)
LEMMA AppliedByRow ==
  ASSUME NEW s \in Seeders, NEW h, NEW i, h = seeder[s].hash, i = seeder[s].item,
         NEW uuid, Row(s, uuid) \in rows',
         Entity(s).key[1] # "KONTEXT" => [key |-> Entity(s).key, uuid |-> uuid] \in reference',
         Entity(s).key[1] = "PERSON" /\ OnlyOneOfItsName(h, i) => keycloak'[Entity(s).key] = uuid
  PROVE  Applied(h, i)'
<1>1. PICK x : x = Row(s, uuid)
  OBVIOUS
<1>2. x.from = <<h, i>> /\ x.key = Entity(s).key /\ x.uuid = uuid /\ Entity(s) = Content[h][i]
  BY <1>1 DEF Row, From, Entity
<1>3. x \in Of(h, i)'
  BY <1>1, <1>2 DEF Of
<1>4. OnlyOneOfItsName(h, i)' <=> OnlyOneOfItsName(h, i)
  BY DEF OnlyOneOfItsName
<1> QED BY <1>2, <1>3, <1>4 DEF Applied

(* What a DONE row says was applied stays applied, step by step. *)
LEMMA NextApplied ==
  ASSUME Once, AppliedInv, Once', [SeedNext]_seedVars
  PROVE  AppliedInv'
<1>1. ASSUME UNCHANGED <<seeding, rows, reference, refused, keycloak, seeder>> PROVE AppliedInv'
  <2>1. \A h, i : (Applied(h, i)' <=> Applied(h, i)) /\ (OnlyOneOfItsName(h, i)' <=> OnlyOneOfItsName(h, i))
    BY <1>1 DEF Applied, OnlyOneOfItsName, Of
  <2>2. \A s \in Seeders : (Busy(s)' <=> Busy(s)) /\ Entity(s)' = Entity(s)
    BY <1>1 DEF Busy, Entity
  <2>3. \A s \in Seeders : (AppliedUpTo(s)' <=> AppliedUpTo(s)) /\ (UserThere(s)' <=> UserThere(s))
    BY <1>1, <2>1, <2>2 DEF AppliedUpTo, UserThere
  <2> QED BY <1>1, <2>1, <2>3 DEF AppliedInv
(* What a step keeps, and what is left to show of it.                       *)
<1>2. ASSUME NEW s \in Seeders,
             rows \subseteq rows', reference \subseteq reference', refused \subseteq refused',
             \A t \in Seeders : t # s => seeder'[t] = seeder[t],
             \/ UNCHANGED keycloak
             \/ /\ AtEntity(s) \/ seeder[s].at \in {"user", "commit", "refer"}
                /\ \A k \in Keys : k # Entity(s).key => keycloak'[k] = keycloak[k],
             \A h \in Hashes : seeding'[h] = "DONE" =>
               seeding[h] = "DONE" \/ \A i \in DOMAIN Content[h] : Applied(h, i)',
             AppliedUpTo(s)', UserThere(s)'
      PROVE  AppliedInv'
  BY <1>2, AppliedKept DEF AppliedInv
<1>3. ASSUME NEW s \in Seeders, NEW at \in {"off", "find", "create"}, seeder'[s].at = at
      PROVE  AppliedUpTo(s)' /\ UserThere(s)'
  BY <1>3 DEF AppliedUpTo, UserThere, Busy, AtWork
<1>4. ASSUME NEW s \in Seeders, Start(s) PROVE AppliedInv'
  <2>1. Moved(s, Place("find", 1, NoUuid, 0, NoUuid))
    BY <1>4, Shapes DEF Once
  <2>2. UNCHANGED <<seeding, rows, reference, refused, keycloak>>
    BY <1>4 DEF Start
  <2> QED BY <1>2, <1>3, <2>1, <2>2, MovedTo
<1>5. ASSUME NEW s \in Seeders, FindSeed(s) PROVE AppliedInv'
  <2>1. seeder[s].file >= 1
    BY <1>5 DEF Once, WorkInv, Works, FindSeed
  <2>2. /\ seeder'[s].at \in {"off", "find", "create"}
        /\ \A t \in Seeders : t # s => seeder'[t] = seeder[t]
    BY <1>5, <2>1, Shapes, MovedTo DEF Once
  <2>3. UNCHANGED <<seeding, rows, reference, refused, keycloak>>
    BY <1>5 DEF FindSeed
  <2> QED BY <1>2, <1>3, <2>2, <2>3
<1>6. ASSUME NEW s \in Seeders, CreateSeed(s) PROVE AppliedInv'
  <2>1. UNCHANGED <<rows, reference, refused, keycloak>>
    BY <1>6 DEF CreateSeed
  <2>2. CASE UNCHANGED seeding /\ Moved(s, Place("off", 0, NoUuid, 0, NoUuid))
    BY <1>2, <1>3, <2>1, <2>2, MovedTo
  <2>3. CASE /\ seeding[seeder[s].hash] = "none" /\ seeding' = [seeding EXCEPT ![seeder[s].hash] = "STARTED"]
             /\ Moved(s, Place("entity", seeder[s].file, seeder[s].hash, 1, seeder[s].uuid))
    <3>1. /\ seeder'[s].at = "entity" /\ seeder'[s].item = 1 /\ seeder'[s].hash = seeder[s].hash
          /\ \A t \in Seeders : t # s => seeder'[t] = seeder[t]
      BY <2>3, MovedTo
    <3>2. seeder[s].hash \in Hashes
      BY <1>6 DEF Once, WorkInv, Works, CreateSeed
    <3>3. \A i \in DOMAIN Content[seeder[s].hash] : ~(i < 1)
      BY <3>2, ContentAssumption
    <3>4. AppliedUpTo(s)' /\ UserThere(s)'
      BY <3>1, <3>3 DEF AppliedUpTo, UserThere
    <3>5. \A h \in Hashes : seeding'[h] = "DONE" => seeding[h] = "DONE"
      BY <2>3 DEF Once, Typed
    <3> QED BY <1>2, <2>1, <3>1, <3>4, <3>5
  <2> QED BY <1>6, <2>2, <2>3, Shapes DEF Once
<1>7. ASSUME NEW s \in Seeders, Done(s) PROVE AppliedInv'
  <2>1. Moved(s, Place("find", seeder[s].file + 1, NoUuid, 0, NoUuid))
    BY <1>7, Shapes DEF Once
  <2>2. UNCHANGED <<rows, reference, refused, keycloak>> /\ Busy(s)
    BY <1>7 DEF Done, Busy, AtWork
  <2>3. \A h \in Hashes : Busy(s) /\ h = seeder[s].hash =>
              \A i \in DOMAIN Content[h] : i < seeder[s].item => Applied(h, i)'
    BY <2>1, <2>2, MovedTo, AppliedKept
  <2>4. PICK h \in Hashes : h = seeder[s].hash
    BY <2>2 DEF Once, WorkInv, Works
  <2>5. \A i \in DOMAIN Content[h] : i < seeder[s].item
    BY <1>7, <2>4, PlaceTyped, ContentAssumption DEF Once, Done
  <2>6. \A g \in Hashes : seeding'[g] = "DONE" => g = h \/ seeding[g] = "DONE"
    BY <1>7, <2>4 DEF Once, Typed, Done
  <2>7. \A g \in Hashes : seeding'[g] = "DONE" =>
          seeding[g] = "DONE" \/ \A i \in DOMAIN Content[g] : Applied(g, i)'
    BY <2>2, <2>3, <2>4, <2>5, <2>6
  <2> QED BY <1>2, <1>3, <2>1, <2>2, <2>7, MovedTo
<1>8. ASSUME NEW s \in Seeders, EntityFails(s) \/ CallFails(s) PROVE AppliedInv'
  <2>1. FileFails(s) /\ UNCHANGED refused
    BY <1>8 DEF EntityFails, CallFails
  <2>2. Moved(s, Place("off", 0, NoUuid, 0, NoUuid))
    BY <2>1, Shapes DEF Once
  <2>3. UNCHANGED <<rows, reference, keycloak>>
    BY <2>1 DEF FileFails
  <2>4. \A h \in Hashes : seeding'[h] = "DONE" => seeding[h] = "DONE"
    BY <2>1 DEF FileFails, Once, Typed
  <2> QED BY <1>2, <1>3, <2>1, <2>2, <2>3, <2>4, MovedTo
<1>9. ASSUME NEW s \in Seeders, Crash(s) PROVE AppliedInv'
  <2>1. Moved(s, Place("off", 0, NoUuid, 0, NoUuid))
    BY <1>9, Leaving DEF Once, Crash
  <2>2. UNCHANGED <<seeding, rows, reference, refused, keycloak>>
    BY <1>9 DEF Crash
  <2> QED BY <1>2, <1>3, <2>1, <2>2, MovedTo
<1>10. ASSUME NEW s \in Seeders, SeedEntity(s) PROVE AppliedInv'
  <2>0. PICK h, i : h = seeder[s].hash /\ i = seeder[s].item
    OBVIOUS
  <2>1. /\ Busy(s) /\ h \in Hashes /\ Entity(s) \in Entities
        /\ UNCHANGED <<seeding, reference, refused, keycloak>>
        /\ rows' = rows \union {Row(s, Uuid(Entity(s)))} /\ Entity(s).key[1] # "PERSON"
    BY <1>10, <2>0, AtHand DEF SeedEntity
  <2>2. Uuid(Entity(s)) \in Int
    BY <2>1, UuidTyped DEF Once
  <2>3. CASE Entity(s).key[1] = "KONTEXT"
    <3>1. Moved(s, Place("entity", seeder[s].file, seeder[s].hash, seeder[s].item + 1, NoUuid))
      BY <1>10, <2>3, Stays DEF Once, SeedEntity
    <3>2. /\ seeder'[s].at = "entity" /\ seeder'[s].item = i + 1 /\ seeder'[s].hash = h
          /\ \A t \in Seeders : t # s => seeder'[t] = seeder[t]
      BY <2>0, <3>1, MovedTo
    <3>3. Applied(h, i)'
      BY <2>0, <2>1, <2>3, AppliedByRow
    <3>4. AppliedUpTo(s)'
      BY <2>0, <2>1, <3>2, <3>3, AppliedKept, AppliedOneMore
    <3>5. UserThere(s)'
      BY <3>2 DEF UserThere
    <3> QED BY <1>2, <2>1, <3>2, <3>4, <3>5
  <2>4. CASE Entity(s).key[1] # "KONTEXT"
    <3>1. Moved(s, Place("refer", seeder[s].file, seeder[s].hash, seeder[s].item, Uuid(Entity(s))))
      BY <1>10, <2>2, <2>4, Stays DEF Once, SeedEntity, AtWork
    <3>2. /\ seeder'[s].item = i /\ seeder'[s].hash = h
          /\ \A t \in Seeders : t # s => seeder'[t] = seeder[t]
      BY <2>0, <3>1, MovedTo
    <3>3. AppliedUpTo(s)'
      BY <2>0, <2>1, <3>2, AppliedKept, AppliedOneMore
    <3>4. UserThere(s)'
      BY <2>0, <2>1, <3>2 DEF UserThere, Entity
    <3> QED BY <1>2, <2>1, <3>2, <3>3, <3>4
  <2> QED BY <2>3, <2>4
<1>11. ASSUME NEW s \in Seeders, ReplaceUser(s) PROVE AppliedInv'
  <2>0. PICK h : h = seeder[s].hash
    OBVIOUS
  <2>1. /\ Busy(s) /\ h \in Hashes /\ Entity(s) \in Entities /\ AtEntity(s)
        /\ UNCHANGED <<seeding, rows, reference, refused>>
        /\ keycloak' = [keycloak EXCEPT ![Entity(s).key] = NoUuid] \/ UNCHANGED keycloak
    BY <1>11, <2>0, AtHand DEF ReplaceUser
  <2>2. \A k \in Keys : k # Entity(s).key => keycloak'[k] = keycloak[k]
    BY <2>1 DEF Once, Typed
  <2>3. Uuid(Entity(s)) \in Int
    BY <2>1, UuidTyped DEF Once
  <2>4. Moved(s, Place("user", seeder[s].file, seeder[s].hash, seeder[s].item, Uuid(Entity(s))))
    BY <1>11, <2>3, Shapes DEF Once
  <2>5. /\ seeder'[s].at = "user" /\ seeder'[s].item = seeder[s].item /\ seeder'[s].hash = h
        /\ \A t \in Seeders : t # s => seeder'[t] = seeder[t]
    BY <2>0, <2>4, MovedTo
  <2>6. AppliedUpTo(s)'
    BY <2>0, <2>1, <2>2, <2>5, AppliedKept, AppliedOneMore
  <2>7. UserThere(s)'
    BY <2>5 DEF UserThere
  <2> QED BY <1>2, <2>1, <2>2, <2>5, <2>6, <2>7
<1>12. ASSUME NEW s \in Seeders, CreateUser(s) PROVE AppliedInv'
  <2>0. PICK h : h = seeder[s].hash
    OBVIOUS
  <2>1. /\ Busy(s) /\ h \in Hashes /\ Entity(s).key \in Keys /\ seeder[s].at = "user"
        /\ UNCHANGED <<seeding, rows, reference, refused>>
        /\ keycloak' = [keycloak EXCEPT ![Entity(s).key] = seeder[s].uuid]
    BY <1>12, <2>0, AtHand DEF CreateUser
  <2>2. /\ \A k \in Keys : k # Entity(s).key => keycloak'[k] = keycloak[k]
        /\ keycloak'[Entity(s).key] = seeder[s].uuid
    BY <2>1 DEF Once, Typed
  <2>3. Moved(s, Place("commit", seeder[s].file, seeder[s].hash, seeder[s].item, seeder[s].uuid))
    BY <1>12, Shapes DEF Once
  <2>4. /\ seeder'[s].item = seeder[s].item /\ seeder'[s].hash = h /\ seeder'[s].uuid = seeder[s].uuid
        /\ \A t \in Seeders : t # s => seeder'[t] = seeder[t]
    BY <2>0, <2>3, MovedTo
  <2>5. AppliedUpTo(s)'
    BY <2>0, <2>1, <2>2, <2>4, AppliedKept, AppliedOneMore
  <2>6. UserThere(s)'
    BY <2>0, <2>2, <2>4 DEF UserThere, Entity
  <2> QED BY <1>2, <2>1, <2>2, <2>4, <2>5, <2>6
<1>13. ASSUME NEW s \in Seeders, PersonRefused(s) \/ KeycloakFails(s) PROVE AppliedInv'
  <2>0. PICK h, i : h = seeder[s].hash /\ i = seeder[s].item
    OBVIOUS
  <2>1. /\ Busy(s) /\ h \in Hashes /\ Refuse(s)
        /\ UNCHANGED <<seeding, rows, reference, keycloak>> /\ refused' = refused \union {<<h, i>>}
    BY <1>13, <2>0, AtHand DEF PersonRefused, KeycloakFails, Refuse, From
  <2>2. Moved(s, Place("entity", seeder[s].file, seeder[s].hash, seeder[s].item + 1, NoUuid))
    BY <2>1, Shapes DEF Once
  <2>3. /\ seeder'[s].at = "entity" /\ seeder'[s].item = i + 1 /\ seeder'[s].hash = h
        /\ \A t \in Seeders : t # s => seeder'[t] = seeder[t]
    BY <2>0, <2>2, MovedTo
  <2>4. Applied(h, i)'
    BY <2>1 DEF Applied
  <2>5. AppliedUpTo(s)'
    BY <2>0, <2>1, <2>3, <2>4, AppliedKept, AppliedOneMore
  <2>6. UserThere(s)'
    BY <2>3 DEF UserThere
  <2> QED BY <1>2, <2>1, <2>3, <2>5, <2>6
<1>14. ASSUME NEW s \in Seeders, CommitPerson(s) PROVE AppliedInv'
  <2>0. PICK h : h = seeder[s].hash
    OBVIOUS
  <2>1. /\ Busy(s) /\ h \in Hashes /\ seeder[s].at = "commit"
        /\ UNCHANGED <<seeding, reference, refused, keycloak>> /\ rows \subseteq rows'
    BY <1>14, <2>0, AtHand DEF CommitPerson
  <2>2. Moved(s, Place("refer", seeder[s].file, seeder[s].hash, seeder[s].item, seeder[s].uuid))
    BY <1>14, Shapes DEF Once
  <2>3. /\ seeder'[s].item = seeder[s].item /\ seeder'[s].hash = h /\ seeder'[s].uuid = seeder[s].uuid
        /\ \A t \in Seeders : t # s => seeder'[t] = seeder[t]
    BY <2>0, <2>2, MovedTo
  <2>4. AppliedUpTo(s)'
    BY <2>0, <2>1, <2>3, AppliedKept, AppliedOneMore
  <2>5. UserThere(s)'
    <3>1. UserThere(s)
      BY DEF AppliedInv
    <3> QED BY <2>0, <2>1, <2>3, <3>1 DEF UserThere, Entity, OnlyOneOfItsName
  <2> QED BY <1>2, <2>1, <2>3, <2>4, <2>5
<1>15. ASSUME NEW s \in Seeders, SaveReference(s) PROVE AppliedInv'
  <2>0. PICK h, i : h = seeder[s].hash /\ i = seeder[s].item
    OBVIOUS
  <2>1. /\ Busy(s) /\ h \in Hashes /\ seeder[s].at = "refer"
        /\ UNCHANGED <<seeding, rows, refused, keycloak>>
        /\ reference' = reference \union {[key |-> Entity(s).key, uuid |-> seeder[s].uuid]}
    BY <1>15, <2>0, AtHand DEF SaveReference
  <2>2. Moved(s, Place("entity", seeder[s].file, seeder[s].hash, seeder[s].item + 1, NoUuid))
    BY <1>15, Shapes DEF Once
  <2>3. /\ seeder'[s].at = "entity" /\ seeder'[s].item = i + 1 /\ seeder'[s].hash = h
        /\ \A t \in Seeders : t # s => seeder'[t] = seeder[t]
    BY <2>0, <2>2, MovedTo
  <2>4. Row(s, seeder[s].uuid) \in rows
    BY <2>1 DEF Once, WorkInv, Works
  <2>5. Entity(s).key[1] = "PERSON" /\ OnlyOneOfItsName(h, i) => keycloak'[Entity(s).key] = seeder[s].uuid
    BY <2>0, <2>1 DEF AppliedInv, UserThere
  <2>6. PICK uuid : uuid = seeder[s].uuid
    OBVIOUS
  <2>7. Applied(h, i)'
    BY <2>0, <2>1, <2>4, <2>5, <2>6, AppliedByRow
  <2>8. AppliedUpTo(s)'
    BY <2>0, <2>1, <2>3, <2>7, AppliedKept, AppliedOneMore
  <2>9. UserThere(s)'
    BY <2>3 DEF UserThere
  <2> QED BY <1>2, <2>1, <2>3, <2>8, <2>9
<1>16. ASSUME NEW n \in DOMAIN directory, Correct(n) PROVE AppliedInv'
  BY <1>1, <1>16 DEF Correct
<1>17. CASE UNCHANGED seedVars
  BY <1>1, <1>17
<1> QED BY <1>4, <1>5, <1>6, <1>7, <1>8, <1>9, <1>10, <1>11, <1>12, <1>13, <1>14, <1>15, <1>16, <1>17
        DEF SeedNext, Step

-----------------------------------------------------------------------------
(* A file fails for a cause that is in the files                           *)

(* A step after which nothing has disturbed is one of the only container.   *)
LEMMA Undisturbed ==
  ASSUME Once, AloneInv, NEW s \in Seeders, ~disturbed',
         Step(s) \/ CallFails(s) \/ KeycloakFails(s) \/ Crash(s)
  PROVE  /\ ~disturbed /\ ~CallFails(s) /\ ~Crash(s)
         /\ \A t \in Seeders : t # s => seeder[t].at = "off"
         /\ UNCHANGED directory
<1>1. ~CallFails(s) /\ ~Crash(s)
  BY DEF CallFails, Crash, Fault
<1>2. CASE Start(s)
  BY <1>1, <1>2 DEF Start
<1>3. CASE ~Start(s)
  <2>1. ~disturbed /\ UNCHANGED directory
    BY <1>1, <1>3 DEF Step, FindSeed, CreateSeed, Done, SeedEntity, ReplaceUser, CreateUser, PersonRefused,
       CommitPerson, SaveReference, EntityFails, KeycloakFails, Refuse
  <2>2. seeder[s].at # "off"
    BY <1>1, <1>3 DEF Step, FindSeed, CreateSeed, Done, SeedEntity, ReplaceUser, CreateUser, PersonRefused,
       CommitPerson, SaveReference, EntityFails, KeycloakFails, Refuse, AtEntity
  <2> QED BY <1>1, <2>1, <2>2 DEF AloneInv, Lonely
<1> QED BY <1>2, <1>3

(* Unless a container is about to write a reference, every row has its one. *)
LEMMA AllReferenced ==
  ASSUME AloneInv, ~disturbed, NEW s \in Seeders, seeder[s].at # "refer",
         \A t \in Seeders : t # s => seeder[t].at = "off"
  PROVE  \A x \in rows : Referenced(x)
BY DEF AloneInv

(* No step lets a second Seeder begin a file while one is on it. *)
LEMMA NextAlone ==
  ASSUME Once, Once', AloneInv, [SeedNext]_seedVars
  PROVE  AloneInv'
<1>1. CASE UNCHANGED seedVars
  BY <1>1 DEF AloneInv, Lonely, Referenced, Fresh, Entity
<1>2. ASSUME NEW n \in DOMAIN directory, Correct(n) PROVE AloneInv'
  BY <1>2 DEF Correct, AloneInv
<1>3. ASSUME NEW s \in Seeders, Step(s) \/ CallFails(s) \/ KeycloakFails(s) \/ Crash(s), ~disturbed'
      PROVE  AloneInv'
  <2>1. /\ ~disturbed /\ ~CallFails(s) /\ ~Crash(s)
        /\ \A t \in Seeders : t # s => seeder[t].at = "off"
    BY <1>3, Undisturbed
  <2>2. ASSUME \A t \in Seeders : t # s => seeder'[t] = seeder[t],
               \A x \in rows' : Referenced(x)' \/ (seeder'[s].at = "refer" /\ seeder'[s].uuid = x.uuid),
               Fresh(s)'
        PROVE  AloneInv'
    <3>1. Lonely'
      BY <2>1, <2>2 DEF Lonely
    <3>2. \A t \in Seeders : t # s => Fresh(t)'
      BY <2>1, <2>2 DEF Fresh
    <3> QED BY <2>2, <3>1, <3>2 DEF AloneInv
  <2>3. ASSUME UNCHANGED <<rows, reference>>, seeder[s].at # "refer" PROVE \A x \in rows' : Referenced(x)'
    BY <2>1, <2>3, AllReferenced DEF Referenced
  <2>4. ASSUME seeder'[s].at \notin {"user", "commit"} PROVE Fresh(s)'
    BY <2>4 DEF Fresh
  <2>5. CASE Start(s)
    <3>1. Moved(s, Place("find", 1, NoUuid, 0, NoUuid))
      BY <2>5, Shapes DEF Once
    <3>2. UNCHANGED <<rows, reference>> /\ seeder[s].at # "refer"
      BY <2>5 DEF Start
    <3> QED BY <2>2, <2>3, <2>4, <3>1, <3>2, MovedTo
  <2>6. CASE FindSeed(s)
    <3>1. seeder[s].file >= 1
      BY <2>6 DEF Once, WorkInv, Works, FindSeed
    <3>2. /\ seeder'[s].at \in {"off", "find", "create"}
          /\ \A t \in Seeders : t # s => seeder'[t] = seeder[t]
      BY <2>6, <3>1, Shapes, MovedTo DEF Once
    <3>3. UNCHANGED <<rows, reference>> /\ seeder[s].at # "refer"
      BY <2>6 DEF FindSeed
    <3> QED BY <2>2, <2>3, <2>4, <3>2, <3>3
  <2>7. CASE CreateSeed(s)
    <3>1. /\ seeder'[s].at \in {"off", "entity"}
          /\ \A t \in Seeders : t # s => seeder'[t] = seeder[t]
      BY <2>7, Shapes, MovedTo DEF Once
    <3>2. UNCHANGED <<rows, reference>> /\ seeder[s].at # "refer"
      BY <2>7 DEF CreateSeed
    <3> QED BY <2>2, <2>3, <2>4, <3>1, <3>2
  <2>8. CASE Done(s)
    <3>1. Moved(s, Place("find", seeder[s].file + 1, NoUuid, 0, NoUuid))
      BY <2>8, Shapes DEF Once
    <3>2. UNCHANGED <<rows, reference>> /\ seeder[s].at # "refer"
      BY <2>8 DEF Done
    <3> QED BY <2>2, <2>3, <2>4, <3>1, <3>2, MovedTo
  <2>9. CASE EntityFails(s)
    <3>1. Moved(s, Place("off", 0, NoUuid, 0, NoUuid))
      BY <2>9, Shapes DEF Once, EntityFails
    <3>2. UNCHANGED <<rows, reference>> /\ seeder[s].at # "refer"
      BY <2>9 DEF EntityFails, FileFails, AtEntity
    <3> QED BY <2>2, <2>3, <2>4, <3>1, <3>2, MovedTo
  <2>10. CASE PersonRefused(s) \/ KeycloakFails(s)
    <3>1. Moved(s, Place("entity", seeder[s].file, seeder[s].hash, seeder[s].item + 1, NoUuid))
      BY <2>10, Shapes DEF Once, PersonRefused, KeycloakFails
    <3>2. UNCHANGED <<rows, reference>> /\ seeder[s].at # "refer"
      BY <2>10 DEF PersonRefused, KeycloakFails, Refuse
    <3> QED BY <2>2, <2>3, <2>4, <3>1, <3>2, MovedTo
  <2>11. CASE SeedEntity(s)
    <3>1. PICK x : x = Row(s, Uuid(Entity(s)))
      OBVIOUS
    <3>2. /\ x.key = Entity(s).key /\ x.uuid = Uuid(Entity(s)) /\ Uuid(Entity(s)) \in Int
          /\ rows' = rows \union {x} /\ UNCHANGED reference /\ seeder[s].at # "refer"
      BY <2>11, <3>1, AtHand, UuidTyped DEF SeedEntity, Row, Once, AtEntity
    <3>3. \A y \in rows : Referenced(y)'
      BY <2>1, <3>2, AllReferenced DEF Referenced
    <3>4. CASE Entity(s).key[1] = "KONTEXT"
      <4>1. Moved(s, Place("entity", seeder[s].file, seeder[s].hash, seeder[s].item + 1, NoUuid))
        BY <2>11, <3>4, Stays DEF Once, SeedEntity
      <4>2. Referenced(x)'
        BY <3>2, <3>4 DEF Referenced
      <4> QED BY <2>2, <2>4, <3>2, <3>3, <4>1, <4>2, MovedTo
    <3>5. CASE Entity(s).key[1] # "KONTEXT"
      <4>1. Moved(s, Place("refer", seeder[s].file, seeder[s].hash, seeder[s].item, Uuid(Entity(s))))
        BY <2>11, <3>2, <3>5, Stays DEF Once, SeedEntity, AtWork
      <4> QED BY <2>2, <2>4, <3>2, <3>3, <4>1, MovedTo
    <3> QED BY <3>4, <3>5
  <2>12. CASE ReplaceUser(s)
    <3>1. /\ Entity(s) \in Entities /\ Uuid(Entity(s)) \in Int
          /\ UNCHANGED <<rows, reference>> /\ seeder[s].at # "refer"
      BY <2>12, AtHand, UuidTyped DEF ReplaceUser, AtEntity, Once
    <3>2. Moved(s, Place("user", seeder[s].file, seeder[s].hash, seeder[s].item, Uuid(Entity(s))))
      BY <2>12, <3>1, Shapes DEF Once
    <3>3. /\ seeder'[s].hash = seeder[s].hash /\ seeder'[s].item = seeder[s].item
          /\ seeder'[s].uuid = Uuid(Entity(s)) /\ \A t \in Seeders : t # s => seeder'[t] = seeder[t]
      BY <3>2, MovedTo
    <3>4. Fresh(s)'
      <4>1. Entity(s)' = Entity(s)
        BY <3>3 DEF Entity
      <4>2. ASSUME Entity(s).override = NoUuid, NEW x \in rows PROVE x.uuid # Uuid(Entity(s))
        <5>1. PICK h \in Hashes : \E i \in DOMAIN Content[h] : SeededFrom(x, h, i)
          BY <4>2 DEF Once, SeededInv
        <5>2. x.uuid \in Int /\ x.uuid <= made /\ made \in Nat
          BY <5>1 DEF SeededFrom, Once, Typed
        <5>3. Uuid(Entity(s)) = made + 1
          BY <4>2 DEF Uuid
        <5> QED BY <5>2, <5>3
      <4> QED BY <3>1, <3>3, <4>1, <4>2 DEF Fresh
    <3> QED BY <2>2, <2>3, <3>1, <3>3, <3>4
  <2>13. CASE CreateUser(s)
    <3>1. Moved(s, Place("commit", seeder[s].file, seeder[s].hash, seeder[s].item, seeder[s].uuid))
      BY <2>13, Shapes DEF Once
    <3>2. UNCHANGED <<rows, reference>> /\ seeder[s].at = "user"
      BY <2>13 DEF CreateUser
    <3>3. /\ seeder'[s].hash = seeder[s].hash /\ seeder'[s].item = seeder[s].item
          /\ seeder'[s].uuid = seeder[s].uuid /\ \A t \in Seeders : t # s => seeder'[t] = seeder[t]
      BY <3>1, MovedTo
    <3>4. Fresh(s)'
      BY <2>1, <3>2, <3>3 DEF AloneInv, Fresh, Entity
    <3> QED BY <2>2, <2>3, <3>2, <3>3, <3>4
  <2>14. CASE CommitPerson(s)
    <3>1. PICK x : x = Row(s, seeder[s].uuid)
      OBVIOUS
    <3>2. /\ x.uuid = seeder[s].uuid /\ rows' = rows \union {x} /\ UNCHANGED reference
          /\ seeder[s].at # "refer"
      BY <2>14, <3>1 DEF CommitPerson, Row
    <3>3. \A y \in rows : Referenced(y)'
      BY <2>1, <3>2, AllReferenced DEF Referenced
    <3>4. Moved(s, Place("refer", seeder[s].file, seeder[s].hash, seeder[s].item, seeder[s].uuid))
      BY <2>14, Shapes DEF Once
    <3> QED BY <2>2, <2>4, <3>2, <3>3, <3>4, MovedTo
  <2>15. CASE SaveReference(s)
    <3>1. PICK y : y = Row(s, seeder[s].uuid)
      OBVIOUS
    <3>2. /\ UNCHANGED rows /\ seeder[s].at = "refer"
          /\ reference' = reference \union {[key |-> Entity(s).key, uuid |-> seeder[s].uuid]}
      BY <2>15 DEF SaveReference
    <3>3. y \in rows /\ y.uuid = seeder[s].uuid /\ y.key = Entity(s).key
      BY <3>1, <3>2 DEF Once, WorkInv, Works, Row
    <3>4. ASSUME NEW x \in rows PROVE Referenced(x)'
      <4>1. CASE Referenced(x)
        BY <3>2, <4>1 DEF Referenced
      <4>2. CASE ~Referenced(x)
        <5>1. x.uuid = seeder[s].uuid
          BY <2>1, <4>2 DEF AloneInv
        <5>2. x = y
          BY <3>3, <5>1 DEF Once, SeededInv
        <5> QED BY <3>2, <3>3, <5>2 DEF Referenced
      <4> QED BY <4>1, <4>2
    <3>5. Moved(s, Place("entity", seeder[s].file, seeder[s].hash, seeder[s].item + 1, NoUuid))
      BY <2>15, Shapes DEF Once
    <3> QED BY <2>2, <2>4, <3>2, <3>4, <3>5, MovedTo
  <2> QED BY <1>3, <2>1, <2>5, <2>6, <2>7, <2>8, <2>9, <2>10, <2>11, <2>12, <2>13, <2>14, <2>15 DEF Step
<1>4. disturbed' => AloneInv'
  BY DEF AloneInv
<1> QED BY <1>1, <1>2, <1>3, <1>4 DEF SeedNext

(* What is known stays known.                                               *)
LEMMA KnownStays ==
  ASSUME Once, UNCHANGED directory, \A h \in Hashes : seeding[h] # "none" => seeding'[h] # "none"
  PROVE  \A n : KnownUpTo(n) => KnownUpTo(n)'
<1>1. \A m \in DOMAIN directory : directory[m] \in Hashes
  BY DEF Once, Typed
<1> QED BY <1>1 DEF KnownUpTo

(* Once it is put in its place, a container alone keeps the order, if no    *)
(* file but its own gets known and the others are off.                      *)
LEMMA OrderBy ==
  ASSUME Once, OrderInv, ~disturbed, NEW s \in Seeders,
         \A t \in Seeders : t # s => seeder[t].at = "off",
         \A t \in Seeders : t # s => seeder'[t] = seeder[t],
         UNCHANGED directory, \A h \in Hashes : seeding[h] # "none" => seeding'[h] # "none",
         \A h \in Hashes : seeding'[h] # "none" => seeding[h] # "none"
           \/ \E n \in DOMAIN directory : directory[n] = h /\ KnownUpTo(n),
         InOrder(s)'
  PROVE  OrderInv'
<1>1. \A n : KnownUpTo(n) => KnownUpTo(n)'
  BY KnownStays
<1>2. \A h \in Hashes : seeding'[h] # "none" =>
        \E n \in DOMAIN directory' : directory'[n] = h /\ KnownUpTo(n)'
  BY <1>1 DEF OrderInv
<1>3. \A t \in Seeders : t # s => InOrder(t)'
  BY DEF InOrder, Busy, AtWork
<1> QED BY <1>2, <1>3 DEF OrderInv

(* The files become known in their order, step by step. *)
LEMMA NextOrder ==
  ASSUME Once, Once', AloneInv, OrderInv, [SeedNext]_seedVars
  PROVE  OrderInv'
<1>1. CASE UNCHANGED seedVars
  BY <1>1 DEF OrderInv, InOrder, KnownUpTo, Busy
<1>2. ASSUME NEW n \in DOMAIN directory, Correct(n) PROVE OrderInv'
  BY <1>2 DEF Correct, OrderInv
<1>3. ASSUME NEW s \in Seeders, Step(s) \/ CallFails(s) \/ KeycloakFails(s) \/ Crash(s), ~disturbed'
      PROVE  OrderInv'
  <2> DEFINE p == seeder[s]
  <2>1. /\ ~disturbed /\ ~CallFails(s) /\ ~Crash(s) /\ UNCHANGED directory
        /\ \A t \in Seeders : t # s => seeder[t].at = "off"
    BY <1>3, Undisturbed
  <2>2. InOrder(s) /\ p.file \in Nat
    BY <2>1, PlaceTyped DEF OrderInv, Once
  <2>3. \A m \in DOMAIN directory : m \in 1..Len(directory) /\ directory[m] \in Hashes
    BY DEF Once, Typed
  <2>4. ASSUME UNCHANGED seeding, \A t \in Seeders : t # s => seeder'[t] = seeder[t], InOrder(s)'
        PROVE  OrderInv'
    BY <2>1, <2>4, OrderBy
  <2>5. ASSUME seeder'[s].at = "off" PROVE InOrder(s)'
    BY <2>5 DEF InOrder, Busy, AtWork
  <2>6. CASE Start(s)
    <3>1. seeder'[s].at = "find" /\ seeder'[s].file = 1 /\ \A t \in Seeders : t # s => seeder'[t] = seeder[t]
      BY <2>6, Shapes, MovedTo DEF Once
    <3>2. UNCHANGED seeding
      BY <2>6 DEF Start
    <3>3. InOrder(s)'
      BY <2>1, <2>3, <3>1 DEF InOrder, Busy, AtWork, KnownUpTo
    <3> QED BY <2>4, <3>1, <3>2, <3>3
  <2>7. CASE FindSeed(s)
    <3>1. p.at = "find" /\ p.file >= 1 /\ UNCHANGED seeding
      BY <2>7 DEF Once, WorkInv, Works, FindSeed
    <3>2. CASE Moved(s, Place("off", 0, NoUuid, 0, NoUuid))
      BY <2>4, <2>5, <3>1, <3>2, MovedTo
    <3>3. CASE /\ p.file <= Len(directory) /\ seeding[directory[p.file]] # "none"
               /\ Moved(s, Place("find", p.file + 1, NoUuid, 0, NoUuid))
      <4>1. /\ seeder'[s].at = "find" /\ seeder'[s].file = p.file + 1
            /\ \A t \in Seeders : t # s => seeder'[t] = seeder[t]
        BY <3>3, MovedTo
      <4>2. KnownUpTo(p.file + 1)
        BY <2>2, <2>3, <3>1, <3>3 DEF InOrder, KnownUpTo
      <4>3. \A n : n = p.file + 1 => KnownUpTo(n)'
        BY <2>1, <3>1, <4>2 DEF KnownUpTo
      <4>4. InOrder(s)'
        BY <4>1, <4>3 DEF InOrder, Busy, AtWork, KnownUpTo
      <4> QED BY <2>4, <3>1, <4>1, <4>4
    <3>4. CASE /\ p.file <= Len(directory) /\ seeding[directory[p.file]] = "none"
               /\ Moved(s, Place("create", p.file, directory[p.file], p.item, p.uuid))
      <4>1. /\ seeder'[s].at = "create" /\ seeder'[s].file = p.file /\ seeder'[s].hash = directory[p.file]
            /\ \A t \in Seeders : t # s => seeder'[t] = seeder[t]
        BY <3>4, MovedTo
      <4>2. p.file \in DOMAIN directory
        BY <2>2, <3>1, <3>4 DEF Once, Typed
      <4>3. InOrder(s)'
        BY <2>1, <2>2, <3>1, <3>4, <4>1, <4>2 DEF InOrder, Busy, AtWork, KnownUpTo
      <4> QED BY <2>4, <3>1, <4>1, <4>3
    <3> QED BY <2>7, <3>1, <3>2, <3>3, <3>4, Shapes DEF Once
  <2>8. CASE CreateSeed(s)
    <3>1. CASE UNCHANGED seeding /\ Moved(s, Place("off", 0, NoUuid, 0, NoUuid))
      BY <2>4, <2>5, <3>1, MovedTo
    <3>2. CASE /\ seeding[p.hash] = "none" /\ seeding' = [seeding EXCEPT ![p.hash] = "STARTED"]
               /\ Moved(s, Place("entity", p.file, p.hash, 1, p.uuid))
      <4>0. PICK g, f : g = p.hash /\ f = p.file
        OBVIOUS
      <4>1. /\ seeder'[s].at = "entity" /\ seeder'[s].file = f /\ seeder'[s].hash = g
            /\ \A t \in Seeders : t # s => seeder'[t] = seeder[t]
        BY <3>2, <4>0, MovedTo
      <4>2. /\ f \in DOMAIN directory /\ directory[f] = g /\ KnownUpTo(f) /\ g \in Hashes
            /\ seeding[g] = "none"
        BY <2>2, <2>3, <2>8, <3>2, <4>0 DEF InOrder, CreateSeed
      <4>3. seeding'[g] = "STARTED" /\ \A h \in Hashes : h # g => seeding'[h] = seeding[h]
        BY <3>2, <4>0, <4>2 DEF Once, Typed
      <4>4. \A m \in DOMAIN directory : m < f => directory[m] # g
        BY <4>2 DEF KnownUpTo
      <4>5. ASSUME NEW h \in Hashes, seeding[h] # "none"
            PROVE  \E m \in DOMAIN directory : m < f /\ directory[m] = h
        <5>1. PICK n \in DOMAIN directory : directory[n] = h /\ KnownUpTo(n)
          BY <2>1, <4>5 DEF OrderInv
        <5>2. ~(f < n) /\ n # f
          BY <4>2, <4>5, <5>1 DEF KnownUpTo
        <5>3. n < f
          BY <2>3, <4>2, <5>2
        <5> QED BY <5>1, <5>3
      <4>6. \A h \in Hashes : seeding[h] # "none" => seeding'[h] # "none"
        BY <4>3
      <4>7. KnownUpTo(f)'
        BY <2>1, <4>2, <4>6, KnownStays
      <4>8. InOrder(s)'
        BY <2>1, <4>1, <4>2, <4>3, <4>4, <4>5, <4>7 DEF InOrder
      <4>9. \A h \in Hashes : seeding'[h] # "none" => seeding[h] # "none"
              \/ \E n \in DOMAIN directory : directory[n] = h /\ KnownUpTo(n)
        BY <4>2, <4>3
      <4> QED BY <2>1, <4>1, <4>6, <4>8, <4>9, OrderBy
    <3> QED BY <2>8, <3>1, <3>2, Shapes DEF Once
  <2>9. CASE Done(s) \/ EntityFails(s)
    <3>1. Busy(s)
      BY <2>9 DEF Done, EntityFails, AtEntity, Busy, AtWork
    <3>2. /\ p.hash \in Hashes /\ seeding[p.hash] = "STARTED" /\ directory[p.file] = p.hash
          /\ KnownUpTo(p.file)
      BY <2>2, <3>1 DEF Once, WorkInv, Works, InOrder, Busy, AtWork
    <3>3. /\ \A h \in Hashes : seeding[h] # "none" => seeding'[h] # "none"
          /\ \A h \in Hashes : seeding'[h] # "none" => seeding[h] # "none"
      BY <2>9, <3>2 DEF Done, EntityFails, FileFails, Once, Typed
    <3>4. CASE Done(s)
      <4>0. PICK n : n = p.file + 1
        OBVIOUS
      <4>1. /\ seeder'[s].at = "find" /\ seeder'[s].file = n
            /\ \A t \in Seeders : t # s => seeder'[t] = seeder[t]
        BY <3>4, <4>0, Shapes, MovedTo DEF Once
      <4>2. KnownUpTo(n)
        BY <2>2, <2>3, <3>2, <4>0 DEF KnownUpTo
      <4>3. KnownUpTo(n)'
        BY <2>1, <3>3, <4>2, KnownStays
      <4>4. InOrder(s)'
        BY <4>1, <4>3 DEF InOrder, Busy, AtWork
      <4> QED BY <2>1, <3>3, <4>1, <4>4, OrderBy
    <3>5. CASE EntityFails(s)
      <4>1. seeder'[s].at = "off" /\ \A t \in Seeders : t # s => seeder'[t] = seeder[t]
        BY <3>5, Shapes, MovedTo DEF Once, EntityFails
      <4> QED BY <2>1, <2>5, <3>3, <4>1, OrderBy
    <3> QED BY <2>9, <3>4, <3>5
  <2>10. ASSUME NEW at \in AtWork, NEW item, NEW uuid, Busy(s), UNCHANGED seeding,
                Moved(s, Place(at, p.file, p.hash, item, uuid))
         PROVE  OrderInv'
    <3>1. /\ seeder'[s].at = at /\ seeder'[s].file = p.file /\ seeder'[s].hash = p.hash
          /\ \A t \in Seeders : t # s => seeder'[t] = seeder[t]
      BY <2>10, MovedTo
    <3>2. at \notin {"off", "find", "create"} /\ p.at # "off"
      BY <2>10 DEF AtWork, Busy
    <3>3. InOrder(s)'
      BY <2>1, <2>2, <2>10, <3>1, <3>2 DEF InOrder, KnownUpTo
    <3> QED BY <2>4, <2>10, <3>1, <3>3
  <2>11. CASE SeedEntity(s)
    <3>1. /\ Entity(s) \in Entities /\ Uuid(Entity(s)) \in Int /\ Busy(s) /\ UNCHANGED seeding
      BY <2>11, AtHand, UuidTyped DEF SeedEntity, Once
    <3>2. \/ Moved(s, Place("entity", p.file, p.hash, p.item + 1, NoUuid))
          \/ Moved(s, Place("refer", p.file, p.hash, p.item, Uuid(Entity(s))))
      BY <2>11, <3>1, Stays DEF Once, SeedEntity, AtWork
    <3> QED BY <2>10, <3>1, <3>2 DEF AtWork
  <2>12. CASE ReplaceUser(s)
    <3>1. /\ Entity(s) \in Entities /\ Uuid(Entity(s)) \in Int /\ Busy(s) /\ UNCHANGED seeding
      BY <2>12, AtHand, UuidTyped DEF ReplaceUser, Once
    <3>2. Moved(s, Place("user", p.file, p.hash, p.item, Uuid(Entity(s))))
      BY <2>12, <3>1, Shapes DEF Once
    <3> QED BY <2>10, <3>1, <3>2 DEF AtWork
  <2>13. CASE CreateUser(s)
    <3>1. Busy(s) /\ UNCHANGED seeding
      BY <2>13 DEF CreateUser, Busy, AtWork
    <3>2. Moved(s, Place("commit", p.file, p.hash, p.item, p.uuid))
      BY <2>13, Shapes DEF Once
    <3> QED BY <2>10, <3>1, <3>2 DEF AtWork
  <2>14. CASE PersonRefused(s) \/ KeycloakFails(s)
    <3>1. Busy(s) /\ UNCHANGED seeding /\ Refuse(s)
      BY <2>14 DEF PersonRefused, KeycloakFails, Refuse, Busy, AtWork
    <3>2. Moved(s, Place("entity", p.file, p.hash, p.item + 1, NoUuid))
      BY <3>1, Shapes DEF Once
    <3> QED BY <2>10, <3>1, <3>2 DEF AtWork
  <2>15. CASE CommitPerson(s)
    <3>1. Busy(s) /\ UNCHANGED seeding
      BY <2>15 DEF CommitPerson, Busy, AtWork
    <3>2. Moved(s, Place("refer", p.file, p.hash, p.item, p.uuid))
      BY <2>15, Shapes DEF Once
    <3> QED BY <2>10, <3>1, <3>2 DEF AtWork
  <2>16. CASE SaveReference(s)
    <3>1. Busy(s) /\ UNCHANGED seeding
      BY <2>16 DEF SaveReference, Busy, AtWork
    <3>2. Moved(s, Place("entity", p.file, p.hash, p.item + 1, NoUuid))
      BY <2>16, Shapes DEF Once
    <3> QED BY <2>10, <3>1, <3>2 DEF AtWork
  <2> QED BY <1>3, <2>1, <2>6, <2>7, <2>8, <2>9, <2>11, <2>12, <2>13, <2>14, <2>15, <2>16 DEF Step
<1>4. disturbed' => OrderInv'
  BY DEF OrderInv
<1> QED BY <1>1, <1>2, <1>3, <1>4 DEF SeedNext

(* What a file failed for stays the case: rows come later than it does.     *)
LEMMA UnseedableStays ==
  ASSUME Once, OrderInv, ~disturbed, NEW s \in Seeders, UNCHANGED directory,
         rows' = rows \/ (Busy(s) /\ \E uuid : rows' = rows \union {Row(s, uuid)}),
         NEW h \in Hashes, seeding[h] = "FAILED", NEW i \in DOMAIN Content[h], Unseedable(h, i)
  PROVE  Unseedable(h, i)'
<1>1. \A f : ComesBefore(f, h, i)' <=> ComesBefore(f, h, i)
  BY DEF ComesBefore
<1>2. ASSUME NEW x \in rows' \ rows PROVE x.from # <<h, i>> /\ ~ComesBefore(x.from, h, i)
  <2>1. Busy(s) /\ x.from = <<seeder[s].hash, seeder[s].item>>
    BY <1>2 DEF Row, From
  <2>2. h # seeder[s].hash
    BY <2>1 DEF Once, WorkInv, Works
  <2>3. InOrder(s) /\ seeder[s].file \in Nat
    BY PlaceTyped DEF OrderInv, Once
  <2>4. PICK m \in DOMAIN directory : m < seeder[s].file /\ directory[m] = h
    BY <2>1, <2>2, <2>3 DEF InOrder
  <2>5. \A n \in DOMAIN directory : n \in Int
    BY DEF Once, Typed
  <2>6. ~\E n \in DOMAIN directory : directory[n] = seeder[s].hash /\ n < m
    BY <2>1, <2>3, <2>4, <2>5 DEF InOrder
  <2>7. ~ComesBefore(x.from, h, i)
    BY <2>1, <2>2, <2>4, <2>6 DEF ComesBefore
  <2> QED BY <2>1, <2>2, <2>7
<1>3. Of(h, i)' = Of(h, i)
  BY <1>2 DEF Of
<1>4. CASE \E key \in Content[h][i].refs : \A x \in rows : x.key = key => ~ComesBefore(x.from, h, i)
  BY <1>1, <1>2, <1>4 DEF Unseedable
<1>5. CASE ~\E key \in Content[h][i].refs : \A x \in rows : x.key = key => ~ComesBefore(x.from, h, i)
  BY <1>3, <1>5 DEF Unseedable
<1> QED BY <1>4, <1>5

(* The entity at which a file fails is invalid, has a uuid that is taken    *)
(* already, or refers to what no container has seeded.                      *)
LEMMA FailsForCause ==
  ASSUME Once, AloneInv, ~disturbed, NEW s \in Seeders, EntityFails(s),
         \A t \in Seeders : t # s => seeder[t].at = "off",
         NEW h, NEW i, h = seeder[s].hash, i = seeder[s].item
  PROVE  Unseedable(h, i)
<1> DEFINE e == Entity(s)
<1>1. /\ Busy(s) /\ e = Content[h][i] /\ e \in Entities /\ seeder[s].at # "refer"
      /\ h \in Hashes /\ i \in DOMAIN Content[h] /\ i \in Nat
  BY AtHand DEF EntityFails, Entity, AtEntity
<1>2. \A x \in rows : Referenced(x)
  BY <1>1, AllReferenced
<1>3. Of(h, i) = {}
  <2>1. ASSUME NEW x \in rows, x.from = <<h, i>> PROVE FALSE
    <3>1. PICK g \in Hashes : \E j \in DOMAIN Content[g] : SeededFrom(x, g, j)
      BY <2>1 DEF Once, SeededInv
    <3>2. SeededFrom(x, h, i)
      BY <2>1, <3>1 DEF SeededFrom
    <3> QED BY <1>1, <3>2 DEF SeededFrom
  <2> QED BY <2>1 DEF Of
<1>4. \A x \in rows : x.uuid \in Int /\ x.uuid <= made
  <2>1. ASSUME NEW x \in rows PROVE x.uuid \in Int /\ x.uuid <= made
    <3>1. PICK g \in Hashes : \E j \in DOMAIN Content[g] : SeededFrom(x, g, j)
      BY <2>1 DEF Once, SeededInv
    <3> QED BY <3>1 DEF SeededFrom
  <2> QED BY <2>1
<1>5. CASE ~e.valid
  BY <1>1, <1>5 DEF Unseedable
<1>6. ASSUME NEW key \in e.refs, ~Found(key) PROVE Unseedable(h, i)
  <2>1. key[1] # "KONTEXT"
    BY <1>1, <1>6 DEF Entities
  <2>2. ASSUME NEW x \in rows, x.key = key PROVE FALSE
    <3>1. [key |-> x.key, uuid |-> x.uuid] \in reference
      BY <1>2, <2>1, <2>2 DEF Referenced
    <3> QED BY <1>6, <2>2, <3>1 DEF Found
  <2> QED BY <1>1, <1>6, <2>2 DEF Unseedable
<1>7. CASE e.override # NoUuid
  BY <1>1, <1>3, <1>7 DEF Unseedable
<1>8. ASSUME e.override = NoUuid, Taken(Uuid(e)) PROVE FALSE
  <2>1. Uuid(e) = made + 1 /\ made \in Nat
    BY <1>8 DEF Uuid, Once, Typed
  <2> QED BY <1>4, <1>8, <2>1 DEF Taken
<1>9. ASSUME e.override = NoUuid, seeder[s].at = "commit", Taken(seeder[s].uuid) PROVE FALSE
  BY <1>9 DEF AloneInv, Fresh, Taken
<1> QED BY <1>5, <1>6, <1>7, <1>8, <1>9 DEF EntityFails, Acceptable

(* A FAILED row keeps the entity that could not be seeded, step by step. *)
LEMMA NextFailed ==
  ASSUME Once, AloneInv, OrderInv, FailedInv, [SeedNext]_seedVars
  PROVE  FailedInv'
<1>1. CASE UNCHANGED seedVars
  <2>1. \A f, h, i : (ComesBefore(f, h, i)' <=> ComesBefore(f, h, i)) /\ Of(h, i)' = Of(h, i)
    BY <1>1 DEF ComesBefore, Of
  <2>2. \A h, i : Unseedable(h, i)' <=> Unseedable(h, i)
    BY <1>1, <2>1 DEF Unseedable
  <2> QED BY <1>1, <2>2 DEF FailedInv
<1>2. ASSUME NEW n \in DOMAIN directory, Correct(n) PROVE FailedInv'
  BY <1>2 DEF Correct, FailedInv
<1>3. ASSUME NEW s \in Seeders, Step(s) \/ CallFails(s) \/ KeycloakFails(s) \/ Crash(s), ~disturbed'
      PROVE  FailedInv'
  <2>1. /\ ~disturbed /\ ~CallFails(s) /\ ~Crash(s) /\ UNCHANGED directory
        /\ \A t \in Seeders : t # s => seeder[t].at = "off"
    BY <1>3, Undisturbed
  <2>2. \A h \in Hashes : seeding[h] = "FAILED" => \E i \in DOMAIN Content[h] : Unseedable(h, i)
    BY <2>1 DEF FailedInv
  <2>3. rows' = rows \/ (Busy(s) /\ \E uuid : rows' = rows \union {Row(s, uuid)})
    <3>1. SeedEntity(s) => Busy(s) /\ \E uuid : rows' = rows \union {Row(s, uuid)}
      BY DEF SeedEntity, AtEntity, Busy, AtWork
    <3>2. CommitPerson(s) => Busy(s) /\ \E uuid : rows' = rows \union {Row(s, uuid)}
      BY DEF CommitPerson, Busy, AtWork
    <3> QED BY <1>3, <2>1, <3>1, <3>2
        DEF Step, Start, FindSeed, CreateSeed, Done, ReplaceUser, CreateUser, PersonRefused,
            SaveReference, EntityFails, FileFails, KeycloakFails, Refuse
  <2>4. ASSUME NEW h \in Hashes, seeding[h] = "FAILED" PROVE \E i \in DOMAIN Content[h] : Unseedable(h, i)'
    <3>1. PICK i \in DOMAIN Content[h] : Unseedable(h, i)
      BY <2>2, <2>4
    <3> QED BY <2>1, <2>3, <2>4, <3>1, UnseedableStays
  <2>5. CASE ~EntityFails(s)
    <3>1. \A h \in Hashes : seeding'[h] = "FAILED" => seeding[h] = "FAILED"
      <4>1. UNCHANGED seeding \/ CreateSeed(s) \/ Done(s)
        BY <1>3, <2>1, <2>5 DEF Step, Start, FindSeed, SeedEntity, ReplaceUser, CreateUser, PersonRefused,
           CommitPerson, SaveReference, KeycloakFails, Refuse
      <4> QED BY <4>1 DEF CreateSeed, Done, Once, Typed
    <3> QED BY <2>4, <3>1 DEF FailedInv
  <2>6. CASE EntityFails(s)
    <3>1. PICK g, j : g = seeder[s].hash /\ j = seeder[s].item
      OBVIOUS
    <3>2. /\ Unseedable(g, j) /\ j \in DOMAIN Content[g]
      BY <2>1, <2>6, <3>1, FailsForCause, AtHand DEF EntityFails
    <3>3. UNCHANGED <<rows, directory>> /\ seeding' = [seeding EXCEPT ![g] = "FAILED"]
      BY <2>6, <3>1 DEF EntityFails, FileFails
    <3>4. Unseedable(g, j)'
      BY <3>2, <3>3 DEF Unseedable, ComesBefore, Of
    <3>5. \A h \in Hashes : seeding'[h] = "FAILED" => seeding[h] = "FAILED" \/ h = g
      BY <3>3 DEF Once, Typed
    <3> QED BY <2>4, <3>2, <3>4, <3>5 DEF FailedInv
  <2> QED BY <2>5, <2>6
<1>4. disturbed' => FailedInv'
  BY DEF FailedInv
<1> QED BY <1>1, <1>2, <1>3, <1>4 DEF SeedNext

-----------------------------------------------------------------------------
(* The theorem                                                             *)

Inv == Once /\ AppliedInv /\ AloneInv /\ OrderInv /\ FailedInv

(* The invariant holds of the empty database ... *)
LEMMA InitInv == SeedInit => Inv
<1> SUFFICES ASSUME SeedInit PROVE Inv
  OBVIOUS
<1>1. \A s \in Seeders : seeder[s].at = "off"
  BY DEF SeedInit, Off
<1>2. /\ rows = {} /\ \A h \in Hashes : seeding[h] = "none"
  BY DEF SeedInit
<1>3. AppliedInv
  BY <1>1, <1>2 DEF AppliedInv, AppliedUpTo, UserThere, Busy, AtWork
<1>4. AloneInv
  BY <1>1, <1>2 DEF AloneInv, Lonely, Fresh
<1>5. OrderInv
  BY <1>1, <1>2 DEF OrderInv, InOrder, Busy, AtWork
<1>6. FailedInv
  BY <1>2 DEF FailedInv
<1> QED BY <1>3, <1>4, <1>5, <1>6, InitOnce DEF Inv

(* ... and every step keeps it. *)
LEMMA NextInv == Inv /\ [SeedNext]_seedVars => Inv'
BY NextOnce, NextApplied, NextAlone, NextOrder, NextFailed DEF Inv

(* For any files, containers and failures: no entity comes into being       *)
(* twice, a file that is DONE is in the tables, and one that FAILED did so  *)
(* for a cause that is in the files.                                        *)
THEOREM StatusIsTrue == SeedSpec => []StatusTellsTruth
<1>1. Inv => StatusTellsTruth
  <2> SUFFICES ASSUME Inv, NEW h \in Hashes
               PROVE  /\ \A i \in DOMAIN Content[h] : Cardinality(Of(h, i)) <= 1
                      /\ seeding[h] = "DONE" => \A i \in DOMAIN Content[h] : Applied(h, i)
                      /\ seeding[h] = "FAILED" /\ ~disturbed => \E i \in DOMAIN Content[h] : Unseedable(h, i)
    BY DEF StatusTellsTruth
  <2>1. ASSUME NEW i \in DOMAIN Content[h] PROVE Cardinality(Of(h, i)) <= 1
    <3>1. \A x, y \in Of(h, i) : x = y
      BY DEF Inv, Once, SeededInv, Of
    <3>2. CASE Of(h, i) = {}
      BY <3>2, FS_EmptySet
    <3>3. ASSUME NEW x \in Of(h, i) PROVE Cardinality(Of(h, i)) <= 1
      <4>1. Of(h, i) = {x}
        BY <3>1, <3>3
      <4> QED BY <4>1, FS_Singleton
    <3> QED BY <3>2, <3>3
  <2> QED BY <2>1 DEF Inv, AppliedInv, FailedInv
<1> QED BY InitInv, NextInv, <1>1, PTL DEF SeedSpec

-----------------------------------------------------------------------------
(* Imports                                                                 *)

USE ImportAssumption DEF Procs

(* The groups of variables, for the frame of an action.                    *)
USE DEF vars, table, handler, run, Go, RowDone, Forget

-----------------------------------------------------------------------------
(* Type correctness                                                        *)

(* The program starts with nothing uploaded and nothing in progress.        *)
LEMMA InitTyped == Init => TypeOK
BY DEF Init, TypeOK, Steps, ImportStatus, ImportDataItemStatus, Personen

(* Writing a status, or not because it is the one read, keeps the type.     *)
LEMMA SavedTyped ==
  ASSUME TypeOK, NEW p \in Procs, NEW s \in ImportStatus
  PROVE  Saved(p, s) \in [Vorgaenge -> ImportStatus \union {"none"}]
BY DEF TypeOK, Saved

(* Every action keeps the types.                                            *)
LEMMA NextTyped == TypeOK /\ [Next]_vars => TypeOK'
<1> SUFFICES ASSUME TypeOK, [Next]_vars PROVE TypeOK'
  OBVIOUS
<1> USE DEF Steps
<1>s. /\ {"STARTED", "VALID", "INVALID", "INPROGRESS", "FINISHED", "FAILED",
          "COMPLETED", "CANCELLED"} \subseteq ImportStatus
      /\ {"PENDING", "SUCCESS", "FAILED"} \subseteq ImportDataItemStatus
  BY DEF ImportStatus, ImportDataItemStatus
<1>1. ASSUME NEW v \in Vorgaenge, UploadStart(v) PROVE TypeOK'
  BY <1>1, <1>s DEF UploadStart, TypeOK
<1>2. ASSUME NEW v \in Vorgaenge, UploadChunk(v) PROVE TypeOK'
  BY <1>2, <1>s DEF UploadChunk, TypeOK
<1>3. ASSUME NEW v \in Vorgaenge, UploadDone(v) PROVE TypeOK'
  BY <1>3, <1>s DEF UploadDone, TypeOK
<1>4. ASSUME NEW v \in Vorgaenge, UploadAborts(v) PROVE TypeOK'
  BY <1>4 DEF UploadAborts, TypeOK
<1>5. ASSUME NEW r \in Runs, NEW v \in Vorgaenge, ExecuteFind(r, v) PROVE TypeOK'
  BY <1>5 DEF ExecuteFind, Begin, TypeOK
<1>6. ASSUME NEW r \in Runs, ExecuteSave(r) PROVE TypeOK'
  <2>1. Saved(r, "INPROGRESS") \in [Vorgaenge -> ImportStatus \union {"none"}]
    BY <1>s, SavedTyped
  <2>2. selected' \in Vorgaenge \union {NoVorgang}
    BY <1>6 DEF ExecuteSave, TypeOK
  <2>3. crossed' \in SUBSET Runs
    BY <1>6 DEF ExecuteSave, TypeOK, InFlight
  <2>4. pc' \in [Procs -> Steps] /\ base' \in [Procs -> ImportStatus \union {"none"}]
    BY <1>6, <1>s DEF ExecuteSave, TypeOK
  <2> QED
    BY <1>6, <2>1, <2>2, <2>3, <2>4 DEF ExecuteSave, TypeOK
<1>7. ASSUME NEW r \in Runs, ReadItems(r) PROVE TypeOK'
  BY <1>7 DEF ReadItems, Stored, ItemsOf, TypeOK
<1>8. ASSUME NEW r \in Runs, ImportItem(r) PROVE TypeOK'
  <2>1. PICK i \in todo[r] :
          /\ todo' = [todo EXCEPT ![r] = @ \ {i}]
          /\ current' = [current EXCEPT ![r] = i]
          /\ \/ imported' = [imported EXCEPT ![r] = FALSE] /\ UNCHANGED persons
             \/ \E a \in BOOLEAN :
                  /\ imported' = [imported EXCEPT ![r] = a]
                  /\ persons' = [persons EXCEPT ![i] =
                       @ \union {[run |-> r, selected |-> selected, assigned |-> a]}]
    BY <1>8 DEF ImportItem
  <2>2. \A a \in BOOLEAN : [run |-> r, selected |-> selected, assigned |-> a] \in Personen
    BY DEF TypeOK, Personen
  <2>3. imported' \in [Procs -> BOOLEAN]
    BY <2>1 DEF TypeOK
  <2>4. persons' \in [Items -> SUBSET Personen]
    BY <2>1, <2>2 DEF TypeOK
  <2> QED
    BY <1>8, <2>1, <2>3, <2>4 DEF ImportItem, TypeOK
<1>9. ASSUME NEW r \in Runs, SaveItem(r) PROVE TypeOK'
  <2>1. row' \in [Items -> ImportDataItemStatus \union {"none"}]
    BY <1>9, <1>s DEF SaveItem, TypeOK
  <2>2. success' \in [Procs -> BOOLEAN]
    BY <1>9 DEF SaveItem, TypeOK
  <2> QED
    BY <1>9, <2>1, <2>2 DEF SaveItem, TypeOK
<1>10. ASSUME NEW r \in Runs, SaveItemFails(r) PROVE TypeOK'
  <2>1. row' \in [Items -> ImportDataItemStatus \union {"none"}]
    BY <1>10, <1>s DEF SaveItemFails, TypeOK
  <2> QED
    BY <1>10, <2>1 DEF SaveItemFails, TypeOK
<1>11. ASSUME NEW r \in Runs, Finish(r) PROVE TypeOK'
  <2>1. Saved(r, IF success[r] THEN "FINISHED" ELSE "FAILED")
          \in [Vorgaenge -> ImportStatus \union {"none"}]
    BY <1>s, SavedTyped
  <2> QED
    BY <1>11, <2>1 DEF Finish, TypeOK
<1>12. ASSUME NEW c \in Closings, NEW v \in Vorgaenge, CancelFind(c, v) PROVE TypeOK'
  BY <1>12 DEF CancelFind, Begin, TypeOK
<1>13. ASSUME NEW c \in Closings, NEW v \in Vorgaenge, DownloadFind(c, v) PROVE TypeOK'
  BY <1>13 DEF DownloadFind, Begin, TypeOK
<1>14. ASSUME NEW c \in Closings, DownloadItems(c) PROVE TypeOK'
  <2>1. pc' \in [Procs -> Steps]
    BY <1>14 DEF DownloadItems, TypeOK
  <2>2. success' \in [Procs -> BOOLEAN]
    BY <1>14 DEF DownloadItems, TypeOK
  <2> QED
    BY <1>14, <2>1, <2>2 DEF DownloadItems, TypeOK
<1>15. ASSUME NEW c \in Closings, DeleteItems(c) PROVE TypeOK'
  BY <1>15 DEF DeleteItems, TypeOK
<1>16. ASSUME NEW c \in Closings, SaveStatus(c) PROVE TypeOK'
  <2> DEFINE s == IF success[c] THEN "FAILED"
                  ELSE IF base[c] = "FINISHED" THEN "COMPLETED" ELSE "CANCELLED"
  <2>1. s \in ImportStatus
    BY <1>s
  <2>2. Saved(c, s) \in [Vorgaenge -> ImportStatus \union {"none"}]
    BY <2>1, SavedTyped
  <2> QED
    BY <1>16, <2>2 DEF SaveStatus, TypeOK
<1>17. ASSUME NEW p \in Procs, Abort(p) PROVE TypeOK'
  BY <1>17 DEF Abort, TypeOK
<1>18. CASE UNCHANGED vars
  BY <1>18 DEF TypeOK
<1> QED
  BY <1>1, <1>2, <1>3, <1>4, <1>5, <1>6, <1>7, <1>8, <1>9, <1>10, <1>11, <1>12,
     <1>13, <1>14, <1>15, <1>16, <1>17, <1>18 DEF Next, Handle

(* Every reachable state is type correct.                                   *)
THEOREM ImportTyped == Spec => []TypeOK
BY InitTyped, NextTyped, PTL DEF Spec

-----------------------------------------------------------------------------
(* No row is shown as imported without its person.                          *)

(* What a run is about to save as imported has its person: the only state   *)
(* between creating the person and saving the row.                          *)
PersonBeforeSave ==
  \A r \in Runs : (pc[r] = "save" /\ imported[r])
                    => current[r] \in Items /\ \E p \in persons[current[r]] : p.assigned

PersonInv == TypeOK /\ PersonBeforeSave /\ SuccessHasPerson

(* Persons are only ever added.                                             *)
LEMMA PersonsStay ==
  ASSUME TypeOK, [Next]_vars, NEW i \in Items
  PROVE  persons[i] \subseteq persons'[i]
<1>1. ASSUME NEW r \in Runs, ImportItem(r) PROVE persons[i] \subseteq persons'[i]
  BY <1>1 DEF ImportItem, TypeOK
<1>2. CASE UNCHANGED persons
  BY <1>2
<1> QED
  BY <1>1, <1>2 DEF Next, Handle, UploadStart, UploadChunk, UploadDone, UploadAborts,
    ExecuteFind, ExecuteSave, ReadItems, SaveItem, SaveItemFails, Finish, CancelFind,
    DownloadFind, DownloadItems, DeleteItems, SaveStatus, Abort

(* A run reaches the saving of a row by importing it, and holds it there.   *)
LEMMA SaveFrame ==
  ASSUME TypeOK, [Next]_vars, NEW r \in Runs, pc'[r] = "save", ~ImportItem(r)
  PROVE  pc[r] = "save" /\ UNCHANGED <<imported[r], current[r]>>
<1> USE DEF TypeOK
<1>1. ASSUME NEW v \in Vorgaenge,
             UploadStart(v) \/ UploadChunk(v) \/ UploadDone(v) \/ UploadAborts(v)
      PROVE  pc[r] = "save" /\ UNCHANGED <<imported[r], current[r]>>
  BY <1>1 DEF UploadStart, UploadChunk, UploadDone, UploadAborts
<1>2. ASSUME NEW q \in Runs, (\E v \in Vorgaenge : ExecuteFind(q, v)) \/ ExecuteSave(q) \/ ReadItems(q)
      PROVE  pc[r] = "save" /\ UNCHANGED <<imported[r], current[r]>>
  BY <1>2 DEF ExecuteFind, Begin, ExecuteSave, ReadItems
<1>3. ASSUME NEW q \in Runs, ImportItem(q)
      PROVE  pc[r] = "save" /\ UNCHANGED <<imported[r], current[r]>>
  <2>1. q # r
    BY <1>3
  <2> QED
    BY <1>3, <2>1 DEF ImportItem
<1>4. ASSUME NEW q \in Runs, SaveItem(q) \/ SaveItemFails(q) \/ Finish(q)
      PROVE  pc[r] = "save" /\ UNCHANGED <<imported[r], current[r]>>
  BY <1>4 DEF SaveItem, SaveItemFails, Finish
<1>5. ASSUME NEW c \in Closings, NEW v \in Vorgaenge, CancelFind(c, v) \/ DownloadFind(c, v)
      PROVE  pc[r] = "save" /\ UNCHANGED <<imported[r], current[r]>>
  BY <1>5 DEF CancelFind, DownloadFind, Begin
<1>6. ASSUME NEW c \in Closings, DownloadItems(c) \/ DeleteItems(c) \/ SaveStatus(c)
      PROVE  pc[r] = "save" /\ UNCHANGED <<imported[r], current[r]>>
  BY <1>6 DEF DownloadItems, DeleteItems, SaveStatus
<1>7. ASSUME NEW p \in Procs, Abort(p)
      PROVE  pc[r] = "save" /\ UNCHANGED <<imported[r], current[r]>>
  BY <1>7 DEF Abort
<1>8. CASE UNCHANGED vars
  BY <1>8
<1> QED
  BY <1>1, <1>2, <1>3, <1>4, <1>5, <1>6, <1>7, <1>8 DEF Next, Handle

(* Only saving an imported row makes it say SUCCESS.                        *)
LEMMA SuccessFrame ==
  ASSUME TypeOK, [Next]_vars, NEW i \in Items, row[i] # "SUCCESS", row'[i] = "SUCCESS"
  PROVE  \E r \in Runs : SaveItem(r) /\ current[r] = i /\ imported[r]
<1> USE DEF TypeOK
<1>1. ASSUME NEW v \in Vorgaenge, UploadChunk(v) PROVE FALSE
  BY <1>1 DEF UploadChunk
<1>2. ASSUME NEW r \in Runs, SaveItem(r) PROVE current[r] = i /\ imported[r]
  BY <1>2 DEF SaveItem
<1>3. ASSUME NEW r \in Runs, SaveItemFails(r) PROVE FALSE
  BY <1>3 DEF SaveItemFails
<1>4. ASSUME NEW c \in Closings, DeleteItems(c) PROVE FALSE
  BY <1>4 DEF DeleteItems
<1> QED
  BY <1>1, <1>2, <1>3, <1>4 DEF Next, Handle, UploadStart, UploadDone, UploadAborts,
    ExecuteFind, ExecuteSave, ReadItems, ImportItem, Finish, CancelFind, DownloadFind,
    DownloadItems, SaveStatus, Abort

(* However imports are executed, repeated, cancelled and interrupted, a row *)
(* that says SUCCESS has a person with its Kontexte.                        *)
THEOREM RowsTellTheTruth == Spec => []SuccessHasPerson
<1>1. Init => PersonInv
  BY InitTyped DEF Init, PersonInv, PersonBeforeSave, SuccessHasPerson
<1>2. PersonInv /\ [Next]_vars => PersonInv'
  <2> SUFFICES ASSUME PersonInv, [Next]_vars PROVE PersonInv'
    OBVIOUS
  <2>1. TypeOK /\ TypeOK'
    BY NextTyped DEF PersonInv
  <2>2. \A i \in Items : persons[i] \subseteq persons'[i]
    BY <2>1, PersonsStay
  <2>3. PersonBeforeSave'
    <3> SUFFICES ASSUME NEW r \in Runs, pc'[r] = "save", imported'[r]
                 PROVE  current'[r] \in Items /\ \E p \in persons'[current'[r]] : p.assigned
      BY DEF PersonBeforeSave
    <3>1. CASE ImportItem(r)
      <4>1. PICK i \in todo[r] :
              /\ current' = [current EXCEPT ![r] = i]
              /\ \/ imported' = [imported EXCEPT ![r] = FALSE]
                 \/ \E a \in BOOLEAN :
                      /\ imported' = [imported EXCEPT ![r] = a]
                      /\ persons' = [persons EXCEPT ![i] =
                           @ \union {[run |-> r, selected |-> selected, assigned |-> a]}]
        BY <3>1 DEF ImportItem
      <4>2. i \in Items /\ current'[r] = i
        BY <2>1, <4>1 DEF TypeOK
      <4>3. PICK a \in BOOLEAN :
              /\ imported' = [imported EXCEPT ![r] = a]
              /\ persons' = [persons EXCEPT ![i] =
                   @ \union {[run |-> r, selected |-> selected, assigned |-> a]}]
        BY <2>1, <4>1 DEF TypeOK
      <4>4. a = TRUE
        BY <2>1, <4>3 DEF TypeOK
      <4>5. [run |-> r, selected |-> selected, assigned |-> TRUE] \in persons'[i]
        BY <2>1, <4>2, <4>3, <4>4 DEF TypeOK
      <4> QED
        BY <4>2, <4>5
    <3>2. CASE ~ImportItem(r)
      <4>1. pc[r] = "save" /\ UNCHANGED <<imported[r], current[r]>>
        BY <2>1, <3>2, SaveFrame
      <4> QED
        BY <2>2, <4>1 DEF PersonInv, PersonBeforeSave
    <3> QED
      BY <3>1, <3>2
  <2>4. SuccessHasPerson'
    <3> SUFFICES ASSUME NEW i \in Items, row'[i] = "SUCCESS"
                 PROVE  \E p \in persons'[i] : p.assigned
      BY DEF SuccessHasPerson
    <3>1. CASE row[i] = "SUCCESS"
      BY <2>2, <3>1 DEF PersonInv, SuccessHasPerson
    <3>2. CASE row[i] # "SUCCESS"
      <4>1. PICK r \in Runs : SaveItem(r) /\ current[r] = i /\ imported[r]
        BY <2>1, <3>2, SuccessFrame
      <4> QED
        BY <2>2, <4>1 DEF SaveItem, PersonInv, PersonBeforeSave
    <3> QED
      BY <3>1, <3>2
  <2> QED
    BY <2>1, <2>3, <2>4 DEF PersonInv
<1>3. PersonInv => SuccessHasPerson
  BY DEF PersonInv
<1> QED
  BY <1>1, <1>2, <1>3, PTL DEF Spec

-----------------------------------------------------------------------------
(* A completed import holds no row, a finished one no untried row.          *)

(* A request is about an import whose upload is over.                       *)
AboutKnown == \A p \in Procs : pc[p] # "idle" => of[p] \in Vorgaenge /\ Known(of[p])
(* A request that will write COMPLETED has deleted the rows.                *)
DeletedFirst == \A c \in Closings : (pc[c] = "status" /\ ~success[c]) => Stored(of[c]) = {}
(* The rows a run has not tried are those it has yet to try.                *)
Untried ==
  \A r \in Runs : pc[r] \in {"next", "save"} =>
    \A i \in ItemsOf(of[r]) : row[i] = "PENDING"
       => i \in todo[r] \/ (pc[r] = "save" /\ i = current[r])
(* Neither status is reached before the upload is over.                     *)
OverKnown == \A v \in Vorgaenge : status[v] \in {"COMPLETED", "FINISHED"} => Known(v)

RowInv == TypeOK /\ AboutKnown /\ DeletedFirst /\ Untried /\ OverKnown
            /\ CompletedHoldsNothing /\ FinishedIsComplete

(* After its upload an import gains no row, and no row becomes PENDING.     *)
LEMMA NoNewRows ==
  ASSUME TypeOK, [Next]_vars, NEW v \in Vorgaenge, Known(v)
  PROVE  /\ Known(v)'
         /\ \A i \in ItemsOf(v) : /\ row[i] = "none" => row'[i] = "none"
                                  /\ row'[i] = "PENDING" => row[i] = "PENDING"
<1> USE DEF TypeOK, Known, ItemsOf
<1>1. ASSUME NEW w \in Vorgaenge,
             UploadStart(w) \/ UploadChunk(w) \/ UploadDone(w) \/ UploadAborts(w)
      PROVE  /\ Known(v)'
             /\ \A i \in ItemsOf(v) : /\ row[i] = "none" => row'[i] = "none"
                                      /\ row'[i] = "PENDING" => row[i] = "PENDING"
  <2>1. w # v \/ UploadAborts(w) \/ UploadDone(w)
    BY <1>1 DEF UploadStart, UploadChunk
  <2> QED
    BY <1>1, <2>1 DEF UploadStart, UploadChunk, UploadDone, UploadAborts, Unstored
<1>2. ASSUME NEW r \in Runs, SaveItem(r) \/ SaveItemFails(r)
      PROVE  /\ Known(v)'
             /\ \A i \in ItemsOf(v) : /\ row[i] = "none" => row'[i] = "none"
                                      /\ row'[i] = "PENDING" => row[i] = "PENDING"
  BY <1>2 DEF SaveItem, SaveItemFails
<1>3. ASSUME NEW c \in Closings, DeleteItems(c)
      PROVE  /\ Known(v)'
             /\ \A i \in ItemsOf(v) : /\ row[i] = "none" => row'[i] = "none"
                                      /\ row'[i] = "PENDING" => row[i] = "PENDING"
  BY <1>3 DEF DeleteItems
<1> QED
  BY <1>1, <1>2, <1>3 DEF Next, Handle, ExecuteFind, ExecuteSave, ReadItems, ImportItem,
    Finish, CancelFind, DownloadFind, DownloadItems, SaveStatus, Abort

(* A request keeps its import, from a beginning when that one is known.     *)
LEMMA OfFrame ==
  ASSUME TypeOK, [Next]_vars, NEW p \in Procs, pc'[p] # "idle"
  PROVE  \/ pc[p] # "idle" /\ of'[p] = of[p]
         \/ of'[p] \in Vorgaenge /\ Known(of'[p])
<1> DEFINE G == \/ pc[p] # "idle" /\ of'[p] = of[p]
                \/ of'[p] \in Vorgaenge /\ Known(of'[p])
<1> USE DEF TypeOK
<1>1. ASSUME NEW v \in Vorgaenge,
             UploadStart(v) \/ UploadChunk(v) \/ UploadDone(v) \/ UploadAborts(v)
      PROVE  G
  BY <1>1 DEF UploadStart, UploadChunk, UploadDone, UploadAborts
<1>2. ASSUME NEW q \in Procs, NEW v \in Vorgaenge, NEW t, Begin(q, v, t) PROVE G
  BY <1>2 DEF Begin
<1>3. ASSUME NEW r \in Runs, Handle(r) PROVE G
  BY <1>3 DEF Handle, ExecuteSave, ReadItems, ImportItem, SaveItem, SaveItemFails, Finish
<1>4. ASSUME NEW c \in Closings, DownloadItems(c) \/ DeleteItems(c) \/ SaveStatus(c)
      PROVE  G
  BY <1>4 DEF DownloadItems, DeleteItems, SaveStatus
<1>5. ASSUME NEW q \in Procs, Abort(q) PROVE G
  BY <1>5 DEF Abort
<1>6. CASE UNCHANGED vars
  BY <1>6
<1> QED
  BY <1>1, <1>2, <1>3, <1>4, <1>5, <1>6 DEF Next, ExecuteFind, CancelFind, DownloadFind

(* A request comes to write COMPLETED by deleting the rows.                 *)
LEMMA ClosingFrame ==
  ASSUME TypeOK, [Next]_vars, NEW c \in Closings, pc'[c] = "status", ~success'[c]
  PROVE  \/ pc[c] = "status" /\ ~success[c] /\ of'[c] = of[c]
         \/ DeleteItems(c)
<1> DEFINE G == \/ pc[c] = "status" /\ ~success[c] /\ of'[c] = of[c]
                \/ DeleteItems(c)
<1> USE DEF TypeOK
<1>1. ASSUME NEW v \in Vorgaenge,
             UploadStart(v) \/ UploadChunk(v) \/ UploadDone(v) \/ UploadAborts(v)
      PROVE  G
  BY <1>1 DEF UploadStart, UploadChunk, UploadDone, UploadAborts
<1>2. ASSUME NEW r \in Runs, NEW v \in Vorgaenge, ExecuteFind(r, v) PROVE G
  BY <1>2 DEF ExecuteFind, Begin
<1>3. ASSUME NEW r \in Runs, Handle(r) PROVE G
  BY <1>3 DEF Handle, ExecuteSave, ReadItems, ImportItem, SaveItem, SaveItemFails, Finish
<1>4. ASSUME NEW d \in Closings, NEW v \in Vorgaenge, CancelFind(d, v) \/ DownloadFind(d, v)
      PROVE  G
  BY <1>4 DEF CancelFind, DownloadFind, Begin
<1>5. ASSUME NEW d \in Closings, DownloadItems(d) \/ DeleteItems(d) \/ SaveStatus(d)
      PROVE  G
  <2>1. CASE d = c
    BY <1>5, <2>1 DEF DownloadItems, SaveStatus
  <2>2. CASE d # c
    BY <1>5, <2>2 DEF DownloadItems, DeleteItems, SaveStatus
  <2> QED
    BY <2>1, <2>2
<1>6. ASSUME NEW q \in Procs, Abort(q) PROVE G
  BY <1>6 DEF Abort
<1>7. CASE UNCHANGED vars
  BY <1>7
<1> QED
  BY <1>1, <1>2, <1>3, <1>4, <1>5, <1>6, <1>7 DEF Next

(* A run works off its rows by its own steps only.                          *)
LEMMA RunFrame ==
  ASSUME TypeOK, [Next]_vars, NEW r \in Runs, pc'[r] \in {"next", "save"}
  PROVE  \/ UNCHANGED <<pc[r], of[r], todo[r], current[r]>>
         \/ ReadItems(r) \/ ImportItem(r) \/ SaveItem(r) \/ SaveItemFails(r)
<1> DEFINE G == \/ UNCHANGED <<pc[r], of[r], todo[r], current[r]>>
                \/ ReadItems(r) \/ ImportItem(r) \/ SaveItem(r) \/ SaveItemFails(r)
<1> USE DEF TypeOK
<1>1. ASSUME NEW v \in Vorgaenge,
             UploadStart(v) \/ UploadChunk(v) \/ UploadDone(v) \/ UploadAborts(v)
      PROVE  G
  BY <1>1 DEF UploadStart, UploadChunk, UploadDone, UploadAborts
<1>2. ASSUME NEW q \in Runs, NEW v \in Vorgaenge, ExecuteFind(q, v) PROVE G
  BY <1>2 DEF ExecuteFind, Begin
<1>3. ASSUME NEW q \in Runs, Handle(q) PROVE G
  <2>1. CASE q = r
    BY <1>3, <2>1 DEF Handle, ExecuteSave, Finish
  <2>2. CASE q # r
    BY <1>3, <2>2 DEF Handle, ExecuteSave, ReadItems, ImportItem, SaveItem, SaveItemFails, Finish
  <2> QED
    BY <2>1, <2>2
<1>4. ASSUME NEW d \in Closings, NEW v \in Vorgaenge, CancelFind(d, v) \/ DownloadFind(d, v)
      PROVE  G
  BY <1>4 DEF CancelFind, DownloadFind, Begin
<1>5. ASSUME NEW d \in Closings, DownloadItems(d) \/ DeleteItems(d) \/ SaveStatus(d)
      PROVE  G
  BY <1>5 DEF DownloadItems, DeleteItems, SaveStatus
<1>6. ASSUME NEW q \in Procs, Abort(q) PROVE G
  BY <1>6 DEF Abort
<1>7. CASE UNCHANGED vars
  BY <1>7
<1> QED
  BY <1>1, <1>2, <1>3, <1>4, <1>5, <1>6, <1>7 DEF Next

(* COMPLETED is written by a closing request, FINISHED by a run.            *)
LEMMA StatusFrame ==
  ASSUME TypeOK, [Next]_vars, NEW v \in Vorgaenge, status'[v] # status[v],
         status'[v] \in {"COMPLETED", "FINISHED"}
  PROVE  \/ status'[v] = "COMPLETED" /\ \E c \in Closings :
                SaveStatus(c) /\ of[c] = v /\ ~success[c]
         \/ status'[v] = "FINISHED" /\ \E r \in Runs : Finish(r) /\ of[r] = v
<1> USE DEF TypeOK
<1>1. ASSUME NEW w \in Vorgaenge, UploadStart(w) \/ UploadDone(w) PROVE FALSE
  BY <1>1 DEF UploadStart, UploadDone
<1>2. ASSUME NEW r \in Runs, ExecuteSave(r) PROVE FALSE
  BY <1>2 DEF ExecuteSave, Saved
<1>3. ASSUME NEW r \in Runs, Finish(r) PROVE status'[v] = "FINISHED" /\ of[r] = v
  BY <1>3 DEF Finish, Saved
<1>4. ASSUME NEW c \in Closings, SaveStatus(c)
      PROVE  status'[v] = "COMPLETED" /\ of[c] = v /\ ~success[c]
  BY <1>4 DEF SaveStatus, Saved
<1> QED
  BY <1>1, <1>2, <1>3, <1>4 DEF Next, Handle, UploadChunk, UploadAborts, ExecuteFind,
    ReadItems, ImportItem, SaveItem, SaveItemFails, CancelFind, DownloadFind,
    DownloadItems, DeleteItems, Abort

(* No request has begun and no import is stored.                            *)
LEMMA RowInvInit == Init => RowInv
<1> SUFFICES ASSUME Init PROVE RowInv
  OBVIOUS
<1>1. /\ \A p \in Procs : pc[p] = "idle"
      /\ \A v \in Vorgaenge : status[v] = "none"
  BY DEF Init
<1>2. AboutKnown /\ DeletedFirst /\ Untried
  BY <1>1 DEF AboutKnown, DeletedFirst, Untried
<1>3. OverKnown /\ CompletedHoldsNothing /\ FinishedIsComplete
  BY <1>1 DEF OverKnown, CompletedHoldsNothing, FinishedIsComplete
<1> QED
  BY <1>2, <1>3, InitTyped DEF RowInv

(* Every action keeps the rows in step with the requests that touch them.   *)
LEMMA RowInvNext == RowInv /\ [Next]_vars => RowInv'
<1> SUFFICES ASSUME RowInv, [Next]_vars PROVE RowInv'
  OBVIOUS
<1>1. TypeOK /\ TypeOK'
  BY NextTyped DEF RowInv
<1>n. ASSUME NEW v \in Vorgaenge, Known(v), NEW i \in ItemsOf(v)
      PROVE  /\ row[i] = "none" => row'[i] = "none"
             /\ row'[i] = "PENDING" => row[i] = "PENDING"
  BY <1>1, <1>n, NoNewRows
<1>2. AboutKnown'
  <2> SUFFICES ASSUME NEW p \in Procs, pc'[p] # "idle"
               PROVE  of'[p] \in Vorgaenge /\ upload'[of'[p]] \in {"answered", "aborted"}
    BY DEF AboutKnown, Known
  <2>1. of'[p] \in Vorgaenge /\ Known(of'[p])
    BY <1>1, OfFrame DEF RowInv, AboutKnown
  <2>2. PICK v \in Vorgaenge : v = of'[p]
    BY <2>1
  <2>3. Known(v)'
    BY <1>1, <2>1, <2>2, NoNewRows
  <2> QED
    BY <2>2, <2>3 DEF Known
<1>3. DeletedFirst'
  <2> SUFFICES ASSUME NEW c \in Closings, pc'[c] = "status", ~success'[c]
               PROVE  \A i \in ItemsOf(of'[c]) : row'[i] = "none"
    BY DEF DeletedFirst, Stored, ItemsOf
  <2>1. CASE pc[c] = "status" /\ ~success[c] /\ of'[c] = of[c]
    <3>1. of[c] \in Vorgaenge /\ Known(of[c])
      BY <2>1 DEF RowInv, AboutKnown
    <3>2. \A i \in ItemsOf(of[c]) : row[i] = "none"
      BY <2>1 DEF RowInv, DeletedFirst, Stored
    <3>3. PICK v \in Vorgaenge : v = of[c]
      BY <3>1
    <3>4. \A i \in ItemsOf(v) : row'[i] = "none"
      BY <1>n, <3>1, <3>2, <3>3
    <3> QED
      BY <2>1, <3>3, <3>4
  <2>2. CASE DeleteItems(c)
    <3>1. /\ of' = of
          /\ row' = [i \in Items |-> IF VorgangOf[i] = of[c] THEN "none" ELSE row[i]]
      BY <2>2 DEF DeleteItems
    <3>2. \A i \in ItemsOf(of[c]) : row'[i] = "none"
      BY <3>1 DEF ItemsOf
    <3> QED
      BY <3>1, <3>2
  <2> QED
    BY <1>1, <2>1, <2>2, ClosingFrame
<1>4. Untried'
  <2> SUFFICES ASSUME NEW r \in Runs, pc'[r] \in {"next", "save"},
                      NEW i \in ItemsOf(of'[r]), row'[i] = "PENDING"
               PROVE  i \in todo'[r] \/ (pc'[r] = "save" /\ i = current'[r])
    BY DEF Untried, ItemsOf
  <2>1. CASE ReadItems(r)
    <3>1. of' = of /\ row' = row /\ todo'[r] = Stored(of[r])
      BY <1>1, <2>1 DEF ReadItems, TypeOK
    <3> QED
      BY <3>1 DEF Stored, ItemsOf
  <2>2. CASE ~ReadItems(r)
    <3>1. /\ pc[r] \in {"next", "save"} /\ of'[r] = of[r]
          /\ \/ UNCHANGED <<pc[r], todo[r], current[r]>>
             \/ ImportItem(r) \/ SaveItem(r) \/ SaveItemFails(r)
      BY <1>1, <2>2, RunFrame DEF ImportItem, SaveItem, SaveItemFails
    <3>2. of[r] \in Vorgaenge /\ Known(of[r])
      BY <3>1 DEF RowInv, AboutKnown
    <3>a. PICK v \in Vorgaenge : v = of[r]
      BY <3>2
    <3>b. i \in ItemsOf(v) /\ i \in Items
      BY <3>1, <3>a DEF ItemsOf
    <3>3. row[i] = "PENDING" /\ i \in ItemsOf(of[r]) /\ i \in Items
      BY <1>n, <3>2, <3>a, <3>b
    <3>4. i \in todo[r] \/ (pc[r] = "save" /\ i = current[r])
      BY <3>1, <3>3 DEF RowInv, Untried
    <3>5. CASE UNCHANGED <<pc[r], todo[r], current[r]>>
      BY <3>4, <3>5
    <3>6. CASE ImportItem(r)
      <4>1. PICK j \in todo[r] : /\ todo' = [todo EXCEPT ![r] = @ \ {j}]
                                 /\ current' = [current EXCEPT ![r] = j]
        BY <3>6 DEF ImportItem
      <4>2. /\ todo'[r] = todo[r] \ {j} /\ current'[r] = j
            /\ pc[r] = "next" /\ pc'[r] = "save"
        BY <1>1, <3>6, <4>1 DEF ImportItem, TypeOK
      <4> QED
        BY <3>4, <4>2
    <3>7. CASE SaveItem(r) \/ SaveItemFails(r)
      <4>1. i # current[r]
        BY <1>1, <3>3, <3>7 DEF SaveItem, SaveItemFails, TypeOK
      <4> QED
        BY <3>4, <3>7, <4>1 DEF SaveItem, SaveItemFails
    <3> QED
      BY <3>1, <3>5, <3>6, <3>7
  <2> QED
    BY <2>1, <2>2
<1>5. ASSUME NEW v \in Vorgaenge, status'[v] = "COMPLETED"
      PROVE  Known(v) /\ \A i \in ItemsOf(v) : row[i] = "none"
  <2>1. CASE status[v] = "COMPLETED"
    BY <2>1 DEF RowInv, OverKnown, CompletedHoldsNothing, Stored
  <2>2. CASE status[v] # "COMPLETED"
    <3>1. PICK c \in Closings : SaveStatus(c) /\ of[c] = v /\ ~success[c]
      BY <1>1, <1>5, <2>2, StatusFrame
    <3> QED
      BY <3>1 DEF SaveStatus, RowInv, AboutKnown, DeletedFirst, Stored
  <2> QED
    BY <2>1, <2>2
<1>6. ASSUME NEW v \in Vorgaenge, status'[v] = "FINISHED"
      PROVE  Known(v) /\ \A i \in ItemsOf(v) : row[i] # "PENDING"
  <2>1. CASE status[v] = "FINISHED"
    BY <2>1 DEF RowInv, OverKnown, FinishedIsComplete
  <2>2. CASE status[v] # "FINISHED"
    <3>1. PICK r \in Runs : Finish(r) /\ of[r] = v
      BY <1>1, <1>6, <2>2, StatusFrame
    <3> QED
      BY <3>1 DEF Finish, RowInv, AboutKnown, Untried
  <2> QED
    BY <2>1, <2>2
<1>7. OverKnown'
  BY <1>1, <1>5, <1>6, NoNewRows DEF OverKnown
<1>8. CompletedHoldsNothing'
  <2> SUFFICES ASSUME NEW v \in Vorgaenge, status'[v] = "COMPLETED"
               PROVE  \A i \in ItemsOf(v) : row'[i] = "none"
    BY DEF CompletedHoldsNothing, Stored, ItemsOf
  <2> QED
    BY <1>n, <1>5
<1>9. FinishedIsComplete'
  <2> SUFFICES ASSUME NEW v \in Vorgaenge, status'[v] = "FINISHED"
               PROVE  \A i \in ItemsOf(v) : row'[i] # "PENDING"
    BY DEF FinishedIsComplete, ItemsOf
  <2> QED
    BY <1>n, <1>6
<1> QED
  BY <1>1, <1>2, <1>3, <1>4, <1>7, <1>8, <1>9 DEF RowInv

(* No interleaving of executions, downloads, cancels and failures leaves a  *)
(* row, with its initial password, in a completed import.                   *)
THEOREM CompletedIsEmpty == Spec => []CompletedHoldsNothing
<1>1. RowInv => CompletedHoldsNothing
  BY DEF RowInv
<1> QED
  BY <1>1, RowInvInit, RowInvNext, PTL DEF Spec

(* An import that says FINISHED has tried every row, even if two executions *)
(* of it overlap.                                                           *)
THEOREM FinishedTriedAll == Spec => []FinishedIsComplete
<1>1. RowInv => FinishedIsComplete
  BY DEF RowInv
<1> QED
  BY <1>1, RowInvInit, RowInvNext, PTL DEF Spec

-----------------------------------------------------------------------------
(* The handler's fields are those of the run, unless another run begins.    *)

FieldsAreOwn == \A r \in InFlight : r \in crossed \/ selected = of[r]
RowsAreOwn ==
  \A r \in Runs : todo[r] \subseteq ItemsOf(of[r]) /\ (pc[r] = "idle" => todo[r] = {})

FieldInv == TypeOK /\ FieldsAreOwn /\ RowsAreOwn /\ KlasseUnlessCrossed

(* Beginning a run is the only step that touches the fields.                *)
LEMMA FieldFrame ==
  ASSUME TypeOK, [Next]_vars
  PROVE  crossed \subseteq crossed'
         /\ ((\E r \in Runs : ExecuteSave(r)) \/ UNCHANGED <<selected, crossed>>)
<1>1. ASSUME NEW r \in Runs, ExecuteSave(r) PROVE crossed \subseteq crossed'
  BY <1>1 DEF ExecuteSave
<1>2. CASE UNCHANGED <<selected, crossed>>
  BY <1>2
<1> QED
  BY <1>1, <1>2 DEF Next, Handle, UploadStart, UploadChunk, UploadDone, UploadAborts,
    ExecuteFind, ReadItems, ImportItem, SaveItem, SaveItemFails, Finish, CancelFind,
    DownloadFind, DownloadItems, DeleteItems, SaveStatus, Abort

(* A run is in progress since its own beginning, about the same import.     *)
LEMMA InFlightFrame ==
  ASSUME TypeOK, [Next]_vars, NEW r \in Runs, r \in InFlight', ~ExecuteSave(r)
  PROVE  r \in InFlight /\ of'[r] = of[r]
<1> DEFINE G == r \in InFlight /\ of'[r] = of[r]
<1> USE DEF TypeOK, InFlight
<1>1. ASSUME NEW v \in Vorgaenge,
             UploadStart(v) \/ UploadChunk(v) \/ UploadDone(v) \/ UploadAborts(v)
      PROVE  G
  BY <1>1 DEF UploadStart, UploadChunk, UploadDone, UploadAborts
<1>2. ASSUME NEW q \in Runs, NEW v \in Vorgaenge, ExecuteFind(q, v) PROVE G
  BY <1>2 DEF ExecuteFind, Begin
<1>3. ASSUME NEW q \in Runs, Handle(q) PROVE G
  <2>1. CASE ExecuteSave(q)
    <3>1. q # r
      BY <2>1
    <3> QED
      BY <2>1, <3>1 DEF ExecuteSave
  <2>2. CASE ReadItems(q) \/ ImportItem(q) \/ SaveItem(q) \/ SaveItemFails(q) \/ Finish(q)
    BY <2>2 DEF ReadItems, ImportItem, SaveItem, SaveItemFails, Finish
  <2> QED
    BY <1>3, <2>1, <2>2 DEF Handle
<1>4. ASSUME NEW d \in Closings, NEW v \in Vorgaenge, CancelFind(d, v) \/ DownloadFind(d, v)
      PROVE  G
  BY <1>4 DEF CancelFind, DownloadFind, Begin
<1>5. ASSUME NEW d \in Closings, DownloadItems(d) \/ DeleteItems(d) \/ SaveStatus(d)
      PROVE  G
  BY <1>5 DEF DownloadItems, DeleteItems, SaveStatus
<1>6. ASSUME NEW q \in Procs, Abort(q) PROVE G
  BY <1>6 DEF Abort
<1>7. CASE UNCHANGED vars
  BY <1>7
<1> QED
  BY <1>1, <1>2, <1>3, <1>4, <1>5, <1>6, <1>7 DEF Next

(* The rows of a run are read from its import and then only become fewer.   *)
LEMMA TodoFrame ==
  ASSUME TypeOK, [Next]_vars, NEW r \in Runs
  PROVE  \/ todo'[r] = {} \/ todo'[r] \subseteq Stored(of'[r])
         \/ todo'[r] \subseteq todo[r] /\ (of'[r] = of[r] \/ pc[r] = "idle")
<1> DEFINE G == \/ todo'[r] = {} \/ todo'[r] \subseteq Stored(of'[r])
                \/ todo'[r] \subseteq todo[r] /\ (of'[r] = of[r] \/ pc[r] = "idle")
<1> USE DEF TypeOK
<1>1. ASSUME NEW v \in Vorgaenge,
             UploadStart(v) \/ UploadChunk(v) \/ UploadDone(v) \/ UploadAborts(v)
      PROVE  G
  BY <1>1 DEF UploadStart, UploadChunk, UploadDone, UploadAborts
<1>2. ASSUME NEW q \in Runs, NEW v \in Vorgaenge, ExecuteFind(q, v) PROVE G
  BY <1>2 DEF ExecuteFind, Begin
<1>3. ASSUME NEW q \in Runs, ReadItems(q) PROVE G
  BY <1>3 DEF ReadItems
<1>4. ASSUME NEW q \in Runs, ImportItem(q) PROVE G
  BY <1>4 DEF ImportItem
<1>5. ASSUME NEW q \in Runs, ExecuteSave(q) \/ SaveItem(q) \/ SaveItemFails(q) \/ Finish(q)
      PROVE  G
  BY <1>5 DEF ExecuteSave, SaveItem, SaveItemFails, Finish
<1>6. ASSUME NEW d \in Closings, NEW v \in Vorgaenge, CancelFind(d, v) \/ DownloadFind(d, v)
      PROVE  G
  BY <1>6 DEF CancelFind, DownloadFind, Begin
<1>7. ASSUME NEW d \in Closings, DownloadItems(d) \/ DeleteItems(d) \/ SaveStatus(d)
      PROVE  G
  BY <1>7 DEF DownloadItems, DeleteItems, SaveStatus
<1>8. ASSUME NEW q \in Procs, Abort(q) PROVE G
  BY <1>8 DEF Abort
<1>9. CASE UNCHANGED vars
  BY <1>9
<1> QED
  BY <1>1, <1>2, <1>3, <1>4, <1>5, <1>6, <1>7, <1>8, <1>9 DEF Next, Handle

(* A run that has not begun has no rows yet.                                *)
LEMMA IdleFrame ==
  ASSUME TypeOK, [Next]_vars, NEW r \in Runs, pc'[r] = "idle"
  PROVE  pc[r] = "idle" /\ todo'[r] = todo[r]
<1> DEFINE G == pc[r] = "idle" /\ todo'[r] = todo[r]
<1> USE DEF TypeOK
<1>1. ASSUME NEW v \in Vorgaenge,
             UploadStart(v) \/ UploadChunk(v) \/ UploadDone(v) \/ UploadAborts(v)
      PROVE  G
  BY <1>1 DEF UploadStart, UploadChunk, UploadDone, UploadAborts
<1>2. ASSUME NEW q \in Procs, NEW v \in Vorgaenge,
             NEW t \in {"execute", "delete", "download"}, Begin(q, v, t), UNCHANGED todo
      PROVE  G
  BY <1>2 DEF Begin
<1>3. ASSUME NEW q \in Runs, Handle(q) PROVE G
  BY <1>3 DEF Handle, ExecuteSave, ReadItems, ImportItem, SaveItem, SaveItemFails, Finish
<1>4. ASSUME NEW d \in Closings, DownloadItems(d) \/ DeleteItems(d) \/ SaveStatus(d)
      PROVE  G
  BY <1>4 DEF DownloadItems, DeleteItems, SaveStatus
<1>5. ASSUME NEW q \in Procs, Abort(q) PROVE G
  BY <1>5 DEF Abort
<1>6. CASE UNCHANGED vars
  BY <1>6
<1> QED
  BY <1>1, <1>2, <1>3, <1>4, <1>5, <1>6 DEF Next, ExecuteFind, CancelFind, DownloadFind

(* Where the fields are right before a step, they are so after it.          *)
LEMMA FieldInvNext == FieldInv /\ [Next]_vars => FieldInv'
<1> SUFFICES ASSUME FieldInv, [Next]_vars PROVE FieldInv'
  OBVIOUS
<1>1. TypeOK /\ TypeOK'
  BY NextTyped DEF FieldInv
<1>2. FieldsAreOwn'
  <2> SUFFICES ASSUME NEW r \in InFlight' PROVE r \in crossed' \/ selected' = of'[r]
    BY DEF FieldsAreOwn
  <2>0. r \in Runs
    BY DEF InFlight
  <2>1. CASE ExecuteSave(r)
    BY <2>1 DEF ExecuteSave
  <2>2. CASE ~ExecuteSave(r)
    <3>1. r \in InFlight /\ of'[r] = of[r]
      BY <1>1, <2>0, <2>2, InFlightFrame
    <3>2. CASE \E q \in Runs : ExecuteSave(q)
      BY <3>1, <3>2 DEF ExecuteSave
    <3>3. CASE UNCHANGED <<selected, crossed>>
      BY <3>1, <3>3 DEF FieldInv, FieldsAreOwn
    <3> QED
      BY <1>1, <3>2, <3>3, FieldFrame
  <2> QED
    BY <2>1, <2>2
<1>3. RowsAreOwn'
  <2> SUFFICES ASSUME NEW r \in Runs
               PROVE  todo'[r] \subseteq ItemsOf(of'[r]) /\ (pc'[r] = "idle" => todo'[r] = {})
    BY DEF RowsAreOwn, ItemsOf
  <2>1. pc'[r] = "idle" => todo'[r] = {}
    BY <1>1, IdleFrame DEF FieldInv, RowsAreOwn
  <2>2. CASE todo'[r] = {} \/ todo'[r] \subseteq Stored(of'[r])
    BY <2>1, <2>2 DEF Stored
  <2>3. CASE todo'[r] \subseteq todo[r] /\ (of'[r] = of[r] \/ pc[r] = "idle")
    BY <2>1, <2>3 DEF FieldInv, RowsAreOwn
  <2> QED
    BY <1>1, <2>2, <2>3, TodoFrame
<1>4. KlasseUnlessCrossed'
  <2> SUFFICES ASSUME NEW i \in Items, NEW p \in persons'[i],
                      p.assigned, p.run \notin crossed'
               PROVE  p.selected = VorgangOf[i]
    BY DEF KlasseUnlessCrossed
  <2>1. p.run \notin crossed
    BY <1>1, FieldFrame
  <2>2. CASE p \in persons[i]
    BY <2>1, <2>2 DEF FieldInv, KlasseUnlessCrossed
  <2>3. ASSUME NEW r \in Runs, ImportItem(r), p \notin persons[i]
        PROVE  p.selected = VorgangOf[i]
    <3>1. PICK j \in todo[r], a \in BOOLEAN :
            persons' = [persons EXCEPT ![j] =
              @ \union {[run |-> r, selected |-> selected, assigned |-> a]}]
      BY <2>3 DEF ImportItem
    <3>2. i = j /\ p = [run |-> r, selected |-> selected, assigned |-> a]
      BY <1>1, <2>3, <3>1 DEF TypeOK
    <3>3. pc[r] = "next" /\ r \in InFlight
      BY <2>3 DEF ImportItem, InFlight
    <3>4. selected = of[r]
      BY <2>1, <3>2, <3>3 DEF FieldInv, FieldsAreOwn
    <3>5. i \in ItemsOf(of[r])
      BY <3>1, <3>2 DEF FieldInv, RowsAreOwn
    <3> QED
      BY <3>2, <3>4, <3>5 DEF ItemsOf
  <2>4. CASE UNCHANGED persons
    BY <2>2, <2>4
  <2> QED
    BY <2>2, <2>3, <2>4 DEF Next, Handle, UploadStart, UploadChunk, UploadDone,
      UploadAborts, ExecuteFind, ExecuteSave, ReadItems, SaveItem, SaveItemFails, Finish,
      CancelFind, DownloadFind, DownloadItems, DeleteItems, SaveStatus, Abort
<1> QED
  BY <1>1, <1>2, <1>3, <1>4 DEF FieldInv

(* No run is in progress and no person created.                             *)
LEMMA FieldInvInit == Init => FieldInv
<1> SUFFICES ASSUME Init PROVE FieldInv
  OBVIOUS
<1>1. InFlight = {}
  BY DEF Init, InFlight
<1> QED
  BY <1>1, InitTyped DEF Init, FieldInv, FieldsAreOwn, RowsAreOwn, KlasseUnlessCrossed

(* A person gets the Schule and Rolle of the row's own import in every run  *)
(* during which no other run began.                                         *)
THEOREM OwnSchuleUnlessCrossed == Spec => []KlasseUnlessCrossed
<1>1. FieldInv => KlasseUnlessCrossed
  BY DEF FieldInv
<1> QED
  BY <1>1, FieldInvInit, FieldInvNext, PTL DEF Spec

-----------------------------------------------------------------------------
(* The final status of an import tells whether anything was imported.       *)

(* Before a run has read its rows it has no success to speak of, and what   *)
(* it is about to save is a row of its import that it will not save again.  *)
RunsBegin ==
  \A r \in Runs : /\ pc[r] = "idle" => of[r] = NoVorgang
                  /\ pc[r] \in {"idle", "execute", "items"} => ~success[r]
                  /\ pc[r] = "save" => current[r] \in ItemsOf(of[r]) \ todo[r]

(* The rows a run has still to save.                                        *)
Held(r) == todo[r] \union {i \in Items : pc[r] = "save" /\ i = current[r]}

(* What the only run of an import knows: none of the rows it holds has      *)
(* succeeded, or is gone unless all are (only a cancel deletes, and it      *)
(* deletes them all); and success says whether one did.                     *)
Working(r, v) ==
  /\ pc[r] \in {"execute", "items"} => ~SomeSucceeded(v)
  /\ pc[r] \in {"next", "save"} =>
       /\ \A i \in Held(r) : row[i] # "SUCCESS" /\ (row[i] = "none" => Stored(v) = {})
       /\ SomeSucceeded(v) => success[r]
       /\ success[r] => SomeSucceeded(v) \/ Stored(v) = {}

(* A run of the import has come to its end; a download has failed to write  *)
(* its file.                                                                *)
Ended(v) == \E r \in Runs : of[r] = v /\ pc[r] = "done"
DownloadFailed == \E c \in Closings : pc[c] = "done" /\ success[c]

Outcome(v) ==
  /\ SomeSucceeded(v) => \E r \in Runs : of[r] = v
  /\ \A r \in Runs : of[r] = v => Working(r, v)
  /\ status[v] = "FINISHED" => Ended(v) /\ (SomeSucceeded(v) \/ Stored(v) = {})
  /\ status[v] = "FAILED" => DownloadFailed \/ (Ended(v) /\ ~SomeSucceeded(v))

OutcomeInv ==
  /\ RowInv /\ FieldInv /\ RunsBegin
  /\ \A v \in Vorgaenge : ExecutedOnce(v) => Outcome(v)

(* The steps of one request, those of an upload, and what a request keeps   *)
(* while others take theirs.                                                *)
StepOf(p) ==
  \/ p \in Runs /\ ((\E v \in Vorgaenge : ExecuteFind(p, v)) \/ Handle(p))
  \/ /\ p \in Closings
     /\ \/ \E v \in Vorgaenge : CancelFind(p, v) \/ DownloadFind(p, v)
        \/ DownloadItems(p) \/ DeleteItems(p) \/ SaveStatus(p)
  \/ Abort(p)
Uploading(v) == UploadStart(v) \/ UploadChunk(v) \/ UploadDone(v) \/ UploadAborts(v)
Keeps(q) ==
  /\ pc'[q] = pc[q] /\ of'[q] = of[q] /\ todo'[q] = todo[q]
  /\ current'[q] = current[q] /\ success'[q] = success[q]

(* A step is that of a request or of an upload.                             *)
LEMMA StepsAre ==
  [Next]_vars => \/ \E p \in Procs : StepOf(p)
                 \/ \E v \in Vorgaenge : Uploading(v)
                 \/ UNCHANGED vars
  BY DEF Next, StepOf, Uploading

(* An upload leaves every execution where it is. *)
LEMMA UploadKeeps ==
  ASSUME NEW v \in Vorgaenge, Uploading(v), NEW q \in Procs
  PROVE  Keeps(q)
  BY DEF Uploading, UploadStart, UploadChunk, UploadDone, UploadAborts, Keeps

(* A step of one execution leaves the others where they are. *)
LEMMA OthersKeep ==
  ASSUME TypeOK, NEW p \in Procs, StepOf(p), NEW q \in Procs, q # p
  PROVE  Keeps(q)
<1> USE DEF TypeOK, Keeps
<1>1. ASSUME NEW v \in Vorgaenge, ExecuteFind(p, v) \/ CancelFind(p, v) \/ DownloadFind(p, v)
      PROVE  Keeps(q)
  BY <1>1 DEF ExecuteFind, CancelFind, DownloadFind, Begin
<1>2. CASE ExecuteSave(p) \/ ReadItems(p) \/ ImportItem(p)
  BY <1>2 DEF ExecuteSave, ReadItems, ImportItem
<1>3. CASE SaveItem(p) \/ SaveItemFails(p) \/ Finish(p)
  BY <1>3 DEF SaveItem, SaveItemFails, Finish
<1>4. CASE DownloadItems(p) \/ DeleteItems(p) \/ SaveStatus(p)
  BY <1>4 DEF DownloadItems, DeleteItems, SaveStatus
<1>5. CASE Abort(p)
  BY <1>5 DEF Abort
<1> QED
  BY <1>1, <1>2, <1>3, <1>4, <1>5 DEF StepOf, Handle

(* A run begins with no success, and takes the row it saves from those it   *)
(* has yet to save.                                                         *)
LEMMA RunsBeginNext == FieldInv /\ RunsBegin /\ [Next]_vars => RunsBegin'
<1> SUFFICES ASSUME FieldInv, RunsBegin, [Next]_vars, NEW r \in Runs
             PROVE  /\ pc'[r] = "idle" => of'[r] = NoVorgang
                    /\ pc'[r] \in {"idle", "execute", "items"} => ~success'[r]
                    /\ pc'[r] = "save" => current'[r] \in ItemsOf(of'[r]) \ todo'[r]
  BY DEF RunsBegin, ItemsOf
<1> DEFINE G == /\ pc'[r] = "idle" => of'[r] = NoVorgang
                /\ pc'[r] \in {"idle", "execute", "items"} => ~success'[r]
                /\ pc'[r] = "save" => current'[r] \in ItemsOf(of'[r]) \ todo'[r]
<1>1. TypeOK /\ r \in Procs /\ r \notin Closings
  BY DEF FieldInv
<1>2. ASSUME Keeps(r) PROVE G
  BY <1>2 DEF RunsBegin, Keeps
<1>3. CASE StepOf(r)
  <2>1. ASSUME NEW v \in Vorgaenge, ExecuteFind(r, v) PROVE G
    BY <1>1, <2>1 DEF ExecuteFind, Begin, TypeOK, RunsBegin
  <2>2. CASE ExecuteSave(r) \/ ReadItems(r)
    BY <1>1, <2>2 DEF ExecuteSave, ReadItems, TypeOK, RunsBegin
  <2>3. CASE ImportItem(r)
    <3>1. PICK i \in todo[r] : /\ todo' = [todo EXCEPT ![r] = @ \ {i}]
                               /\ current' = [current EXCEPT ![r] = i]
      BY <2>3 DEF ImportItem
    <3>2. i \in ItemsOf(of[r]) /\ todo'[r] = todo[r] \ {i} /\ current'[r] = i
      BY <1>1, <3>1 DEF FieldInv, RowsAreOwn, TypeOK
    <3>3. of' = of /\ pc'[r] = "save"
      BY <1>1, <2>3 DEF ImportItem, TypeOK
    <3> QED
      BY <3>2, <3>3
  <2>4. CASE SaveItem(r) \/ SaveItemFails(r) \/ Finish(r) \/ Abort(r)
    BY <1>1, <2>4 DEF SaveItem, SaveItemFails, Finish, Abort, TypeOK
  <2> QED
    BY <1>1, <1>3, <2>1, <2>2, <2>3, <2>4 DEF StepOf, Handle
<1>4. CASE \E p \in Procs : StepOf(p)
  BY <1>1, <1>2, <1>3, <1>4, OthersKeep
<1>5. CASE UNCHANGED vars
  BY <1>2, <1>5 DEF Keeps
<1> QED
  BY <1>1, <1>2, <1>4, <1>5, StepsAre, UploadKeeps

(* A run looks at its import again with nothing changed for either.         *)
LEMMA WorkingStays ==
  ASSUME NEW v \in Vorgaenge, NEW r \in Runs, Keeps(r), Working(r, v),
         \A i \in Items : VorgangOf[i] = v => row'[i] = row[i], Held(r) \subseteq ItemsOf(v)
  PROVE  Working(r, v)'
<1>1. (SomeSucceeded(v)' <=> SomeSucceeded(v)) /\ (Stored(v)' = {} <=> Stored(v) = {})
  BY DEF SomeSucceeded, Stored, ItemsOf
<1>2. Held(r)' = Held(r)
  BY DEF Held, Keeps
<1>3. \A i \in Held(r) : row'[i] = row[i]
  BY DEF ItemsOf
<1> QED
  BY <1>1, <1>2, <1>3 DEF Working, Keeps

(* A step that leaves the rows of an import alone, and gives it no final    *)
(* status.                                                                  *)
LEMMA OutcomeStays ==
  ASSUME NEW v \in Vorgaenge, Outcome(v),
         \A i \in Items : VorgangOf[i] = v => row'[i] = row[i],
         \A r \in Runs : of'[r] = v <=> of[r] = v,
         \A r \in Runs : of[r] = v => Working(r, v)',
         \A r \in Runs : of[r] = v /\ pc[r] = "done" => pc'[r] = "done",
         DownloadFailed => DownloadFailed',
         status'[v] = status[v] \/ status'[v] \notin {"FINISHED", "FAILED"}
  PROVE  Outcome(v)'
<1>1. (SomeSucceeded(v)' <=> SomeSucceeded(v)) /\ (Stored(v)' = {} <=> Stored(v) = {})
  BY DEF SomeSucceeded, Stored, ItemsOf
<1>2. Ended(v) => Ended(v)'
  BY DEF Ended
<1> QED
  BY <1>1, <1>2 DEF Outcome

(* Whether an import is executed once is decided by the requests; and the   *)
(* rows a run holds are those of its import.                                *)
LEMMA RunsOf ==
  ASSUME OutcomeInv, NEW v \in Vorgaenge, NEW r \in Runs, of[r] = v
  PROVE  /\ pc[r] # "idle" /\ Known(v) /\ Held(r) \subseteq ItemsOf(v)
         /\ ExecutedOnce(v) => \A s \in Runs : of[s] = v => s = r
<1>1. pc[r] # "idle"
  BY DEF OutcomeInv, RunsBegin
<1>2. Known(v)
  BY <1>1 DEF OutcomeInv, RowInv, AboutKnown
<1>3. Held(r) \subseteq ItemsOf(v)
  BY DEF OutcomeInv, FieldInv, RowsAreOwn, RunsBegin, Held
<1> QED
  BY <1>1, <1>2, <1>3 DEF ExecutedOnce

(* Of a download that failed, nothing is taken back.                        *)
LEMMA DownloadStays == TypeOK /\ [Next]_vars /\ DownloadFailed => DownloadFailed'
<1> SUFFICES ASSUME TypeOK, [Next]_vars, NEW c \in Closings, pc[c] = "done", success[c]
             PROVE  pc'[c] = "done" /\ success'[c]
  BY DEF DownloadFailed
<1>1. ASSUME StepOf(c) PROVE FALSE
  BY <1>1 DEF StepOf, CancelFind, DownloadFind, Begin, DownloadItems, DeleteItems, SaveStatus, Abort
<1>2. ASSUME Keeps(c) PROVE pc'[c] = "done" /\ success'[c]
  BY <1>2 DEF Keeps
<1>3. CASE \E p \in Procs : StepOf(p)
  BY <1>1, <1>2, <1>3, OthersKeep
<1>4. CASE UNCHANGED vars
  BY <1>4
<1> QED
  BY <1>2, <1>3, <1>4, StepsAre, UploadKeeps

(* A run that has ended takes no further step.                              *)
LEMMA EndedStays ==
  ASSUME TypeOK, [Next]_vars, NEW r \in Runs, pc[r] = "done"
  PROVE  pc'[r] = "done"
<1>1. ASSUME StepOf(r) PROVE FALSE
  BY <1>1 DEF StepOf, ExecuteFind, Begin, Handle, ExecuteSave, ReadItems, ImportItem, SaveItem,
    SaveItemFails, Finish, Abort
<1>2. CASE \E p \in Procs : StepOf(p)
  BY <1>1, <1>2, OthersKeep DEF Keeps
<1>3. CASE UNCHANGED vars
  BY <1>3
<1> QED
  BY <1>2, <1>3, StepsAre, UploadKeeps DEF Keeps

(* An upload: no run is about its import yet.                               *)
LEMMA UploadOutcome ==
  ASSUME OutcomeInv, [Next]_vars, NEW w \in Vorgaenge, Uploading(w), NEW v \in Vorgaenge, Outcome(v)
  PROVE  Outcome(v)'
<1>1. TypeOK /\ \A r \in Runs : Keeps(r)
  BY UploadKeeps DEF OutcomeInv, RowInv
<1>2. \A r \in Runs : (of'[r] = v <=> of[r] = v) /\ (pc[r] = "done" => pc'[r] = "done")
  BY <1>1 DEF Keeps
<1>3. DownloadFailed => DownloadFailed'
  BY <1>1, DownloadStays
<1>4. CASE w # v \/ UploadAborts(w)
  <2>1. \A i \in Items : VorgangOf[i] = v => row'[i] = row[i]
    BY <1>1, <1>4 DEF Uploading, UploadStart, UploadChunk, UploadDone, UploadAborts, Unstored, ItemsOf
  <2>2. status'[v] = status[v]
    BY <1>1, <1>4 DEF Uploading, UploadStart, UploadChunk, UploadDone, UploadAborts, TypeOK
  <2>3. \A r \in Runs : of[r] = v => Working(r, v)'
    BY <1>1, <2>1, WorkingStays, RunsOf DEF Outcome
  <2> QED
    BY <1>2, <1>3, <2>1, <2>2, <2>3, OutcomeStays
<1>5. CASE w = v /\ ~UploadAborts(w)
  <2>1. ~Known(v)
    BY <1>5 DEF Uploading, UploadStart, UploadChunk, UploadDone, Known
  <2>2. \A r \in Runs : of[r] # v /\ of'[r] # v
    BY <1>2, <2>1, RunsOf
  <2>3. \A i \in ItemsOf(v) : row[i] # "SUCCESS"
    BY <2>2 DEF Outcome, SomeSucceeded
  <2>4. ~SomeSucceeded(v)'
    BY <1>1, <1>5, <2>3 DEF Uploading, UploadStart, UploadChunk, UploadDone, SomeSucceeded, ItemsOf, TypeOK
  <2>5. status'[v] = status[v] \/ status'[v] \notin {"FINISHED", "FAILED"}
    BY <1>1, <1>5 DEF Uploading, UploadStart, UploadChunk, UploadDone, TypeOK
  <2>6. ~Ended(v)
    BY <2>2 DEF Ended
  <2> QED
    BY <1>3, <2>2, <2>4, <2>5, <2>6 DEF Outcome
<1> QED
  BY <1>4, <1>5

(* A run begins: if it is the first of its import, no row has succeeded.    *)
LEMMA ExecuteOutcome ==
  ASSUME OutcomeInv, [Next]_vars, NEW r \in Runs, NEW w \in Vorgaenge, ExecuteFind(r, w),
         NEW v \in Vorgaenge, Outcome(v), ExecutedOnce(v)'
  PROVE  Outcome(v)'
<1>1. TypeOK /\ \A s \in Runs \ {r} : Keeps(s)
  BY OthersKeep DEF OutcomeInv, RowInv, StepOf
<1>2. /\ of[r] = NoVorgang /\ pc[r] = "idle" /\ pc'[r] = "execute" /\ of'[r] = w
      /\ row' = row /\ status' = status
  BY <1>1 DEF ExecuteFind, Begin, OutcomeInv, RunsBegin, TypeOK
<1>3. DownloadFailed => DownloadFailed'
  BY <1>1, DownloadStays
<1>4. (SomeSucceeded(v)' <=> SomeSucceeded(v)) /\ Stored(v)' = Stored(v)
  BY <1>2 DEF SomeSucceeded, Stored, ItemsOf
<1>5. CASE w # v
  <2>1. \A s \in Runs : of'[s] = v <=> of[s] = v
    BY <1>1, <1>2, <1>5 DEF Keeps
  <2>2. \A s \in Runs : of[s] = v => Working(s, v)'
    BY <1>1, <1>2, WorkingStays, RunsOf DEF Outcome
  <2>3. \A s \in Runs : of[s] = v /\ pc[s] = "done" => pc'[s] = "done"
    BY <1>1, <1>2 DEF Keeps
  <2> QED
    BY <1>2, <1>3, <2>1, <2>2, <2>3, OutcomeStays
<1>6. CASE w = v
  <2>1. \A s \in Runs : of'[s] = v => s = r
    BY <1>2, <1>6 DEF ExecutedOnce
  <2>2. \A s \in Runs : of[s] # v
    BY <1>1, <1>2, <2>1 DEF Keeps
  <2>3. ~SomeSucceeded(v)' /\ ~Ended(v)
    BY <1>4, <2>2 DEF Outcome, Ended
  <2>4. \A s \in Runs : of'[s] = v => Working(s, v)'
    BY <1>2, <2>1, <2>3 DEF Working
  <2> QED
    BY <1>2, <1>3, <2>3, <2>4 DEF Outcome
<1> QED
  BY <1>5, <1>6

(* A run of another import touches neither the rows nor the status.         *)
LEMMA OtherRunOutcome ==
  ASSUME OutcomeInv, [Next]_vars, NEW r \in Runs, Handle(r) \/ Abort(r),
         NEW v \in Vorgaenge, Outcome(v), of[r] # v
  PROVE  Outcome(v)'
<1>1. TypeOK /\ \A s \in Runs \ {r} : Keeps(s)
  BY OthersKeep DEF OutcomeInv, RowInv, StepOf
<1>2. of' = of
  BY DEF Handle, ExecuteSave, ReadItems, ImportItem, SaveItem, SaveItemFails, Finish, Abort
<1>3. DownloadFailed => DownloadFailed'
  BY <1>1, DownloadStays
<1>4. \A i \in Items : VorgangOf[i] = v => row'[i] = row[i]
  <2>1. CASE UNCHANGED row
    BY <2>1
  <2>2. CASE SaveItem(r) \/ SaveItemFails(r)
    <3>1. pc[r] = "save"
      BY <2>2 DEF SaveItem, SaveItemFails
    <3>2. VorgangOf[current[r]] = of[r]
      BY <3>1 DEF OutcomeInv, RunsBegin, ItemsOf
    <3>3. \A i \in Items : i # current[r] => row'[i] = row[i]
      BY <1>1, <2>2 DEF SaveItem, SaveItemFails, TypeOK
    <3> QED
      BY <3>2, <3>3
  <2> QED
    BY <2>1, <2>2 DEF Handle, ExecuteSave, ReadItems, ImportItem, Finish, Abort
<1>5. status'[v] = status[v]
  BY <1>1 DEF Handle, ExecuteSave, ReadItems, ImportItem, SaveItem, SaveItemFails, Finish, Abort,
    Saved, TypeOK
<1>6. \A s \in Runs : of[s] = v => Working(s, v)'
  BY <1>1, <1>4, WorkingStays, RunsOf DEF Outcome
<1>7. \A s \in Runs : of[s] = v /\ pc[s] = "done" => pc'[s] = "done"
  BY <1>1 DEF Keeps
<1> QED
  BY <1>2, <1>3, <1>4, <1>5, <1>6, <1>7, OutcomeStays

(* The only run of an import, as long as it saves nothing.                  *)
LEMMA OwnRunQuiet ==
  ASSUME OutcomeInv, [Next]_vars, NEW r \in Runs, NEW v \in Vorgaenge, of[r] = v,
         ExecuteSave(r) \/ ReadItems(r) \/ ImportItem(r) \/ Abort(r),
         Outcome(v), ExecutedOnce(v)
  PROVE  Outcome(v)'
<1>1. TypeOK /\ (\A s \in Runs \ {r} : Keeps(s)) /\ (\A s \in Runs : of[s] = v => s = r)
  BY OthersKeep, RunsOf DEF OutcomeInv, RowInv, StepOf, Handle
<1>2. UNCHANGED <<of, row>> /\ pc[r] # "done"
  BY DEF ExecuteSave, ReadItems, ImportItem, Abort
<1>3. DownloadFailed => DownloadFailed'
  BY <1>1, DownloadStays
<1>4. status'[v] = status[v] \/ status'[v] = "INPROGRESS"
  BY <1>1 DEF ExecuteSave, ReadItems, ImportItem, Abort, Saved, TypeOK
<1>5. Working(r, v) /\ (SomeSucceeded(v)' <=> SomeSucceeded(v)) /\ Stored(v)' = Stored(v)
  BY <1>2 DEF Outcome, SomeSucceeded, Stored, ItemsOf
<1>6. Working(r, v)'
  <2>1. CASE ExecuteSave(r)
    BY <1>1, <1>5, <2>1 DEF ExecuteSave, Working, TypeOK
  <2>2. CASE ReadItems(r)
    <3>1. /\ pc[r] = "items" /\ pc'[r] \in {"done", "next"} /\ todo'[r] = Stored(v)
          /\ success'[r] = success[r] /\ ~success[r]
      BY <1>1, <2>2 DEF ReadItems, TypeOK, OutcomeInv, RunsBegin
    <3>2. ~SomeSucceeded(v)
      BY <1>5, <3>1 DEF Working
    <3>3. Held(r)' = Stored(v)
      BY <3>1 DEF Held
    <3>4. \A i \in Stored(v) : row[i] # "SUCCESS" /\ row[i] # "none"
      BY <3>2 DEF SomeSucceeded, Stored
    <3> QED
      BY <1>2, <1>5, <3>1, <3>2, <3>3, <3>4 DEF Working
  <2>3. CASE ImportItem(r)
    <3>1. PICK i \in todo[r] : /\ todo' = [todo EXCEPT ![r] = @ \ {i}]
                               /\ current' = [current EXCEPT ![r] = i]
      BY <2>3 DEF ImportItem
    <3>2. /\ pc[r] = "next" /\ pc'[r] = "save" /\ todo'[r] = todo[r] \ {i} /\ current'[r] = i
          /\ success'[r] = success[r] /\ todo[r] \subseteq Items
      BY <1>1, <2>3, <3>1 DEF ImportItem, TypeOK
    <3>3. Held(r)' \subseteq Held(r)
      BY <3>2 DEF Held
    <3> QED
      BY <1>2, <1>5, <3>2, <3>3 DEF Working
  <2>4. CASE Abort(r)
    BY <1>1, <2>4 DEF Abort, Working, TypeOK
  <2> QED
    BY <2>1, <2>2, <2>3, <2>4
<1> QED
  BY <1>1, <1>2, <1>3, <1>4, <1>6, OutcomeStays

(* It saves a row: as SUCCESS only with a success of its own.               *)
LEMMA SaveOutcome ==
  ASSUME OutcomeInv, [Next]_vars, NEW r \in Runs, NEW v \in Vorgaenge, of[r] = v,
         SaveItem(r) \/ SaveItemFails(r), Outcome(v), ExecutedOnce(v)
  PROVE  Outcome(v)'
<1>1. TypeOK /\ (\A s \in Runs \ {r} : Keeps(s)) /\ (\A s \in Runs : of[s] = v => s = r)
  BY OthersKeep, RunsOf DEF OutcomeInv, RowInv, StepOf, Handle
<1>2. /\ UNCHANGED <<of, status>> /\ pc[r] = "save" /\ pc'[r] = "next" /\ todo'[r] = todo[r]
  BY <1>1 DEF SaveItem, SaveItemFails, TypeOK
<1>3. DownloadFailed => DownloadFailed'
  BY <1>1, DownloadStays
<1>4. current[r] \in ItemsOf(v) \ todo[r] /\ current[r] \in Items
  BY <1>2 DEF OutcomeInv, RunsBegin, ItemsOf
<1>5. PICK i \in Items : i = current[r]
  BY <1>4
<1>6. PICK ok \in BOOLEAN : /\ row' = IF row[i] = "none" THEN row
                                      ELSE [row EXCEPT ![i] = IF ok THEN "SUCCESS" ELSE "FAILED"]
                            /\ success'[r] = (success[r] \/ ok)
  <2>1. CASE SaveItem(r)
    BY <1>1, <1>5, <2>1 DEF SaveItem, TypeOK
  <2>2. CASE SaveItemFails(r)
    <3>1. /\ row' = IF row[i] = "none" THEN row ELSE [row EXCEPT ![i] = "FAILED"]
          /\ success' = success
      BY <1>5, <2>2 DEF SaveItemFails
    <3> WITNESS FALSE \in BOOLEAN
    <3> QED
      BY <1>1, <3>1 DEF TypeOK
  <2> QED
    BY <2>1, <2>2
<1>7. Working(r, v) /\ i \in Held(r) /\ i \in ItemsOf(v) /\ i \notin todo[r]
  BY <1>2, <1>4, <1>5 DEF Outcome, Held
<1>8. row[i] # "SUCCESS" /\ (row[i] = "none" => Stored(v) = {})
  BY <1>2, <1>7 DEF Working
<1>9. \A j \in Items : (j # i => row'[j] = row[j]) /\ (row'[j] = "none" <=> row[j] = "none")
  BY <1>1, <1>6 DEF TypeOK
<1>10. Stored(v)' = Stored(v)
  BY <1>9 DEF Stored, ItemsOf
<1>11. SomeSucceeded(v)' <=> SomeSucceeded(v) \/ row'[i] = "SUCCESS"
  BY <1>7, <1>8, <1>9 DEF SomeSucceeded, ItemsOf
<1>12. row'[i] = "SUCCESS" <=> ok /\ row[i] # "none"
  BY <1>1, <1>6, <1>8 DEF TypeOK
<1>13. Held(r)' = todo[r]
  BY <1>2 DEF Held
<1>14. \A j \in todo[r] : j \in Held(r) /\ j # i /\ j \in Items
  BY <1>1, <1>7 DEF Held, TypeOK
<1>15. Working(r, v)'
  <2>1. \A j \in Held(r)' : row'[j] # "SUCCESS" /\ (row'[j] = "none" => Stored(v)' = {})
    BY <1>2, <1>7, <1>9, <1>10, <1>13, <1>14 DEF Working
  <2>2. SomeSucceeded(v)' => success'[r]
    BY <1>2, <1>6, <1>7, <1>11, <1>12 DEF Working
  <2>3. success'[r] => SomeSucceeded(v)' \/ Stored(v)' = {}
    <3>1. CASE row[i] = "none"
      BY <1>8, <1>10, <3>1
    <3>2. CASE row[i] # "none"
      BY <1>2, <1>6, <1>7, <1>10, <1>11, <1>12, <3>2 DEF Working
    <3> QED
      BY <3>1, <3>2
  <2> QED
    BY <1>2, <2>1, <2>2, <2>3 DEF Working
<1>16. ~Ended(v)
  BY <1>1, <1>2 DEF Ended
<1> QED
  BY <1>1, <1>2, <1>3, <1>15, <1>16 DEF Outcome

(* It ends, and says what it has come to.                                   *)
LEMMA FinishOutcome ==
  ASSUME OutcomeInv, [Next]_vars, NEW r \in Runs, NEW v \in Vorgaenge, of[r] = v,
         Finish(r), Outcome(v), ExecutedOnce(v)
  PROVE  Outcome(v)'
<1>1. TypeOK /\ (\A s \in Runs \ {r} : Keeps(s)) /\ (\A s \in Runs : of[s] = v => s = r)
  BY OthersKeep, RunsOf DEF OutcomeInv, RowInv, StepOf, Handle
<1>2. UNCHANGED <<of, row>> /\ pc[r] = "next" /\ pc'[r] = "done"
  BY <1>1 DEF Finish, TypeOK
<1>3. (SomeSucceeded(v)' <=> SomeSucceeded(v)) /\ Stored(v)' = Stored(v)
  BY <1>2 DEF SomeSucceeded, Stored, ItemsOf
<1>4. /\ status'[v] = "FINISHED" => success[r] \/ status[v] = "FINISHED"
      /\ status'[v] = "FAILED" => ~success[r] \/ status[v] = "FAILED"
  BY <1>1 DEF Finish, Saved, TypeOK
<1>5. DownloadFailed => DownloadFailed'
  BY <1>1, DownloadStays
<1>6. ~Ended(v) /\ Ended(v)'
  BY <1>1, <1>2 DEF Ended
<1>7. /\ SomeSucceeded(v) => success[r]
      /\ success[r] => SomeSucceeded(v) \/ Stored(v) = {}
  BY <1>2 DEF Outcome, Working
<1>8. \A s \in Runs : of'[s] = v => Working(s, v)'
  BY <1>1, <1>2 DEF Working
<1>9. SomeSucceeded(v)' => \E s \in Runs : of'[s] = v
  BY <1>2
<1> QED
  BY <1>3, <1>4, <1>5, <1>6, <1>7, <1>8, <1>9 DEF Outcome

(* A download, a cancel or a completion: rows only go all at once, and      *)
(* FAILED stands for the file that was not written.                         *)
LEMMA ClosingOutcome ==
  ASSUME OutcomeInv, [Next]_vars, NEW c \in Closings, StepOf(c), NEW v \in Vorgaenge, Outcome(v)
  PROVE  Outcome(v)'
<1>1. TypeOK /\ (\A s \in Runs : Keeps(s)) /\ c \in Procs
  BY OthersKeep DEF OutcomeInv, RowInv
<1>2. \A r \in Runs : (of'[r] = v <=> of[r] = v) /\ (pc[r] = "done" => pc'[r] = "done")
  BY <1>1 DEF Keeps
<1>3. DownloadFailed => DownloadFailed'
  BY <1>1, DownloadStays
<1>4. CASE ~(DeleteItems(c) /\ of[c] = v)
  <2>1. \A i \in Items : VorgangOf[i] = v => row'[i] = row[i]
    BY <1>1, <1>4 DEF StepOf, CancelFind, DownloadFind, DownloadItems, DeleteItems, SaveStatus, Abort
  <2>2. \A r \in Runs : of[r] = v => Working(r, v)'
    BY <1>1, <2>1, WorkingStays, RunsOf DEF Outcome
  <2>3. CASE status'[v] = status[v] \/ status'[v] \notin {"FINISHED", "FAILED"}
    BY <1>2, <1>3, <2>1, <2>2, <2>3, OutcomeStays
  <2>4. CASE ~(status'[v] = status[v] \/ status'[v] \notin {"FINISHED", "FAILED"})
    <3>1. SaveStatus(c)
      BY <1>1, <2>4 DEF StepOf, CancelFind, DownloadFind, DownloadItems, DeleteItems, Abort
    <3>2. status'[v] = "FAILED" /\ success[c] /\ success'[c] /\ pc'[c] = "done"
      BY <1>1, <2>4, <3>1 DEF SaveStatus, Saved, TypeOK
    <3>3. DownloadFailed'
      BY <3>2 DEF DownloadFailed
    <3>4. SomeSucceeded(v)' <=> SomeSucceeded(v)
      BY <2>1 DEF SomeSucceeded, ItemsOf
    <3>5. SomeSucceeded(v)' => \E r \in Runs : of'[r] = v
      BY <1>2, <3>4 DEF Outcome
    <3> QED
      BY <1>2, <2>2, <3>2, <3>3, <3>5 DEF Outcome
  <2> QED
    BY <2>3, <2>4
<1>5. CASE DeleteItems(c) /\ of[c] = v
  <2>1. status' = status /\ \A i \in ItemsOf(v) : row'[i] = "none"
    BY <1>1, <1>5 DEF DeleteItems, ItemsOf, TypeOK
  <2>2. ~SomeSucceeded(v)' /\ Stored(v)' = {}
    BY <2>1 DEF SomeSucceeded, Stored, ItemsOf
  <2>3. \A r \in Runs : of'[r] = v => Working(r, v)'
    <3> SUFFICES ASSUME NEW r \in Runs, of[r] = v PROVE Working(r, v)'
      BY <1>2
    <3>1. Held(r)' = Held(r)
      BY <1>1 DEF Held, Keeps
    <3>2. Held(r) \subseteq ItemsOf(v)
      BY RunsOf
    <3>3. \A i \in Held(r)' : row'[i] = "none"
      BY <2>1, <3>1, <3>2
    <3> QED
      BY <2>2, <3>3 DEF Working
  <2>4. Ended(v) => Ended(v)'
    BY <1>2 DEF Ended
  <2> QED
    BY <1>3, <2>1, <2>2, <2>3, <2>4 DEF Outcome
<1> QED
  BY <1>4, <1>5

(* Every step keeps the invariant about the outcome. *)
LEMMA OutcomeNext == OutcomeInv /\ [Next]_vars => OutcomeInv'
<1> SUFFICES ASSUME OutcomeInv, [Next]_vars PROVE OutcomeInv'
  OBVIOUS
<1>1. (RowInv /\ FieldInv /\ RunsBegin)'
  BY RowInvNext, FieldInvNext, RunsBeginNext DEF OutcomeInv
<1>2. TypeOK
  BY DEF OutcomeInv, RowInv
<1>3. ASSUME NEW v \in Vorgaenge, ExecutedOnce(v)' PROVE Outcome(v)'
  <2>1. \A r \in Runs : of[r] = v => of'[r] = v
    <3> SUFFICES ASSUME NEW r \in Runs, of[r] = v PROVE of'[r] = v
      OBVIOUS
    <3>1. pc[r] # "idle"
      BY RunsOf
    <3>2. CASE StepOf(r)
      BY <1>2, <3>1, <3>2 DEF StepOf, ExecuteFind, Begin, Handle, ExecuteSave, ReadItems, ImportItem,
        SaveItem, SaveItemFails, Finish, Abort
    <3>3. CASE \E p \in Procs : StepOf(p)
      BY <1>2, <3>2, <3>3, OthersKeep DEF Keeps
    <3>4. CASE UNCHANGED vars
      BY <3>4
    <3> QED
      BY <3>3, <3>4, StepsAre, UploadKeeps DEF Keeps
  <2>2. ExecutedOnce(v)
    BY <1>3, <2>1 DEF ExecutedOnce
  <2>3. Outcome(v)
    BY <2>2 DEF OutcomeInv
  <2>4. ASSUME NEW r \in Runs, StepOf(r) PROVE Outcome(v)'
    <3>1. CASE \E w \in Vorgaenge : ExecuteFind(r, w)
      BY <1>3, <2>3, <3>1, ExecuteOutcome
    <3>2. CASE Handle(r) \/ Abort(r)
      <4>1. CASE of[r] # v
        BY <2>3, <3>2, <4>1, OtherRunOutcome
      <4>2. CASE of[r] = v
        BY <2>2, <2>3, <3>2, <4>2, OwnRunQuiet, SaveOutcome, FinishOutcome DEF Handle
      <4> QED
        BY <4>1, <4>2
    <3> QED
      BY <2>4, <3>1, <3>2 DEF StepOf
  <2>5. ASSUME NEW c \in Closings, StepOf(c) PROVE Outcome(v)'
    BY <2>3, <2>5, ClosingOutcome
  <2>6. CASE UNCHANGED vars
    BY <2>3, <2>6 DEF Outcome, SomeSucceeded, Stored, ItemsOf, Working, Held, Ended, DownloadFailed
  <2> QED
    BY <2>3, <2>4, <2>5, <2>6, StepsAre, UploadOutcome
<1> QED
  BY <1>1, <1>3 DEF OutcomeInv

(* An import that is executed once says FINISHED, while it has rows, only   *)
(* with one that succeeded, and FAILED only with none (unless a download    *)
(* failed to write its file): whatever else is uploaded, run, cancelled or  *)
(* breaks off meanwhile.                                                    *)
THEOREM StatusIsOutcome == Spec => []StatusTellsOutcome
<1>1. Init => OutcomeInv
  <2> SUFFICES ASSUME Init PROVE OutcomeInv
    OBVIOUS
  <2>1. FieldInv
    BY FieldInvInit
  <2>2. RunsBegin
    BY DEF Init, RunsBegin
  <2>3. \A v \in Vorgaenge : status[v] = "none" /\ ~SomeSucceeded(v)
    BY DEF Init, SomeSucceeded, ItemsOf
  <2>4. \A r \in Runs : of[r] = NoVorgang
    BY DEF Init
  <2>5. \A v \in Vorgaenge : Outcome(v)
    BY <2>3, <2>4 DEF Outcome
  <2> QED
    BY <2>1, <2>2, <2>5, RowInvInit DEF OutcomeInv
<1>2. OutcomeInv => StatusTellsOutcome
  <2> SUFFICES ASSUME OutcomeInv, NEW v \in Vorgaenge, ExecutedOnce(v)
               PROVE  /\ status[v] = "FINISHED" /\ Stored(v) # {} => SomeSucceeded(v)
                      /\ (status[v] = "FAILED" /\ \A c \in Closings : ~success[c])
                           => ~SomeSucceeded(v)
    BY DEF StatusTellsOutcome
  <2>1. Outcome(v)
    BY DEF OutcomeInv
  <2> QED
    BY <2>1 DEF Outcome, DownloadFailed
<1> QED
  BY <1>1, <1>2, OutcomeNext, PTL DEF Spec
=============================================================================
