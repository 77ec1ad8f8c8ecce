------------------------ MODULE PersonLifecycleProofs ------------------------
(***************************************************************************)
(* For any persons, requests and failures: the user in Keycloak follows    *)
(* the row, and no user or row is left without the other unless a failure  *)
(* that was met says so.  The invariant says who may have a user at a      *)
(* time: the creation that has made it, then the row, then the deletion    *)
(* that has read the row; and that a change which is the only one of its   *)
(* person finds the row as it was read.                                    *)
(***************************************************************************)
EXTENDS PersonLifecycle, FiniteSetTheorems, TLAPS

-----------------------------------------------------------------------------
(* The invariant                                                           *)

CreateSteps == {"search", "nummer", "user", "password", "undo", "commit", "kontexte"}
DeleteSteps == {"user", "publish", "remove"}
UpdateSteps == {"nummer", "search", "find", "rename", "save", "announce"}

Creates == [op : {"create"}, at : CreateSteps, id : Persons, name : Names,
            nummer : Nummern \union {NoNummer}, user : Usernames, kc : Nat, hashed : BOOLEAN]
Loads == [op : {"delete"}, at : {"load"}, id : Persons]
Deletes == [op : {"delete"}, at : DeleteSteps, id : Persons, kc : Nat, user : Usernames]
Updates == [op : {"update"}, at : UpdateSteps, id : Persons, old : Rows, name : Names,
            nummer : Nummern \union {NoNummer}, user : Usernames, kc : Nat, put : BOOLEAN]

Requests == {Idle} \union Creates \union Loads \union Deletes \union Updates

Typed ==
  /\ db \subseteq Rows
  /\ assigned \subseteq Persons
  /\ kc \subseteq [id : Nat, user : Usernames]
  /\ events \subseteq [kind : {"PersonDeleted", "PersonRenamed"}, id : Persons, user : Usernames]
  /\ req \in [Callers -> Requests]
  /\ requests \in 0..MaxRequests /\ faults \in 0..MaxFaults /\ created \in Nat
  /\ stranded \subseteq 1..created /\ severed \subseteq Persons

(* The constraints of the table and of Keycloak.                            *)
KeysInv ==
  /\ \A r, s \in db : r.id = s.id \/ r.kc = s.kc \/ (r.nummer = s.nummer /\ r.nummer # NoNummer) => r = s
  /\ \A x, y \in kc : x.id = y.id \/ x.user = y.user => x = y
  /\ assigned \subseteq {r.id : r \in db}
  /\ \A r \in db : r.kc \in 1..created
  /\ \A x \in kc : x.id \in 1..created

(* A creation that has made the user and not yet the row: no one else has   *)
(* the user.                                                                *)
Making(c) == req[c].op = "create" /\ req[c].at \in {"password", "undo", "commit"}
MakesOwn(c) ==
  /\ req[c].kc \in 1..created
  /\ \A r \in db : r.kc # req[c].kc
  /\ \A d \in Callers : Making(d) /\ req[d].kc = req[c].kc => d = c
  /\ req[c].id \in severed \/ [id |-> req[c].kc, user |-> req[c].user] \in kc
MakingInv == \A c \in Callers : Making(c) => MakesOwn(c)

(* A deletion that has read the row: its user is of no other row, and what  *)
(* it did so far is known.                                                  *)
Deleting(c) == req[c].op = "delete" /\ req[c].at \in DeleteSteps
DeletesOwn(c) ==
  /\ req[c].kc \in 1..created
  /\ \A r \in db : r.kc = req[c].kc => r.id = req[c].id
  /\ \A d \in Callers : Making(d) => req[d].kc # req[c].kc
  /\ req[c].at \in {"publish", "remove"} =>
       /\ req[c].id \in severed
       /\ req[c].kc \in stranded \/ \A x \in kc : x.id # req[c].kc
  /\ req[c].at = "remove" => \E e \in events : e.kind = "PersonDeleted" /\ e.id = req[c].id
DeletingInv == \A c \in Callers : Deleting(c) => DeletesOwn(c)

(* A change: that of a person whose records agree is the only one, and the  *)
(* row's name is still the one that was read.                               *)
Updating(c) == req[c].op = "update"
UpdatesAlone(c) ==
  /\ \A d \in Callers : Updating(d) /\ req[d].id = req[c].id => d = c
  /\ \E r \in db : r.id = req[c].id /\ (req[c].at # "announce" => r.user = req[c].old.user)
UpdatesKnown(c) ==
  /\ req[c].old.id = req[c].id
  /\ req[c].at = "nummer" => req[c].user = req[c].old.user
  /\ req[c].id \notin severed => UpdatesAlone(c)
UpdatingInv == \A c \in Callers : Updating(c) => UpdatesKnown(c)

(* The user of a row has the row's name, and a change in progress goes by   *)
(* it; or has the name that a change is about to write to the row.          *)
Goes(r, c) == /\ req[c].at = "rename" => req[c].kc = r.kc
              /\ req[c].at = "save" => req[c].user = r.user
Agreed(r) == /\ [id |-> r.kc, user |-> r.user] \in kc
             /\ \A c \in Callers : Updating(c) /\ req[c].id = r.id => Goes(r, c)
Ahead(r, c) == /\ Updating(c) /\ req[c].id = r.id /\ req[c].at = "save"
               /\ [id |-> r.kc, user |-> req[c].user] \in kc
AgreeInv == \A r \in db : r.id \notin severed => Agreed(r) \/ \E c \in Callers : Ahead(r, c)

(* A user in Keycloak has its row, or why not is known.                     *)
Owned(x) == \/ \E r \in db : r.kc = x.id
            \/ x.id \in stranded
            \/ \E c \in Callers : Making(c) /\ req[c].kc = x.id
OwnedInv == \A x \in kc : Owned(x)

Inv == Typed /\ KeysInv /\ MakingInv /\ DeletingInv /\ UpdatingInv /\ AgreeInv /\ OwnedInv

-----------------------------------------------------------------------------
(* What a request is, and how it moves on                                  *)

USE DEF At, Making, Deleting, Updating, CreateSteps, DeleteSteps, UpdateSteps

(* The kind of a request is told by its op and its place.                   *)
LEMMA Kinds ==
  ASSUME Typed, NEW c \in Callers
  PROVE /\ req[c] \in Requests
        /\ req[c].op \in {"none", "create", "delete", "update"}
        /\ req[c].op = "create" => req[c] \in Creates
        /\ req[c].op = "update" => req[c] \in Updates
        /\ Deleting(c) => req[c] \in Deletes
        /\ At(c, "delete", "load") => req[c] \in Loads
        /\ req[c].op = "none" <=> req[c] = Idle
  <1>1. req[c] \in Requests BY DEF Typed
  <1>2. CASE req[c] = Idle BY <1>1, <1>2 DEF Idle
  <1>3. CASE req[c] \in Creates BY <1>1, <1>3 DEF Creates, Idle
  <1>4. CASE req[c] \in Loads BY <1>1, <1>4 DEF Loads, Idle
  <1>5. CASE req[c] \in Deletes BY <1>1, <1>5 DEF Deletes, Idle
  <1>6. CASE req[c] \in Updates BY <1>1, <1>6 DEF Updates, Idle
  <1> QED BY <1>1, <1>2, <1>3, <1>4, <1>5, <1>6 DEF Requests

Others(c) == \A d \in Callers \ {c} : req'[d] = req[d]

(* A request gives way to another.                                          *)
LEMMA Moves ==
  ASSUME Typed, NEW c \in Callers, NEW r \in Requests, Continue(c, r)
  PROVE req' \in [Callers -> Requests] /\ req'[c] = r /\ Others(c)
  BY DEF Typed, Continue, Others

(* A request ends.                                                          *)
LEMMA Ends ==
  ASSUME Typed, NEW c \in Callers, End(c)
  PROVE /\ req' \in [Callers -> Requests] /\ req'[c] = Idle /\ Others(c)
        /\ ~Making(c)' /\ ~Deleting(c)' /\ ~Updating(c)'
  <1>1. Idle \in Requests BY DEF Requests
  <1>2. req' \in [Callers -> Requests] /\ req'[c] = Idle /\ Others(c)
    BY <1>1, Moves DEF End
  <1> QED BY <1>2 DEF Idle

(* A creation moves on.                                                     *)
LEMMA CreateMoves ==
  ASSUME Typed, NEW c \in Callers, req[c].op = "create", NEW at \in CreateSteps, To(c, at)
  PROVE /\ req' \in [Callers -> Requests] /\ Others(c)
        /\ req'[c].op = "create" /\ req'[c].at = at /\ req'[c].id = req[c].id
        /\ req'[c].kc = req[c].kc /\ req'[c].user = req[c].user
  <1>1. req[c] \in Creates BY Kinds
  <1> DEFINE r == [req[c] EXCEPT !.at = at]
  <1>2. /\ r \in Creates /\ r.op = "create" /\ r.at = at /\ r.id = req[c].id
        /\ r.kc = req[c].kc /\ r.user = req[c].user
    BY <1>1 DEF Creates
  <1>3. r \in Requests BY <1>2 DEF Requests
  <1>4. Continue(c, r) BY DEF To
  <1> HIDE DEF r
  <1> QED BY <1>2, <1>3, <1>4, Moves

(* A deletion moves on.                                                     *)
LEMMA DeleteMoves ==
  ASSUME Typed, NEW c \in Callers, Deleting(c), NEW at \in DeleteSteps, To(c, at)
  PROVE /\ req' \in [Callers -> Requests] /\ Others(c)
        /\ req'[c].op = "delete" /\ req'[c].at = at /\ req'[c].id = req[c].id
        /\ req'[c].kc = req[c].kc /\ req'[c].user = req[c].user
  <1>1. req[c] \in Deletes BY Kinds
  <1> DEFINE r == [req[c] EXCEPT !.at = at]
  <1>2. /\ r \in Deletes /\ r.op = "delete" /\ r.at = at /\ r.id = req[c].id
        /\ r.kc = req[c].kc /\ r.user = req[c].user
    BY <1>1 DEF Deletes
  <1>3. r \in Requests BY <1>2 DEF Requests
  <1>4. Continue(c, r) BY DEF To
  <1> HIDE DEF r
  <1> QED BY <1>2, <1>3, <1>4, Moves

(* A change moves on.                                                       *)
LEMMA UpdateMoves ==
  ASSUME Typed, NEW c \in Callers, req[c].op = "update", NEW at \in UpdateSteps, To(c, at)
  PROVE /\ req' \in [Callers -> Requests] /\ Others(c)
        /\ req'[c].op = "update" /\ req'[c].at = at /\ req'[c].id = req[c].id
        /\ req'[c].kc = req[c].kc /\ req'[c].user = req[c].user /\ req'[c].old = req[c].old
  <1>1. req[c] \in Updates BY Kinds
  <1> DEFINE r == [req[c] EXCEPT !.at = at]
  <1>2. /\ r \in Updates /\ r.op = "update" /\ r.at = at /\ r.id = req[c].id
        /\ r.kc = req[c].kc /\ r.user = req[c].user /\ r.old = req[c].old
    BY <1>1 DEF Updates
  <1>3. r \in Requests BY <1>2 DEF Requests
  <1>4. Continue(c, r) BY DEF To
  <1> HIDE DEF r
  <1> QED BY <1>2, <1>3, <1>4, Moves

-----------------------------------------------------------------------------
(* What a step of one request leaves alone                                 *)

USE DEF Others

(* Users in the making stay their makers', as long as no one else comes to  *)
(* make one or gets a row with it, and no one else takes it away.           *)
LEMMA MakingKept ==
  ASSUME Inv, NEW c \in Callers, Others(c), created' \in Nat, created <= created',
         severed \subseteq severed',
         \A r \in db' : \E s \in db : s.kc = r.kc,
         \A d \in Callers \ {c} : Making(d) /\ [id |-> req[d].kc, user |-> req[d].user] \in kc
           => req[d].id \in severed' \/ [id |-> req[d].kc, user |-> req[d].user] \in kc',
         Making(c)' => /\ Making(c) /\ kc' = kc
                       /\ req'[c].kc = req[c].kc /\ req'[c].user = req[c].user
                       /\ req'[c].id = req[c].id
  PROVE MakingInv'
  <1>1. \A d \in Callers : Making(d)' =>
          Making(d) /\ req'[d].kc = req[d].kc /\ req'[d].user = req[d].user /\ req'[d].id = req[d].id
    OBVIOUS
  <1> SUFFICES ASSUME NEW d \in Callers, Making(d)' PROVE MakesOwn(d)'
    BY DEF MakingInv
  <1>2. Making(d) /\ MakesOwn(d) BY <1>1 DEF Inv, MakingInv
  <1>3. created \in Nat BY DEF Inv, Typed
  <1>4. req'[d].kc \in 1..created' BY <1>1, <1>2, <1>3 DEF MakesOwn
  <1>5. \A r \in db' : r.kc # req'[d].kc BY <1>1, <1>2 DEF MakesOwn
  <1>6. \A e \in Callers : Making(e)' /\ req'[e].kc = req'[d].kc => e = d
    BY <1>1, <1>2 DEF MakesOwn
  <1>7. req'[d].id \in severed' \/ [id |-> req'[d].kc, user |-> req'[d].user] \in kc'
    BY <1>1, <1>2 DEF MakesOwn
  <1> QED BY <1>4, <1>5, <1>6, <1>7 DEF MakesOwn

(* Deletions stay about their row and its user.                             *)
LEMMA DeletingKept ==
  ASSUME Inv, NEW c \in Callers, Others(c), created' \in Nat, created <= created',
         severed \subseteq severed', stranded \subseteq stranded', events \subseteq events',
         \A r \in db' : \E s \in db : s.kc = r.kc /\ s.id = r.id,
         \A x \in kc' : \E y \in kc : y.id = x.id,
         Making(c)' => Making(c) /\ req'[c].kc = req[c].kc,
         Deleting(c)' => DeletesOwn(c)'
  PROVE DeletingInv'
  <1>1. \A d \in Callers : Making(d)' => Making(d) /\ req'[d].kc = req[d].kc
    OBVIOUS
  <1> SUFFICES ASSUME NEW d \in Callers \ {c}, Deleting(d)' PROVE DeletesOwn(d)'
    BY DEF DeletingInv
  <1>2. Deleting(d) /\ DeletesOwn(d) /\ req'[d] = req[d] BY DEF Inv, DeletingInv
  <1>3. created \in Nat BY DEF Inv, Typed
  <1>4. req'[d].kc \in 1..created' BY <1>2, <1>3 DEF DeletesOwn
  <1>5. \A r \in db' : r.kc = req'[d].kc => r.id = req'[d].id BY <1>2 DEF DeletesOwn
  <1>6. \A e \in Callers : Making(e)' => req'[e].kc # req'[d].kc BY <1>1, <1>2 DEF DeletesOwn
  <1>7. req'[d].at \in {"publish", "remove"} =>
          /\ req'[d].id \in severed'
          /\ req'[d].kc \in stranded' \/ \A x \in kc' : x.id # req'[d].kc
    BY <1>2 DEF DeletesOwn
  <1>8. req'[d].at = "remove" => \E e \in events' : e.kind = "PersonDeleted" /\ e.id = req'[d].id
    BY <1>2 DEF DeletesOwn
  <1> QED BY <1>4, <1>5, <1>6, <1>7, <1>8 DEF DeletesOwn

(* Changes stay alone, if one that comes severs the others of its person.   *)
LEMMA UpdatingKept ==
  ASSUME Inv, NEW c \in Callers, Others(c), severed \subseteq severed',
         \A r \in db : \/ r.id \in severed'
                       \/ \E s \in db' : s.id = r.id /\ s.user = r.user
                       \/ Updating(c) /\ r.id = req[c].id,
         Updating(c)' => /\ UpdatesKnown(c)'
                         /\ \A d \in Callers \ {c} : Updating(d) /\ req[d].id = req'[c].id
                              => req[d].id \in severed'
  PROVE UpdatingInv'
  <1> SUFFICES ASSUME NEW d \in Callers \ {c}, Updating(d)' PROVE UpdatesKnown(d)'
    BY DEF UpdatingInv
  <1>1. Updating(d) /\ UpdatesKnown(d) /\ req'[d] = req[d] BY DEF Inv, UpdatingInv
  <1>2. ASSUME req[d].id \notin severed' PROVE UpdatesAlone(d)'
    <2>1. UpdatesAlone(d) BY <1>1, <1>2 DEF UpdatesKnown
    <2>2. \A e \in Callers : Updating(e)' /\ req'[e].id = req'[d].id => e = d
      BY <1>1, <1>2, <2>1 DEF UpdatesAlone
    <2>3. PICK r \in db : r.id = req[d].id /\ (req[d].at # "announce" => r.user = req[d].old.user)
      BY <2>1 DEF UpdatesAlone
    <2>4. ~(Updating(c) /\ r.id = req[c].id) BY <1>1, <2>1, <2>3 DEF UpdatesAlone
    <2>5. \E s \in db' : s.id = r.id /\ s.user = r.user BY <1>2, <2>3, <2>4
    <2> QED BY <1>1, <2>2, <2>3, <2>5 DEF UpdatesAlone
  <1> QED BY <1>1, <1>2 DEF UpdatesKnown

(* A row and its user stay together.                                        *)
LEMMA AgreeKept ==
  ASSUME Inv, NEW c \in Callers, Others(c), severed \subseteq severed',
         NEW r \in db', r.id \notin severed', NEW s \in db,
         s.id = r.id, s.kc = r.kc, s.user = r.user,
         \A x \in kc : x.id = s.kc => x \in kc',
         Updating(c)' /\ req'[c].id = r.id /\ Agreed(s) => Goes(r, c)',
         ~Ahead(s, c)
  PROVE Agreed(r)' \/ \E d \in Callers : Ahead(r, d)'
  <1>1. CASE Agreed(s)
    <2>1. [id |-> r.kc, user |-> r.user] \in kc' BY <1>1 DEF Agreed
    <2>2. ASSUME NEW d \in Callers, Updating(d)', req'[d].id = r.id PROVE Goes(r, d)'
      BY <1>1, <2>2 DEF Agreed, Goes
    <2> QED BY <2>1, <2>2 DEF Agreed
  <1>2. CASE \E d \in Callers : Ahead(s, d)
    <2>1. PICK d \in Callers : Ahead(s, d) BY <1>2
    <2>2. d # c /\ req'[d] = req[d] BY <2>1
    <2>3. Ahead(r, d)' BY <2>1, <2>2 DEF Ahead
    <2> QED BY <2>3
  <1>3. s.id \notin severed OBVIOUS
  <1> QED BY <1>1, <1>2, <1>3 DEF Inv, AgreeInv

(* No user is left without its row.                                         *)
LEMMA OwnedKept ==
  ASSUME Inv, NEW c \in Callers, Others(c), stranded \subseteq stranded',
         \A x \in kc' : \E y \in kc : y.id = x.id,
         \A r \in db : \/ \E s \in db' : s.kc = r.kc
                       \/ r.kc \in stranded'
                       \/ \A x \in kc' : x.id # r.kc,
         Making(c) => \/ Making(c)' /\ req'[c].kc = req[c].kc
                      \/ req[c].kc \in stranded'
                      \/ \E s \in db' : s.kc = req[c].kc
                      \/ \A x \in kc' : x.id # req[c].kc
  PROVE OwnedInv'
  <1> SUFFICES ASSUME NEW x \in kc' PROVE Owned(x)'
    BY DEF OwnedInv
  <1>1. PICK y \in kc : y.id = x.id OBVIOUS
  <1>2. Owned(y) BY DEF Inv, OwnedInv
  <1>3. CASE \E r \in db : r.kc = y.id BY <1>1, <1>3 DEF Owned
  <1>4. CASE y.id \in stranded BY <1>1, <1>4 DEF Owned
  <1>5. CASE \E d \in Callers : Making(d) /\ req[d].kc = y.id
    <2>1. PICK d \in Callers : Making(d) /\ req[d].kc = y.id BY <1>5
    <2>2. CASE d = c BY <1>1, <2>1, <2>2 DEF Owned
    <2>3. CASE d # c
      <3>1. req'[d] = req[d] BY <2>3
      <3>2. Making(d)' /\ req'[d].kc = x.id BY <1>1, <2>1, <3>1
      <3> QED BY <3>2 DEF Owned
    <2> QED BY <2>2, <2>3
  <1> QED BY <1>2, <1>3, <1>4, <1>5 DEF Owned

(* A step of a request that changes neither the table nor Keycloak.         *)
LEMMA QuietKept ==
  ASSUME Inv, NEW c \in Callers, Others(c), db' = db, kc' = kc, created' = created,
         assigned' \subseteq {r.id : r \in db},
         severed \subseteq severed', stranded \subseteq stranded', events \subseteq events',
         Making(c)' => /\ Making(c)
                       /\ req'[c].kc = req[c].kc /\ req'[c].user = req[c].user
                       /\ req'[c].id = req[c].id,
         Making(c) => Making(c)' \/ req[c].kc \in stranded',
         Deleting(c)' => DeletesOwn(c)',
         Updating(c)' => /\ UpdatesKnown(c)'
                         /\ \A d \in Callers \ {c} : Updating(d) /\ req[d].id = req'[c].id
                              => req[d].id \in severed',
         \A r \in db : r.id \notin severed' =>
            /\ ~Ahead(r, c)
            /\ Updating(c)' /\ req'[c].id = r.id /\ Agreed(r) => Goes(r, c)'
  PROVE KeysInv' /\ MakingInv' /\ DeletingInv' /\ UpdatingInv' /\ AgreeInv' /\ OwnedInv'
  <1>1. created' \in Nat /\ created <= created' BY DEF Inv, Typed
  <1>2. KeysInv' BY DEF Inv, KeysInv
  <1>3. MakingInv' BY <1>1, MakingKept
  <1>4. DeletingInv' BY <1>1, DeletingKept
  <1>5. UpdatingInv' BY UpdatingKept
  <1>6. AgreeInv'
    <2> SUFFICES ASSUME NEW r \in db', r.id \notin severed' PROVE Agreed(r)' \/ \E d \in Callers : Ahead(r, d)'
      BY DEF AgreeInv
    <2> QED BY AgreeKept
  <1>7. OwnedInv' BY OwnedKept
  <1> QED BY <1>2, <1>3, <1>4, <1>5, <1>6, <1>7

(* The same, if the request is no change.                                   *)
LEMMA QuietKeptNoUpdate ==
  ASSUME Inv, NEW c \in Callers, Others(c), db' = db, kc' = kc, created' = created,
         assigned' \subseteq {r.id : r \in db},
         severed \subseteq severed', stranded \subseteq stranded', events \subseteq events',
         Making(c)' => /\ Making(c)
                       /\ req'[c].kc = req[c].kc /\ req'[c].user = req[c].user
                       /\ req'[c].id = req[c].id,
         Making(c) => Making(c)' \/ req[c].kc \in stranded',
         Deleting(c)' => DeletesOwn(c)',
         ~Updating(c), ~Updating(c)'
  PROVE KeysInv' /\ MakingInv' /\ DeletingInv' /\ UpdatingInv' /\ AgreeInv' /\ OwnedInv'
  <1>1. \A r \in db : ~Ahead(r, c) BY DEF Ahead
  <1> QED BY <1>1, QuietKept

(* A counted failure is within the bound.                                   *)
LEMMA FaultTyped ==
  ASSUME Typed, Fault
  PROVE faults' \in 0..MaxFaults
  BY PersonAssumption DEF Typed, Fault

-----------------------------------------------------------------------------
(* Requests that begin                                                     *)

(* What is begun takes an idle place and changes no store.                  *)
LEMMA Begins ==
  ASSUME Inv, NEW c \in Clients, NEW r \in Requests, Begin(c, r), severed' \subseteq Persons
  PROVE /\ Typed' /\ c \in Callers /\ Others(c) /\ req'[c] = r /\ req[c] = Idle
        /\ ~Making(c) /\ ~Updating(c)
        /\ db' = db /\ kc' = kc /\ created' = created /\ events' = events /\ stranded' = stranded
        /\ assigned' \subseteq {s.id : s \in db}
  <1>1. c \in Callers BY DEF Callers
  <1>2. Continue(c, r) /\ req[c] = Idle BY DEF Begin
  <1>3. req' \in [Callers -> Requests] /\ req'[c] = r /\ Others(c)
    BY <1>1, <1>2, Moves DEF Inv
  <1>4. requests' \in 0..MaxRequests BY PersonAssumption DEF Begin, Inv, Typed
  <1>5. UNCHANGED <<db, assigned, kc, events, created, faults, stranded>> BY DEF Begin, stores
  <1>6. assigned' \subseteq {s.id : s \in db} BY <1>5 DEF Inv, KeysInv
  <1>7. Typed' BY <1>3, <1>4, <1>5 DEF Inv, Typed
  <1> QED BY <1>1, <1>2, <1>3, <1>5, <1>6, <1>7 DEF Idle

(* The plain username of a name.                                            *)
LEMMA PlainUsername == \A n \in Names : <<n.base, 0>> \in Usernames
  BY DEF Usernames

(* A creation that begins has done nothing yet. *)
LEMMA CreationBegins ==
  ASSUME Inv, NEW c \in Clients, CreateBegins(c) \/ MigrationBegins(c)
  PROVE Inv'
  <1>1. PICK p \in Persons, n \in Names, nr \in Nummern \union {NoNummer},
             at \in {"search", "nummer"}, migrated \in BOOLEAN :
          Begin(c, NewPerson(p, n, nr, at, migrated)) /\ severed' = severed
    BY DEF CreateBegins, MigrationBegins
  <1> DEFINE r == NewPerson(p, n, nr, at, migrated)
  <1>2. r \in Creates /\ r.op = "create" /\ r.at \in {"search", "nummer"}
    BY PlainUsername DEF NewPerson, Creates
  <1>3. r \in Requests BY <1>2 DEF Requests
  <1>4. severed' \subseteq Persons BY <1>1 DEF Inv, Typed
  <1> HIDE DEF r
  <1>5. /\ Typed' /\ c \in Callers /\ Others(c) /\ req'[c] = r /\ ~Making(c) /\ ~Updating(c)
        /\ db' = db /\ kc' = kc /\ created' = created /\ events' = events /\ stranded' = stranded
        /\ assigned' \subseteq {s.id : s \in db}
    BY <1>1, <1>3, <1>4, Begins DEF r
  <1>6. ~Making(c)' /\ ~Deleting(c)' /\ ~Updating(c)' BY <1>2, <1>5
  <1> QED BY <1>1, <1>5, <1>6, QuietKeptNoUpdate DEF Inv

(* A deletion that begins has done nothing yet. *)
LEMMA DeletionBegins ==
  ASSUME Inv, NEW c \in Clients, DeleteBegins(c)
  PROVE Inv'
  <1>1. PICK p \in Persons : Begin(c, [op |-> "delete", at |-> "load", id |-> p]) /\ severed' = severed
    BY DEF DeleteBegins
  <1> DEFINE r == [op |-> "delete", at |-> "load", id |-> p]
  <1>2. r \in Loads /\ r.op = "delete" /\ r.at = "load" BY DEF Loads
  <1>3. r \in Requests BY <1>2 DEF Requests
  <1>4. severed' \subseteq Persons BY <1>1 DEF Inv, Typed
  <1> HIDE DEF r
  <1>5. /\ Typed' /\ c \in Callers /\ Others(c) /\ req'[c] = r /\ ~Making(c) /\ ~Updating(c)
        /\ db' = db /\ kc' = kc /\ created' = created /\ events' = events /\ stranded' = stranded
        /\ assigned' \subseteq {s.id : s \in db}
    BY <1>1, <1>3, <1>4, Begins DEF r
  <1>6. ~Making(c)' /\ ~Deleting(c)' /\ ~Updating(c)' BY <1>2, <1>5
  <1> QED BY <1>1, <1>5, <1>6, QuietKeptNoUpdate DEF Inv

(* A change that begins, of a row that is there, at its first step.         *)
LEMMA ChangeBegins ==
  ASSUME Inv, NEW c \in Clients, NEW o \in db, NEW r \in Updates, Begin(c, r),
         r.id = o.id, r.old = o, r.at \in {"nummer", "save"},
         severed \subseteq severed', severed' \subseteq Persons,
         o.id \in severed' \/ r.user = o.user,
         r.at = "nummer" => r.user = o.user,
         \A d \in Callers : Updating(d) /\ req[d].id = o.id => o.id \in severed'
  PROVE Inv'
  <1>1. r \in Requests /\ r.op = "update" BY DEF Requests, Updates
  <1>2. /\ Typed' /\ c \in Callers /\ Others(c) /\ req'[c] = r /\ ~Making(c) /\ ~Updating(c)
        /\ db' = db /\ kc' = kc /\ created' = created /\ events' = events /\ stranded' = stranded
        /\ assigned' \subseteq {s.id : s \in db}
    BY <1>1, Begins
  <1>3. ~Making(c)' /\ ~Deleting(c)' /\ Updating(c)' BY <1>1, <1>2
  <1>4. UpdatesKnown(c)'
    <2>1. ASSUME o.id \notin severed' PROVE UpdatesAlone(c)'
      <3>1. \A d \in Callers : Updating(d)' /\ req'[d].id = o.id => d = c BY <1>2, <2>1
      <3>2. o \in db' /\ o.id = req'[c].id /\ o.user = req'[c].old.user BY <1>2
      <3> QED BY <1>2, <3>1, <3>2 DEF UpdatesAlone
    <2> QED BY <1>2, <2>1 DEF UpdatesKnown
  <1>5. \A d \in Callers \ {c} : Updating(d) /\ req[d].id = req'[c].id => req[d].id \in severed'
    BY <1>2
  <1>6. ASSUME NEW s \in db, s.id \notin severed'
        PROVE /\ ~Ahead(s, c)
              /\ Updating(c)' /\ req'[c].id = s.id /\ Agreed(s) => Goes(s, c)'
    <2>1. s.id = o.id => s = o BY DEF Inv, KeysInv
    <2> QED BY <1>2, <1>6, <2>1 DEF Ahead, Goes
  <1> QED BY <1>2, <1>3, <1>4, <1>5, <1>6, QuietKept DEF Inv

(* Whoever changes a person is one of those at work on it.                  *)
LEMMA UpdatingOn ==
  ASSUME Typed, NEW d \in Callers, Updating(d)
  PROVE d \in On(req[d].id)
  BY DEF On, Idle

(* A renaming that begins has loaded the person's row. *)
LEMMA UpdateBeginsKeeps ==
  ASSUME Inv, NEW c \in Clients, UpdateBegins(c)
  PROVE Inv'
  <1>1. PICK o \in db, n \in Names, nr \in Nummern \union {NoNummer} :
          /\ Begin(c, [op |-> "update", at |-> "nummer", id |-> o.id, old |-> o, name |-> n,
                       nummer |-> nr, user |-> o.user, kc |-> 0, put |-> FALSE])
          /\ Overlaps(o.id)
    BY DEF UpdateBegins
  <1> DEFINE r == [op |-> "update", at |-> "nummer", id |-> o.id, old |-> o, name |-> n,
                   nummer |-> nr, user |-> o.user, kc |-> 0, put |-> FALSE]
  <1>2. o \in Rows /\ o.id \in Persons /\ o.user \in Usernames BY DEF Inv, Typed, Rows
  <1>3. r \in Updates /\ r.id = o.id /\ r.old = o /\ r.at = "nummer" /\ r.user = o.user
    BY <1>2 DEF Updates
  <1>4. severed \subseteq severed' /\ severed' \subseteq Persons BY <1>1, <1>2 DEF Overlaps, Inv, Typed
  <1>5. \A d \in Callers : Updating(d) /\ req[d].id = o.id => o.id \in severed'
    BY <1>1, UpdatingOn DEF Overlaps, Inv
  <1>6. Begin(c, r) BY <1>1
  <1> HIDE DEF r
  <1> QED BY <1>3, <1>4, <1>5, <1>6, ChangeBegins

(* So has a PUT that begins. *)
LEMMA PutBeginsKeeps ==
  ASSUME Inv, NEW c \in Clients, PutBegins(c)
  PROVE Inv'
  <1>1. PICK o \in db, n \in Names : \E u \in {o.user, <<n.base, 0>>} :
          /\ Begin(c, [op |-> "update", at |-> "save", id |-> o.id, old |-> o, name |-> n,
                       nummer |-> NoNummer, user |-> u, kc |-> 0, put |-> TRUE])
          /\ severed' = severed \union {q \in {o.id} : u # o.user \/ \E d \in On(q) : req[d].op = "update"}
    BY DEF PutBegins
  <1>2. PICK u \in {o.user, <<n.base, 0>>} :
          /\ Begin(c, [op |-> "update", at |-> "save", id |-> o.id, old |-> o, name |-> n,
                       nummer |-> NoNummer, user |-> u, kc |-> 0, put |-> TRUE])
          /\ severed' = severed \union {q \in {o.id} : u # o.user \/ \E d \in On(q) : req[d].op = "update"}
    BY <1>1
  <1> DEFINE r == [op |-> "update", at |-> "save", id |-> o.id, old |-> o, name |-> n,
                   nummer |-> NoNummer, user |-> u, kc |-> 0, put |-> TRUE]
  <1>3. o \in Rows /\ o.id \in Persons /\ o.user \in Usernames BY DEF Inv, Typed, Rows
  <1>4. u \in Usernames BY <1>3, PlainUsername
  <1>5. r \in Updates /\ r.id = o.id /\ r.old = o /\ r.at = "save" /\ r.user = u
    BY <1>3, <1>4 DEF Updates
  <1>6. severed \subseteq severed' /\ severed' \subseteq Persons BY <1>2, <1>3 DEF Inv, Typed
  <1>7. u = o.user \/ o.id \in severed' BY <1>2
  <1>8. \A d \in Callers : Updating(d) /\ req[d].id = o.id => o.id \in severed'
    BY <1>2, UpdatingOn DEF Inv
  <1>9. Begin(c, r) BY <1>2
  <1> HIDE DEF r
  <1> QED BY <1>5, <1>6, <1>7, <1>8, <1>9, ChangeBegins

-----------------------------------------------------------------------------
(* Steps that change neither the table nor Keycloak                        *)

(* A request that is not at a store ends.                                   *)
LEMMA EndKeeps ==
  ASSUME Inv, NEW c \in Callers, End(c), UNCHANGED <<stores, requests, stranded, severed>>,
         faults' \in 0..MaxFaults,
         ~Making(c), ~(Updating(c) /\ req[c].at = "save")
  PROVE Inv'
  <1>1. /\ req' \in [Callers -> Requests] /\ req'[c] = Idle /\ Others(c)
        /\ ~Making(c)' /\ ~Deleting(c)' /\ ~Updating(c)'
    BY Ends DEF Inv
  <1>2. Typed' BY <1>1 DEF Inv, Typed, stores
  <1>3. \A r \in db : ~Ahead(r, c) BY DEF Ahead
  <1>4. assigned' \subseteq {r.id : r \in db} BY DEF Inv, KeysInv, stores
  <1>5. KeysInv' /\ MakingInv' /\ DeletingInv' /\ UpdatingInv' /\ AgreeInv' /\ OwnedInv'
    BY <1>1, <1>3, <1>4, QuietKept DEF stores
  <1> QED BY <1>2, <1>5 DEF Inv

(* A creation moves on without a user of its own.                           *)
LEMMA CreateQuiet ==
  ASSUME Inv, NEW c \in Callers, NEW r \in Creates, Continue(c, r),
         req[c].op = "create", ~Making(c), r.at \notin {"password", "undo", "commit"},
         UNCHANGED <<stores, requests, faults, stranded, severed>>
  PROVE Inv'
  <1>1. r \in Requests /\ r.op = "create" BY DEF Requests, Creates
  <1>2. req' \in [Callers -> Requests] /\ req'[c] = r /\ Others(c)
    BY <1>1, Moves DEF Inv
  <1>3. Typed' BY <1>2 DEF Inv, Typed, stores
  <1>4. assigned' \subseteq {s.id : s \in db} BY DEF Inv, KeysInv, stores
  <1>5. ~Making(c)' /\ ~Deleting(c)' /\ ~Updating(c)' /\ ~Updating(c) BY <1>1, <1>2
  <1>6. KeysInv' /\ MakingInv' /\ DeletingInv' /\ UpdatingInv' /\ AgreeInv' /\ OwnedInv'
    BY <1>2, <1>4, <1>5, QuietKeptNoUpdate DEF stores
  <1> QED BY <1>3, <1>6 DEF Inv

(* A change moves on: it knows what it knew, and goes by the row.           *)
LEMMA UpdateQuiet ==
  ASSUME Inv, NEW c \in Callers, NEW r \in Updates, Continue(c, r),
         req[c].op = "update", req[c].at # "save",
         req[c].at # "announce", r.at # "announce", r.at # "nummer",
         r.id = req[c].id, r.old = req[c].old,
         \A s \in db : s.id = req[c].id /\ s.id \notin severed /\ Agreed(s)
           => /\ r.at = "rename" => r.kc = s.kc
              /\ r.at = "save" => r.user = s.user,
         UNCHANGED <<stores, requests, faults, stranded, severed>>
  PROVE Inv'
  <1>1. r \in Requests /\ r.op = "update" BY DEF Requests, Updates
  <1>2. req' \in [Callers -> Requests] /\ req'[c] = r /\ Others(c)
    BY <1>1, Moves DEF Inv
  <1>3. Typed' BY <1>2 DEF Inv, Typed, stores
  <1>4. assigned' \subseteq {s.id : s \in db} BY DEF Inv, KeysInv, stores
  <1>5. ~Making(c)' /\ ~Deleting(c)' /\ Updating(c)' /\ ~Making(c) BY <1>1, <1>2
  <1>6. UpdatesKnown(c) BY DEF Inv, UpdatingInv
  <1>7. UpdatesKnown(c)'
    <2>1. ASSUME req[c].id \notin severed PROVE UpdatesAlone(c)'
      <3>1. UpdatesAlone(c) BY <1>6, <2>1 DEF UpdatesKnown
      <3> QED BY <1>2, <3>1 DEF UpdatesAlone, stores
    <2> QED BY <1>2, <1>6, <2>1 DEF UpdatesKnown
  <1>8. \A d \in Callers \ {c} : Updating(d) /\ req[d].id = req'[c].id => req[d].id \in severed'
    BY <1>2, <1>6 DEF UpdatesKnown, UpdatesAlone
  <1>9. \A s \in db : s.id \notin severed' =>
          /\ ~Ahead(s, c)
          /\ Updating(c)' /\ req'[c].id = s.id /\ Agreed(s) => Goes(s, c)'
    BY <1>2 DEF Ahead, Goes
  <1>10. KeysInv' /\ MakingInv' /\ DeletingInv' /\ UpdatingInv' /\ AgreeInv' /\ OwnedInv'
    BY <1>2, <1>4, <1>5, <1>7, <1>8, <1>9, QuietKept DEF stores
  <1> QED BY <1>3, <1>10 DEF Inv

(* The next username to try.                                                *)
LEMMA NextUsername ==
  \A u \in Usernames : <<u[1], u[2] + 1>> \in Usernames
  BY DEF Usernames

(* The search for persons without Kontexte only reads. *)
LEMMA SearchKeeps ==
  ASSUME Inv, NEW c \in Callers, Search(c)
  PROVE Inv'
  <1>1. UNCHANGED <<stores, requests, faults, stranded, severed>> /\ req[c].at = "search"
    BY DEF Search
  <1> DEFINE u == <<req[c].user[1], req[c].user[2] + 1>>
             more == [req[c] EXCEPT !.user = u]
             on(at) == [req[c] EXCEPT !.at = at]
  <1>2. CASE req[c].op = "create"
    <2>1. req[c] \in Creates /\ req[c].user \in Usernames BY <1>2, Kinds DEF Inv, Creates
    <2>2. u \in Usernames BY <2>1, NextUsername
    <2> HIDE DEF u
    <2>3. more \in Creates /\ more.at = "search" BY <1>1, <2>1, <2>2 DEF Creates
    <2>4. on("nummer") \in Creates /\ on("nummer").at = "nummer" BY <2>1 DEF Creates
    <2>5. Continue(c, more) \/ Continue(c, on("nummer")) BY <1>2 DEF Search, To, u
    <2> HIDE DEF more, on
    <2> QED BY <1>1, <1>2, <2>3, <2>4, <2>5, CreateQuiet
  <1>3. CASE req[c].op = "update"
    <2>1. req[c] \in Updates /\ req[c].user \in Usernames BY <1>3, Kinds DEF Inv, Updates
    <2>2. u \in Usernames BY <2>1, NextUsername
    <2> HIDE DEF u
    <2>3. more \in Updates /\ more.at = "search" /\ more.id = req[c].id /\ more.old = req[c].old
      BY <1>1, <2>1, <2>2 DEF Updates
    <2>4. on("find") \in Updates /\ on("find").at = "find" /\ on("find").id = req[c].id
          /\ on("find").old = req[c].old
      BY <2>1 DEF Updates
    <2>5. Continue(c, more) \/ Continue(c, on("find")) BY <1>3 DEF Search, To, u
    <2> HIDE DEF more, on
    <2> QED BY <1>1, <1>3, <2>3, <2>4, <2>5, UpdateQuiet
  <1>4. req[c].op \in {"create", "update"}
    <2>1. req[c] \in Requests BY Kinds DEF Inv
    <2> QED BY <1>1, <2>1 DEF Requests, Idle, Creates, Loads, Deletes, Updates
  <1> QED BY <1>2, <1>3, <1>4

(* Checking the personal number in a creation only reads. *)
LEMMA CreateChecksNummerKeeps ==
  ASSUME Inv, NEW c \in Callers, CreateChecksNummer(c)
  PROVE Inv'
  <1>1. UNCHANGED <<stores, requests, faults, stranded, severed>> /\ At(c, "create", "nummer")
    BY DEF CreateChecksNummer
  <1> DEFINE r == [req[c] EXCEPT !.at = "user"]
  <1>2. r \in Creates /\ r.at = "user"
    <2>1. req[c] \in Creates BY <1>1, Kinds DEF Inv
    <2> QED BY <2>1 DEF Creates
  <1>3. CASE End(c)
    <2>1. faults' \in 0..MaxFaults BY <1>1 DEF Inv, Typed
    <2> QED BY <1>1, <1>3, <2>1, EndKeeps
  <1>4. CASE Continue(c, r)
    <2> HIDE DEF r
    <2> QED BY <1>1, <1>2, <1>4, CreateQuiet
  <1> QED BY <1>3, <1>4 DEF CreateChecksNummer, To

(* The password set, or its failure and with it the undoing of the user. *)
LEMMA SetPasswordKeeps ==
  ASSUME Inv, NEW c \in Callers, SetPassword(c)
  PROVE Inv'
  <1>1. UNCHANGED <<stores, requests, stranded, severed>> /\ At(c, "create", "password")
    BY DEF SetPassword
  <1>2. PICK at \in {"commit", "undo"} : To(c, at)
    BY DEF SetPassword
  <1>3. /\ req' \in [Callers -> Requests] /\ Others(c)
        /\ req'[c].op = "create" /\ req'[c].at = at /\ req'[c].id = req[c].id
        /\ req'[c].kc = req[c].kc /\ req'[c].user = req[c].user
    BY <1>1, <1>2, CreateMoves DEF Inv
  <1>4. faults' \in 0..MaxFaults
    <2>1. faults' = faults \/ Fault BY DEF SetPassword
    <2> QED BY <2>1, FaultTyped DEF Inv, Typed
  <1>5. Typed' BY <1>1, <1>3, <1>4 DEF Inv, Typed, stores
  <1>6. assigned' \subseteq {s.id : s \in db} BY <1>1 DEF Inv, KeysInv, stores
  <1>7. Making(c) /\ Making(c)' /\ ~Deleting(c)' /\ ~Updating(c)' /\ ~Updating(c) BY <1>1, <1>3
  <1>8. KeysInv' /\ MakingInv' /\ DeletingInv' /\ UpdatingInv' /\ AgreeInv' /\ OwnedInv'
    BY <1>1, <1>3, <1>6, <1>7, QuietKeptNoUpdate DEF stores
  <1> QED BY <1>5, <1>8 DEF Inv

(* The Kontexte of a person just created. *)
LEMMA CreateKontexteKeeps ==
  ASSUME Inv, NEW c \in Callers, CreateKontexte(c)
  PROVE Inv'
  <1>1. /\ End(c) /\ At(c, "create", "kontexte")
        /\ UNCHANGED <<db, kc, events, created, requests, faults, stranded, severed>>
    BY DEF CreateKontexte
  <1>2. /\ req' \in [Callers -> Requests] /\ Others(c)
        /\ ~Making(c)' /\ ~Deleting(c)' /\ ~Updating(c)'
    BY <1>1, Ends DEF Inv
  <1>3. assigned' \subseteq {s.id : s \in db}
    <2>1. assigned \subseteq {s.id : s \in db} BY DEF Inv, KeysInv
    <2> QED BY <2>1 DEF CreateKontexte, RowsOf
  <1>4. {s.id : s \in db} \subseteq Persons BY DEF Inv, Typed, Rows
  <1>5. Typed' BY <1>1, <1>2, <1>3, <1>4 DEF Inv, Typed
  <1>6. ~Making(c) /\ ~Updating(c) BY <1>1
  <1>7. KeysInv' /\ MakingInv' /\ DeletingInv' /\ UpdatingInv' /\ AgreeInv' /\ OwnedInv'
    BY <1>1, <1>2, <1>3, <1>6, QuietKeptNoUpdate
  <1> QED BY <1>5, <1>7 DEF Inv

(* Loading the person to be deleted only reads. *)
LEMMA DeleteLoadsKeeps ==
  ASSUME Inv, NEW c \in Callers, DeleteLoads(c)
  PROVE Inv'
  <1>1. UNCHANGED <<stores, requests, faults, stranded, severed>> /\ At(c, "delete", "load")
    BY DEF DeleteLoads
  <1>2. CASE End(c)
    <2>1. faults' \in 0..MaxFaults BY <1>1 DEF Inv, Typed
    <2> QED BY <1>1, <1>2, <2>1, EndKeeps
  <1>3. CASE \E r \in RowsOf(req[c].id) :
               Continue(c, [op |-> "delete", at |-> "user", id |-> r.id, kc |-> r.kc, user |-> r.user])
    <2>1. PICK r \in RowsOf(req[c].id) :
               Continue(c, [op |-> "delete", at |-> "user", id |-> r.id, kc |-> r.kc, user |-> r.user])
      BY <1>3
    <2> DEFINE q == [op |-> "delete", at |-> "user", id |-> r.id, kc |-> r.kc, user |-> r.user]
    <2>2. r \in db /\ r \in Rows BY DEF RowsOf, Inv, Typed
    <2>3. /\ q \in Deletes /\ q.op = "delete" /\ q.at = "user" /\ q.id = r.id /\ q.kc = r.kc
      BY <2>2 DEF Deletes, Rows
    <2>4. q \in Requests BY <2>3 DEF Requests
    <2>5. Continue(c, q) BY <2>1
    <2> HIDE DEF q
    <2>6. req' \in [Callers -> Requests] /\ req'[c] = q /\ Others(c)
      BY <2>4, <2>5, Moves DEF Inv
    <2>7. Typed' BY <1>1, <2>6 DEF Inv, Typed, stores
    <2>8. assigned' \subseteq {s.id : s \in db} BY <1>1 DEF Inv, KeysInv, stores
    <2>9. ~Making(c)' /\ ~Updating(c)' /\ ~Making(c) /\ ~Updating(c) BY <1>1, <2>3, <2>6
    <2>10. DeletesOwn(c)'
      <3>1. r.kc \in 1..created BY <2>2 DEF Inv, KeysInv
      <3>2. \A s \in db : s.kc = r.kc => s.id = r.id BY <2>2 DEF Inv, KeysInv
      <3>3. \A d \in Callers : Making(d)' => req'[d].kc # r.kc
        BY <2>2, <2>6, <2>9 DEF Inv, MakingInv, MakesOwn
      <3> QED BY <1>1, <2>3, <2>6, <3>1, <3>2, <3>3 DEF DeletesOwn, stores
    <2>11. KeysInv' /\ MakingInv' /\ DeletingInv' /\ UpdatingInv' /\ AgreeInv' /\ OwnedInv'
      BY <1>1, <2>6, <2>8, <2>9, <2>10, QuietKeptNoUpdate DEF stores
    <2> QED BY <2>7, <2>11 DEF Inv
  <1> QED BY <1>2, <1>3 DEF DeleteLoads

(* The event of a deletion, published before the row goes. *)
LEMMA DeletePublishesKeeps ==
  ASSUME Inv, NEW c \in Callers, DeletePublishes(c)
  PROVE Inv'
  <1>1. /\ UNCHANGED <<db, assigned, kc, created, requests, faults, stranded, severed>>
        /\ At(c, "delete", "publish") /\ To(c, "remove")
    BY DEF DeletePublishes
  <1> DEFINE e == [kind |-> "PersonDeleted", id |-> req[c].id, user |-> req[c].user]
  <1>2. Deleting(c) /\ req[c] \in Deletes BY <1>1, Kinds DEF Inv
  <1>3. e \in [kind : {"PersonDeleted", "PersonRenamed"}, id : Persons, user : Usernames]
        /\ e.kind = "PersonDeleted" /\ e.id = req[c].id
    BY <1>2 DEF Deletes
  <1>4. events' = events \union {e} BY DEF DeletePublishes
  <1> HIDE DEF e
  <1>5. /\ req' \in [Callers -> Requests] /\ Others(c)
        /\ req'[c].op = "delete" /\ req'[c].at = "remove" /\ req'[c].id = req[c].id
        /\ req'[c].kc = req[c].kc
    BY <1>1, <1>2, DeleteMoves DEF Inv
  <1>6. Typed' BY <1>1, <1>3, <1>4, <1>5 DEF Inv, Typed
  <1>7. assigned' \subseteq {s.id : s \in db} BY <1>1 DEF Inv, KeysInv
  <1>8. ~Making(c)' /\ ~Updating(c)' /\ ~Making(c) /\ ~Updating(c) BY <1>1, <1>5
  <1>9. DeletesOwn(c)'
    <2>1. DeletesOwn(c) BY <1>2 DEF Inv, DeletingInv
    <2>2. \A d \in Callers : Making(d)' => req'[d].kc # req'[c].kc
      BY <1>5, <1>8, <2>1 DEF DeletesOwn
    <2>3. \E f \in events' : f.kind = "PersonDeleted" /\ f.id = req'[c].id BY <1>3, <1>4, <1>5
    <2> QED BY <1>1, <1>5, <2>1, <2>2, <2>3 DEF DeletesOwn
  <1>10. KeysInv' /\ MakingInv' /\ DeletingInv' /\ UpdatingInv' /\ AgreeInv' /\ OwnedInv'
    BY <1>1, <1>4, <1>5, <1>7, <1>8, <1>9, QuietKeptNoUpdate
  <1> QED BY <1>6, <1>10 DEF Inv

(* Checking the personal number in an update only reads. *)
LEMMA UpdateChecksNummerKeeps ==
  ASSUME Inv, NEW c \in Callers, UpdateChecksNummer(c)
  PROVE Inv'
  <1>1. UNCHANGED <<stores, requests, faults, stranded, severed>> /\ At(c, "update", "nummer")
    BY DEF UpdateChecksNummer
  <1>2. req[c] \in Updates BY <1>1, Kinds DEF Inv
  <1> DEFINE u == <<req[c].name.base, 0>>
             q1 == [req[c] EXCEPT !.at = "search", !.user = u]
             q2 == [req[c] EXCEPT !.at = "save"]
  <1>3. u \in Usernames BY <1>2, PlainUsername DEF Updates
  <1>4. End(c) \/ Continue(c, q1) \/ Continue(c, q2)
    BY DEF UpdateChecksNummer, To
  <1> HIDE DEF u
  <1>5. q1 \in Updates /\ q1.at = "search" /\ q1.id = req[c].id /\ q1.old = req[c].old
    BY <1>2, <1>3 DEF Updates
  <1>6. q2 \in Updates /\ q2.at = "save" /\ q2.id = req[c].id /\ q2.old = req[c].old /\ q2.user = req[c].user
    BY <1>2 DEF Updates
  <1>7. CASE End(c)
    <2>1. faults' \in 0..MaxFaults BY <1>1 DEF Inv, Typed
    <2> QED BY <1>1, <1>7, <2>1, EndKeeps
  <1>8. CASE Continue(c, q1)
    <2> HIDE DEF q1
    <2> QED BY <1>1, <1>5, <1>8, UpdateQuiet
  <1>9. CASE Continue(c, q2)
    <2> HIDE DEF q2
    <2>1. UpdatesKnown(c) BY <1>1 DEF Inv, UpdatingInv
    <2>2. ASSUME NEW s \in db, s.id = req[c].id, s.id \notin severed PROVE q2.user = s.user
      <3>1. PICK r \in db : r.id = req[c].id /\ r.user = req[c].old.user
        BY <1>1, <2>1, <2>2 DEF UpdatesKnown, UpdatesAlone
      <3>2. r = s BY <2>2, <3>1 DEF Inv, KeysInv
      <3> QED BY <1>1, <1>6, <2>1, <3>1, <3>2 DEF UpdatesKnown
    <2> QED BY <1>1, <1>6, <1>9, <2>2, UpdateQuiet
  <1> QED BY <1>4, <1>7, <1>8, <1>9

(* Looking for a user of that name only reads. *)
LEMMA FindUserKeeps ==
  ASSUME Inv, NEW c \in Callers, FindUser(c)
  PROVE Inv'
  <1>1. UNCHANGED <<stores, requests, faults, stranded, severed>> /\ At(c, "update", "find")
    BY DEF FindUser
  <1>2. req[c] \in Updates BY <1>1, Kinds DEF Inv
  <1>3. CASE End(c)
    <2>1. faults' \in 0..MaxFaults BY <1>1 DEF Inv, Typed
    <2> QED BY <1>1, <1>3, <2>1, EndKeeps
  <1>4. CASE \E x \in UsersNamed(req[c].old.user) : Continue(c, [req[c] EXCEPT !.at = "rename", !.kc = x.id])
    <2>1. PICK x \in UsersNamed(req[c].old.user) : Continue(c, [req[c] EXCEPT !.at = "rename", !.kc = x.id])
      BY <1>4
    <2> DEFINE q == [req[c] EXCEPT !.at = "rename", !.kc = x.id]
    <2>2. x \in kc /\ x.user = req[c].old.user /\ x.id \in Nat BY DEF UsersNamed, Inv, Typed
    <2>3. q \in Updates /\ q.at = "rename" /\ q.id = req[c].id /\ q.old = req[c].old /\ q.kc = x.id
      BY <1>2, <2>2 DEF Updates
    <2>4. Continue(c, q) BY <2>1
    <2> HIDE DEF q
    <2>5. UpdatesKnown(c) BY <1>1 DEF Inv, UpdatingInv
    <2>6. ASSUME NEW s \in db, s.id = req[c].id, s.id \notin severed, Agreed(s) PROVE q.kc = s.kc
      <3>1. PICK r \in db : r.id = req[c].id /\ r.user = req[c].old.user
        BY <1>1, <2>5, <2>6 DEF UpdatesKnown, UpdatesAlone
      <3>2. r = s BY <2>6, <3>1 DEF Inv, KeysInv
      <3> DEFINE y == [id |-> s.kc, user |-> s.user]
      <3>3. y \in kc /\ y.user = x.user /\ y.id = s.kc BY <2>2, <2>6, <3>1, <3>2 DEF Agreed
      <3> HIDE DEF y
      <3>4. x.id = y.id BY <2>2, <3>3 DEF Inv, KeysInv
      <3> QED BY <2>3, <3>3, <3>4
    <2> QED BY <1>1, <2>3, <2>4, <2>6, UpdateQuiet
  <1> QED BY <1>3, <1>4 DEF FindUser

(* The event of a renaming. *)
LEMMA AnnounceUpdateKeeps ==
  ASSUME Inv, NEW c \in Callers, AnnounceUpdate(c)
  PROVE Inv'
  <1>1. /\ UNCHANGED <<db, assigned, kc, created, requests, faults, stranded, severed>>
        /\ At(c, "update", "announce") /\ End(c)
    BY DEF AnnounceUpdate
  <1>2. req[c] \in Updates BY <1>1, Kinds DEF Inv
  <1>3. events \subseteq events'
        /\ events' \subseteq [kind : {"PersonDeleted", "PersonRenamed"}, id : Persons, user : Usernames]
    BY <1>2 DEF AnnounceUpdate, Updates, Inv, Typed
  <1>4. /\ req' \in [Callers -> Requests] /\ Others(c)
        /\ ~Making(c)' /\ ~Deleting(c)' /\ ~Updating(c)'
    BY <1>1, Ends DEF Inv
  <1>5. Typed' BY <1>1, <1>3, <1>4 DEF Inv, Typed
  <1>6. assigned' \subseteq {s.id : s \in db} BY <1>1 DEF Inv, KeysInv
  <1>7. ~Making(c) /\ \A r \in db : ~Ahead(r, c) BY <1>1 DEF Ahead
  <1>8. KeysInv' /\ MakingInv' /\ DeletingInv' /\ UpdatingInv' /\ AgreeInv' /\ OwnedInv'
    BY <1>1, <1>3, <1>4, <1>6, <1>7, QuietKept
  <1> QED BY <1>5, <1>8 DEF Inv

(* A call that fails changes nothing of persons and users. *)
LEMMA CallFailsKeeps ==
  ASSUME Inv, NEW c \in Callers, CallFails(c)
  PROVE Inv'
  <1>1. /\ UNCHANGED <<stores, requests, stranded, severed>> /\ Fault /\ End(c)
        /\ ~Making(c) /\ ~(Updating(c) /\ req[c].at = "save")
    BY DEF CallFails
  <1>2. faults' \in 0..MaxFaults BY <1>1, FaultTyped DEF Inv
  <1> QED BY <1>1, <1>2, EndKeeps

-----------------------------------------------------------------------------
(* Creations and deletions at the stores                                   *)

(* A creation or deletion leaves the changes of others, and the rows that   *)
(* keep their users.                                                        *)
LEMMA UpdatesUndisturbed ==
  ASSUME Inv, NEW c \in Callers, Others(c), severed \subseteq severed',
         ~Updating(c), ~Updating(c)', db' = db,
         \A r \in db : r.id \notin severed' => \A x \in kc : x.id = r.kc => x \in kc'
  PROVE UpdatingInv' /\ AgreeInv'
  <1>1. UpdatingInv' BY UpdatingKept
  <1>2. AgreeInv'
    <2> SUFFICES ASSUME NEW r \in db', r.id \notin severed' PROVE Agreed(r)' \/ \E d \in Callers : Ahead(r, d)'
      BY DEF AgreeInv
    <2>1. ~Ahead(r, c) BY DEF Ahead
    <2> QED BY <2>1, AgreeKept
  <1> QED BY <1>1, <1>2

(* A new user of Keycloak belongs to the creation under way, and to no person yet. *)
LEMMA UserCreatedKeeps ==
  ASSUME Inv, NEW c \in Callers, At(c, "create", "user"), NEW next \in {"password", "commit"},
         UserCreated(c, next)
  PROVE Inv'
  <1>1. UNCHANGED <<db, assigned, events, requests, severed>> BY DEF UserCreated
  <1>2. CASE End(c) /\ UNCHANGED <<kc, created, faults, stranded>>
    <2>1. faults' \in 0..MaxFaults BY <1>2 DEF Inv, Typed
    <2> QED BY <1>1, <1>2, <2>1, EndKeeps DEF stores
  <1> DEFINE x == [id |-> created + 1, user |-> req[c].user]
             q == [req[c] EXCEPT !.kc = created + 1, !.at = next]
  <1>3. CASE /\ UsersNamed(req[c].user) = {}
             /\ created' = created + 1
             /\ kc' = kc \union {x}
             /\ \/ Continue(c, q) /\ UNCHANGED <<faults, stranded>>
                \/ Fault /\ End(c) /\ stranded' = stranded \union {created + 1}
    <2>1. req[c] \in Creates BY Kinds DEF Inv
    <2>2. created \in Nat /\ created' \in Nat /\ created <= created' BY <1>3 DEF Inv, Typed
    <2>3. x \in [id : Nat, user : Usernames] /\ x.id = created + 1 /\ x.user = req[c].user
      BY <2>1, <2>2 DEF Creates
    <2>4. /\ q \in Creates /\ q.op = "create" /\ q.at = next /\ q.kc = created + 1
          /\ q.id = req[c].id /\ q.user = req[c].user
      <3> DEFINE k == created + 1
      <3>1. k \in Nat BY <2>2
      <3>2. q = [req[c] EXCEPT !.kc = k, !.at = next] OBVIOUS
      <3>3. k = created + 1 OBVIOUS
      <3> HIDE DEF k, q
      <3>4. /\ q \in Creates /\ q.op = "create" /\ q.at = next /\ q.kc = k
            /\ q.id = req[c].id /\ q.user = req[c].user
        BY <2>1, <3>1, <3>2 DEF Creates
      <3> QED BY <3>3, <3>4
    <2>5. q \in Requests BY <2>4 DEF Requests
    <2>6. [id |-> created + 1, user |-> req[c].user] \in kc' BY <1>3
    <2> HIDE DEF q, x
    <2>7. Others(c) /\ req' \in [Callers -> Requests] /\ ~Deleting(c)' /\ ~Updating(c)'
      BY <1>3, <2>4, <2>5, Moves, Ends DEF Inv
    <2>8. \/ /\ req'[c] = q /\ stranded' = stranded
          \/ /\ stranded' = stranded \union {created + 1} /\ ~Making(c)'
      BY <1>3, <2>5, Moves, Ends DEF Inv
    <2>9. faults' \in 0..MaxFaults BY <1>3, FaultTyped DEF Inv, Typed
    <2>10. stranded \subseteq stranded' /\ stranded' \subseteq 1..created'
      BY <1>3, <2>2, <2>8 DEF Inv, Typed
    <2>11. Typed'
      <3>1. kc' \subseteq [id : Nat, user : Usernames] BY <1>3, <2>3 DEF Inv, Typed
      <3> QED BY <1>1, <2>2, <2>7, <2>9, <2>10, <3>1 DEF Inv, Typed
    <2>12. \A y \in kc : y.id \in 1..created /\ y.user # req[c].user /\ y.id # created + 1
      <3>1. \A y \in kc : y.id \in 1..created BY DEF Inv, KeysInv
      <3> QED BY <1>3, <2>2, <3>1 DEF UsersNamed
    <2>13. KeysInv'
      <3>1. \A y, z \in kc' : y.id = z.id \/ y.user = z.user => y = z
        BY <1>3, <2>3, <2>12 DEF Inv, KeysInv
      <3>2. \A y \in kc' : y.id \in 1..created' BY <1>3, <2>2, <2>3, <2>12
      <3>3. \A r \in db : r.kc \in 1..created' BY <1>3, <2>2 DEF Inv, KeysInv
      <3> QED BY <1>1, <3>1, <3>2, <3>3 DEF Inv, KeysInv
    <2>14. \A d \in Callers \ {c} : Making(d)' =>
             /\ Making(d) /\ MakesOwn(d) /\ req'[d] = req[d] /\ req[d].kc # created + 1
      <3>1. \A d \in Callers : Making(d) => MakesOwn(d) BY DEF Inv, MakingInv
      <3> QED BY <2>2, <2>7, <3>1 DEF MakesOwn
    <2>15. MakingInv'
      <3>1. ASSUME NEW d \in Callers \ {c}, Making(d)' PROVE MakesOwn(d)'
        <4>1. Making(d) /\ MakesOwn(d) /\ req'[d] = req[d] BY <2>14, <3>1
        <4>2. req'[d].kc \in 1..created' BY <2>2, <4>1 DEF MakesOwn
        <4>3. \A r \in db' : r.kc # req'[d].kc BY <1>1, <4>1 DEF MakesOwn
        <4>4. \A e \in Callers : Making(e)' /\ req'[e].kc = req'[d].kc => e = d
          <5>1. Making(c)' => req'[c].kc = created + 1 BY <2>4, <2>8
          <5>2. req'[d].kc # created + 1 BY <2>14, <3>1
          <5>3. \A e \in Callers \ {c} : Making(e)' => Making(e) /\ req'[e] = req[e] BY <2>14
          <5>4. \A e \in Callers \ {c} : Making(e)' /\ req'[e].kc = req'[d].kc => e = d
            BY <4>1, <5>3 DEF MakesOwn
          <5> QED BY <5>1, <5>2, <5>4
        <4>5. req'[d].id \in severed' \/ [id |-> req'[d].kc, user |-> req'[d].user] \in kc'
          BY <1>1, <1>3, <4>1 DEF MakesOwn
        <4> QED BY <4>2, <4>3, <4>4, <4>5 DEF MakesOwn
      <3>2. ASSUME Making(c)' PROVE MakesOwn(c)'
        <4>1. req'[c].kc = created + 1 /\ req'[c].user = req[c].user BY <2>4, <2>8, <3>2
        <4>2. req'[c].kc \in 1..created' BY <2>2, <4>1, <1>3
        <4>3. \A r \in db' : r.kc # req'[c].kc
          <5>1. \A r \in db : r.kc \in 1..created BY DEF Inv, KeysInv
          <5> QED BY <1>1, <2>2, <4>1, <5>1
        <4>4. \A e \in Callers : Making(e)' /\ req'[e].kc = req'[c].kc => e = c BY <2>14, <4>1
        <4>5. [id |-> req'[c].kc, user |-> req'[c].user] \in kc' BY <2>6, <4>1
        <4> QED BY <4>2, <4>3, <4>4, <4>5 DEF MakesOwn
      <3> QED BY <3>1, <3>2 DEF MakingInv
    <2>16. DeletingInv'
      <3> SUFFICES ASSUME NEW d \in Callers, Deleting(d)' PROVE DeletesOwn(d)'
        BY DEF DeletingInv
      <3>1. Deleting(d) /\ DeletesOwn(d) /\ req'[d] = req[d] BY <2>7 DEF Inv, DeletingInv
      <3>2. req'[d].kc \in 1..created' /\ req[d].kc # created + 1 BY <2>2, <3>1 DEF DeletesOwn
      <3>3. \A e \in Callers : Making(e)' => req'[e].kc # req'[d].kc
        BY <2>4, <2>8, <2>14, <3>1, <3>2 DEF DeletesOwn
      <3>4. \/ req[d].kc \in stranded'
            \/ \A y \in kc' : y.id # req[d].kc
            \/ ~(req[d].kc \in stranded \/ \A y \in kc : y.id # req[d].kc)
        BY <1>3, <2>3, <2>10, <3>2
      <3> QED BY <1>1, <3>1, <3>2, <3>3, <3>4 DEF DeletesOwn
    <2>17. UpdatingInv' /\ AgreeInv' BY <1>1, <1>3, <2>7, UpdatesUndisturbed
    <2>18. OwnedInv'
      <3> SUFFICES ASSUME NEW y \in kc' PROVE Owned(y)'
        BY DEF OwnedInv
      <3>1. CASE y \in kc
        <4>1. Owned(y) BY <3>1 DEF Inv, OwnedInv
        <4>2. \A d \in Callers : Making(d) => d # c /\ req'[d] = req[d] BY <2>7
        <4> QED BY <1>1, <2>10, <4>1, <4>2 DEF Owned
      <3>2. CASE y = x
        <4>1. y.id = created + 1 BY <2>3, <3>2
        <4>2. y.id \in stranded' \/ (Making(c)' /\ req'[c].kc = y.id) BY <2>4, <2>8, <4>1
        <4> QED BY <4>2 DEF Owned
      <3> QED BY <1>3, <3>1, <3>2
    <2> QED BY <2>11, <2>13, <2>15, <2>16, <2>17, <2>18 DEF Inv
  <1> QED BY <1>2, <1>3 DEF UserCreated

(* A user of a creation or of a deletion goes, or not.                      *)
LEMMA UserGoes ==
  ASSUME Inv, NEW c \in Callers, Others(c), req' \in [Callers -> Requests],
         UNCHANGED <<db, assigned, events, created, requests>>,
         NEW k \in 1..created,
         \/ kc' = {x \in kc : x.id # k} /\ UNCHANGED <<faults, stranded>>
         \/ Fault /\ stranded' = stranded \union {k} /\ UNCHANGED kc,
         severed \subseteq severed', severed' \subseteq Persons,
         ~Making(c)', ~Updating(c), ~Updating(c)',
         Making(c) => req[c].kc = k,
         \A d \in Callers \ {c} : Making(d) => req[d].kc # k,
         \A r \in db : r.kc = k => r.id \in severed',
         Deleting(c)' => DeletesOwn(c)'
  PROVE Inv'
  <1>1. faults' \in 0..MaxFaults BY FaultTyped DEF Inv, Typed
  <1>2. stranded \subseteq stranded' /\ stranded' \subseteq 1..created /\ kc' \subseteq kc
    BY DEF Inv, Typed
  <1>3. k \in stranded' \/ \A x \in kc' : x.id # k OBVIOUS
  <1>4. \A x \in kc : x.id # k => x \in kc' OBVIOUS
  <1>5. Typed' BY <1>1, <1>2 DEF Inv, Typed
  <1>6. KeysInv' BY <1>2 DEF Inv, KeysInv
  <1>7. created' \in Nat /\ created <= created' BY DEF Inv, Typed
  <1>8. MakingInv'
    <2>1. ASSUME NEW d \in Callers \ {c}, Making(d), [id |-> req[d].kc, user |-> req[d].user] \in kc
          PROVE [id |-> req[d].kc, user |-> req[d].user] \in kc'
      BY <1>4, <2>1
    <2> QED BY <1>7, <2>1, MakingKept
  <1>9. DeletingInv' BY <1>2, <1>7, DeletingKept
  <1>10. UpdatingInv' /\ AgreeInv' BY <1>4, UpdatesUndisturbed
  <1>11. OwnedInv' BY <1>2, <1>3, OwnedKept
  <1> QED BY <1>5, <1>6, <1>8, <1>9, <1>10, <1>11 DEF Inv

(* Undoing a creation removes the user that belongs to no person. *)
LEMMA UndoUserKeeps ==
  ASSUME Inv, NEW c \in Callers, UndoUser(c)
  PROVE Inv'
  <1>1. /\ At(c, "create", "undo") /\ End(c)
        /\ UNCHANGED <<db, assigned, events, created, requests, severed>>
    BY DEF UndoUser
  <1>2. MakesOwn(c) BY <1>1 DEF Inv, MakingInv
  <1>3. /\ req' \in [Callers -> Requests] /\ Others(c)
        /\ ~Making(c)' /\ ~Deleting(c)' /\ ~Updating(c)'
    BY <1>1, Ends DEF Inv
  <1>4. \A d \in Callers \ {c} : Making(d) => req[d].kc # req[c].kc BY <1>2 DEF MakesOwn
  <1>5. req[c].kc \in 1..created /\ \A r \in db : r.kc # req[c].kc BY <1>2 DEF MakesOwn
  <1>6. \/ kc' = {x \in kc : x.id # req[c].kc} /\ UNCHANGED <<faults, stranded>>
        \/ Fault /\ stranded' = stranded \union {req[c].kc} /\ UNCHANGED kc
    BY DEF UndoUser
  <1>7. severed \subseteq severed' /\ severed' \subseteq Persons BY <1>1 DEF Inv, Typed
  <1> QED BY <1>1, <1>3, <1>4, <1>5, <1>6, <1>7, UserGoes

(* The user of a person to be deleted goes before its row does. *)
LEMMA DeleteUserKeeps ==
  ASSUME Inv, NEW c \in Callers, DeleteUser(c)
  PROVE Inv'
  <1>1. /\ At(c, "delete", "user") /\ To(c, "publish")
        /\ UNCHANGED <<db, assigned, events, created, requests>>
        /\ severed' = severed \union {req[c].id}
    BY DEF DeleteUser
  <1>2. Deleting(c) /\ DeletesOwn(c) /\ req[c] \in Deletes
    BY <1>1, Kinds DEF Inv, DeletingInv
  <1>3. /\ req' \in [Callers -> Requests] /\ Others(c)
        /\ req'[c].op = "delete" /\ req'[c].at = "publish" /\ req'[c].id = req[c].id
        /\ req'[c].kc = req[c].kc
    BY <1>1, <1>2, DeleteMoves DEF Inv
  <1>4. \/ kc' = {x \in kc : x.id # req[c].kc} /\ UNCHANGED <<faults, stranded>>
        \/ Fault /\ stranded' = stranded \union {req[c].kc} /\ UNCHANGED kc
    BY DEF DeleteUser
  <1>5. severed \subseteq severed' /\ severed' \subseteq Persons
    BY <1>1, <1>2 DEF Deletes, Inv, Typed
  <1>6. ~Making(c) /\ ~Making(c)' /\ ~Updating(c) /\ ~Updating(c)' BY <1>1, <1>3
  <1>7. \A d \in Callers \ {c} : Making(d) => req[d].kc # req[c].kc BY <1>2 DEF DeletesOwn
  <1>8. req[c].kc \in 1..created /\ \A r \in db : r.kc = req[c].kc => r.id \in severed'
    BY <1>1, <1>2 DEF DeletesOwn
  <1>9. DeletesOwn(c)'
    <2>1. \A d \in Callers : Making(d)' => req'[d].kc # req'[c].kc BY <1>3, <1>6, <1>7
    <2>2. req[c].kc \in stranded' \/ \A x \in kc' : x.id # req[c].kc BY <1>4
    <2> QED BY <1>1, <1>2, <1>3, <2>1, <2>2 DEF DeletesOwn
  <1> QED BY <1>1, <1>3, <1>4, <1>5, <1>6, <1>7, <1>8, <1>9, UserGoes

(* A row that comes with the user that was made for it.                     *)
LEMMA RowComes ==
  ASSUME Inv, NEW c \in Callers, At(c, "create", "commit"),
         RowsOf(req[c].id) = {}, ~HasNummer(req[c].nummer),
         Others(c), req' \in [Callers -> Requests],
         ~Making(c)', ~Deleting(c)', ~Updating(c)',
         NEW w, w = [id |-> req[c].id, name |-> req[c].name, user |-> req[c].user, kc |-> req[c].kc,
                     nummer |-> req[c].nummer, unassigned |-> "no"],
         db' = db \union {w},
         UNCHANGED <<assigned, kc, events, created, requests, faults, stranded, severed>>
  PROVE Inv'
  <1>1. req[c] \in Creates /\ MakesOwn(c) BY Kinds DEF Inv, MakingInv
  <1>2. req[c].kc \in 1..created /\ created \in Nat BY <1>1 DEF MakesOwn, Inv, Typed
  <1>3. w \in Rows BY <1>1, <1>2 DEF Creates, Rows
  <1>4. w.id = req[c].id /\ w.user = req[c].user /\ w.kc = req[c].kc /\ w.nummer = req[c].nummer
    OBVIOUS
  <1>5. \A r \in db : /\ r.id # w.id /\ r.kc # w.kc
                      /\ r.nummer = w.nummer => r.nummer = NoNummer
    BY <1>1, <1>4 DEF RowsOf, HasNummer, MakesOwn
  <1>6. Typed' BY <1>3 DEF Inv, Typed
  <1>7. KeysInv'
    <2>1. \A r, s \in db' : r.id = s.id \/ r.kc = s.kc \/ (r.nummer = s.nummer /\ r.nummer # NoNummer) => r = s
      BY <1>5 DEF Inv, KeysInv
    <2>2. \A r \in db' : r.kc \in 1..created BY <1>2, <1>4 DEF Inv, KeysInv
    <2> QED BY <2>1, <2>2 DEF Inv, KeysInv
  <1>8. MakingInv'
    <2> SUFFICES ASSUME NEW d \in Callers \ {c}, Making(d)' PROVE MakesOwn(d)'
      BY DEF MakingInv
    <2>1. Making(d) /\ MakesOwn(d) /\ req'[d] = req[d] BY DEF Inv, MakingInv
    <2>2. req[d].kc # w.kc BY <1>1, <1>4, <2>1 DEF MakesOwn
    <2> QED BY <2>1, <2>2 DEF MakesOwn
  <1>9. DeletingInv'
    <2> SUFFICES ASSUME NEW d \in Callers \ {c}, Deleting(d)' PROVE DeletesOwn(d)'
      BY DEF DeletingInv
    <2>1. Deleting(d) /\ DeletesOwn(d) /\ req'[d] = req[d] BY DEF Inv, DeletingInv
    <2>2. req[d].kc # w.kc BY <1>4, <2>1 DEF DeletesOwn
    <2>3. \A e \in Callers : Making(e)' => req'[e].kc # req'[d].kc BY <2>1 DEF DeletesOwn
    <2>4. \A r \in db' : r.kc = req'[d].kc => r.id = req'[d].id BY <2>1, <2>2 DEF DeletesOwn
    <2> QED BY <2>1, <2>3, <2>4 DEF DeletesOwn
  <1>10. UpdatingInv' BY UpdatingKept
  <1>11. AgreeInv'
    <2> SUFFICES ASSUME NEW r \in db', r.id \notin severed'
                 PROVE Agreed(r)' \/ \E d \in Callers : Ahead(r, d)'
      BY DEF AgreeInv
    <2>1. CASE r \in db
      <3>1. ~Ahead(r, c) BY DEF Ahead
      <3> QED BY <2>1, <3>1, AgreeKept
    <2>2. CASE r = w
      <3>1. [id |-> r.kc, user |-> r.user] \in kc' BY <1>1, <1>4, <2>2 DEF MakesOwn
      <3>2. ASSUME NEW d \in Callers, Updating(d)', req'[d].id = r.id PROVE FALSE
        <4>1. d # c /\ Updating(d) /\ UpdatesKnown(d) /\ req[d].id = r.id
          BY <3>2 DEF Inv, UpdatingInv
        <4>2. \E s \in db : s.id = r.id BY <4>1 DEF UpdatesKnown, UpdatesAlone
        <4> QED BY <1>5, <2>2, <4>2
      <3> QED BY <3>1, <3>2 DEF Agreed
    <2> QED BY <2>1, <2>2
  <1>12. OwnedInv'
    <2>1. \E s \in db' : s.kc = req[c].kc BY <1>4
    <2> QED BY <2>1, OwnedKept
  <1> QED BY <1>6, <1>7, <1>8, <1>9, <1>10, <1>11, <1>12 DEF Inv

(* The commit gives the user of the creation its row, or strands it. *)
LEMMA CommitPersonKeeps ==
  ASSUME Inv, NEW c \in Callers, CommitPerson(c)
  PROVE Inv'
  <1>1. /\ At(c, "create", "commit")
        /\ UNCHANGED <<assigned, kc, events, created, requests, severed>>
    BY DEF CommitPerson
  <1> DEFINE w == [id |-> req[c].id, name |-> req[c].name, user |-> req[c].user, kc |-> req[c].kc,
                   nummer |-> req[c].nummer, unassigned |-> "no"]
  <1>2. CASE /\ RowsOf(req[c].id) = {} /\ ~HasNummer(req[c].nummer)
             /\ db' = db \union {w}
             /\ End(c) \/ To(c, "kontexte")
             /\ UNCHANGED <<faults, stranded>>
    <2>1. /\ req' \in [Callers -> Requests] /\ Others(c)
          /\ ~Making(c)' /\ ~Deleting(c)' /\ ~Updating(c)'
      <3>1. CASE End(c) BY <3>1, Ends DEF Inv
      <3>2. CASE To(c, "kontexte") BY <1>1, <3>2, CreateMoves DEF Inv
      <3> QED BY <1>2, <3>1, <3>2
    <2> QED BY <1>1, <1>2, <2>1, RowComes
  <1>3. CASE /\ Fault \/ UNCHANGED faults
             /\ End(c) /\ stranded' = stranded \union {req[c].kc}
             /\ UNCHANGED db
    <2>1. faults' \in 0..MaxFaults BY <1>3, FaultTyped DEF Inv, Typed
    <2>2. req[c].kc \in 1..created BY <1>1 DEF Inv, MakingInv, MakesOwn
    <2>3. /\ req' \in [Callers -> Requests] /\ Others(c)
          /\ ~Making(c)' /\ ~Deleting(c)' /\ ~Updating(c)'
      BY <1>3, Ends DEF Inv
    <2>4. Typed' BY <1>1, <1>3, <2>1, <2>2, <2>3 DEF Inv, Typed
    <2>5. assigned' \subseteq {s.id : s \in db} BY <1>1 DEF Inv, KeysInv
    <2>6. KeysInv' /\ MakingInv' /\ DeletingInv' /\ UpdatingInv' /\ AgreeInv' /\ OwnedInv'
      BY <1>1, <1>3, <2>3, <2>5, QuietKeptNoUpdate
    <2> QED BY <2>4, <2>6 DEF Inv
  <1> QED BY <1>2, <1>3 DEF CommitPerson

(* The row that goes has lost its user, or strands it. *)
LEMMA DeleteRowKeeps ==
  ASSUME Inv, NEW c \in Callers, DeleteRow(c)
  PROVE Inv'
  <1>1. /\ At(c, "delete", "remove") /\ End(c)
        /\ UNCHANGED <<kc, events, created, requests, severed>>
    BY DEF DeleteRow
  <1>2. Deleting(c) /\ DeletesOwn(c) BY <1>1 DEF Inv, DeletingInv
  <1>3. CASE Fault /\ UNCHANGED <<db, assigned, stranded>>
    <2>1. faults' \in 0..MaxFaults BY <1>3, FaultTyped DEF Inv
    <2> QED BY <1>1, <1>3, <2>1, EndKeeps DEF stores
  <1>4. CASE /\ db' = {r \in db : r.id # req[c].id}
             /\ assigned' = assigned \ {req[c].id}
             /\ stranded' = stranded \union NewUsers(c) /\ UNCHANGED faults
    <2>1. /\ req' \in [Callers -> Requests] /\ Others(c)
          /\ ~Making(c)' /\ ~Deleting(c)' /\ ~Updating(c)'
      BY <1>1, Ends DEF Inv
    <2>2. NewUsers(c) \subseteq 1..created BY DEF NewUsers, RowsOf, Inv, KeysInv
    <2>3. Typed' BY <1>1, <1>4, <2>1, <2>2 DEF Inv, Typed
    <2>4. KeysInv'
      <3>1. assigned' \subseteq {r.id : r \in db'}
        BY <1>4 DEF Inv, KeysInv
      <3> QED BY <1>1, <1>4, <3>1 DEF Inv, KeysInv
    <2>5. created' \in Nat /\ created <= created' BY <1>1 DEF Inv, Typed
    <2>6. ~Making(c) /\ ~Updating(c) BY <1>1
    <2>7. MakingInv' BY <1>1, <1>4, <2>1, <2>5, <2>6, MakingKept
    <2>8. DeletingInv' BY <1>1, <1>4, <2>1, <2>5, <2>6, DeletingKept
    <2>9. req[c].id \in severed BY <1>1, <1>2 DEF DeletesOwn
    <2>10. UpdatingInv' BY <1>1, <1>4, <2>1, <2>9, UpdatingKept
    <2>11. AgreeInv'
      <3> SUFFICES ASSUME NEW r \in db', r.id \notin severed'
                   PROVE Agreed(r)' \/ \E d \in Callers : Ahead(r, d)'
        BY DEF AgreeInv
      <3>1. r \in db /\ ~Ahead(r, c) BY <1>4, <2>6 DEF Ahead
      <3> QED BY <1>1, <2>1, <3>1, AgreeKept
    <2>12. OwnedInv'
      <3>1. ASSUME NEW r \in db
            PROVE \/ \E s \in db' : s.kc = r.kc
                  \/ r.kc \in stranded'
                  \/ \A x \in kc' : x.id # r.kc
        <4>1. CASE r.id # req[c].id BY <1>4, <4>1
        <4>2. CASE r.id = req[c].id /\ r.kc # req[c].kc BY <1>4, <4>2 DEF NewUsers, RowsOf
        <4>3. CASE r.id = req[c].id /\ r.kc = req[c].kc BY <1>1, <1>2, <1>4, <4>3 DEF DeletesOwn
        <4> QED BY <4>1, <4>2, <4>3
      <3> QED BY <1>1, <1>4, <2>1, <2>6, <3>1, OwnedKept
    <2> QED BY <2>3, <2>4, <2>7, <2>8, <2>10, <2>11, <2>12 DEF Inv
  <1> QED BY <1>3, <1>4 DEF DeleteRow

-----------------------------------------------------------------------------
(* Changes at the stores                                                   *)

(* A renaming in Keycloak takes a name that is free. *)
LEMMA RenameUserKeeps ==
  ASSUME Inv, NEW c \in Callers, RenameUser(c)
  PROVE Inv'
  <1>1. /\ At(c, "update", "rename")
        /\ UNCHANGED <<db, assigned, events, created, requests, stranded>>
    BY DEF RenameUser
  <1>2. req[c] \in Updates /\ UpdatesKnown(c) BY <1>1, Kinds DEF Inv, UpdatingInv
  <1> DEFINE mine == {x \in kc : x.id = req[c].kc}
             others == IF req[c].id \in severed THEN Holders(req[c].kc) ELSE {}
             y == [id |-> req[c].kc, user |-> req[c].user]
  <1>3. CASE End(c) /\ UNCHANGED <<kc, faults, severed>>
    <2>1. faults' \in 0..MaxFaults BY <1>3 DEF Inv, Typed
    <2> QED BY <1>1, <1>3, <2>1, EndKeeps DEF stores
  <1>4. CASE /\ mine # {} /\ UsersNamed(req[c].user) = {}
             /\ kc' = (kc \ mine) \union {y}
             /\ \/ To(c, "save") /\ severed' = severed \union others /\ UNCHANGED faults
                \/ Fault /\ End(c) /\ severed' = severed \union others \union {req[c].id}
    <2>1. y \in [id : Nat, user : Usernames] /\ y.id = req[c].kc /\ y.user = req[c].user
      BY <1>2 DEF Updates
    <2>2. faults' \in 0..MaxFaults BY <1>4, FaultTyped DEF Inv, Typed
    <2>3. req' \in [Callers -> Requests] /\ Others(c) /\ ~Making(c)' /\ ~Deleting(c)' /\ ~Making(c)
      <3>1. CASE End(c) BY <1>1, <3>1, Ends DEF Inv
      <3>2. CASE To(c, "save") BY <1>1, <3>2, UpdateMoves DEF Inv
      <3> QED BY <1>4, <3>1, <3>2
    <2>4. Updating(c)' => /\ req'[c].at = "save" /\ req'[c].id = req[c].id
                          /\ req'[c].kc = req[c].kc /\ req'[c].user = req[c].user
                          /\ req'[c].old = req[c].old
      <3>1. CASE End(c) BY <1>1, <3>1, Ends DEF Inv
      <3>2. CASE To(c, "save") BY <1>1, <3>2, UpdateMoves DEF Inv
      <3> QED BY <1>4, <3>1, <3>2
    <2>5. Updating(c)' \/ req[c].id \in severed'
      <3>1. CASE To(c, "save") BY <1>1, <3>1, UpdateMoves DEF Inv
      <3> QED BY <1>4, <3>1
    <2>6. others \subseteq severed' /\ severed \subseteq severed' /\ severed' \subseteq Persons
      <3>1. \A d \in Callers : req[d].op = "create" => req[d].id \in Persons
        BY Kinds DEF Inv, Creates
      <3>2. \A r \in db : r.id \in Persons BY DEF Inv, Typed, Rows
      <3>3. others \subseteq Persons BY <3>1, <3>2 DEF Holders
      <3>4. req[c].id \in Persons BY <1>2 DEF Updates
      <3> HIDE DEF others
      <3> QED BY <1>4, <3>3, <3>4 DEF Inv, Typed
    (* The user that gets the name is that of the person, if its records agree. *)
    <2>7. ASSUME req[c].id \notin severed
          PROVE \E s \in db : s.id = req[c].id /\ s.kc = req[c].kc /\ Agreed(s)
      <3>1. UpdatesAlone(c) BY <1>2, <2>7 DEF UpdatesKnown
      <3>2. PICK s \in db : s.id = req[c].id BY <3>1 DEF UpdatesAlone
      <3>3. ~ \E d \in Callers : Ahead(s, d) BY <1>1, <3>1, <3>2 DEF Ahead, UpdatesAlone
      <3>4. Agreed(s) BY <2>7, <3>2, <3>3 DEF Inv, AgreeInv
      <3>5. s.kc = req[c].kc BY <1>1, <3>2, <3>4 DEF Agreed, Goes
      <3> QED BY <3>2, <3>4, <3>5
    (* Whoever else has this user gets to be known as severed. *)
    <2>8. ASSUME NEW r \in db, r.kc = req[c].kc PROVE r.id \in severed' \/ r.id = req[c].id
      <3>1. CASE req[c].id \in severed
        <4>1. r.id \in others BY <2>8, <3>1 DEF Holders
        <4> QED BY <2>6, <4>1
      <3>2. CASE req[c].id \notin severed BY <2>7, <2>8, <3>2 DEF Inv, KeysInv
      <3> QED BY <3>1, <3>2
    <2>9. ASSUME NEW d \in Callers \ {c}, Making(d), req[d].kc = req[c].kc
          PROVE req[d].id \in severed'
      <3>1. CASE req[c].id \in severed
        <4>1. req[d].id \in others BY <2>9, <3>1 DEF Holders
        <4> QED BY <2>6, <4>1
      <3>2. CASE req[c].id \notin severed
        <4>1. MakesOwn(d) BY <2>9 DEF Inv, MakingInv
        <4> QED BY <2>7, <2>9, <3>2, <4>1 DEF MakesOwn
      <3> QED BY <3>1, <3>2
    <2>10. \A x \in kc : x.id # req[c].kc => x \in kc' BY <1>4
    <2>11. y \in kc' BY <1>4
    <2>12. \A x \in kc' : \E z \in kc : z.id = x.id BY <1>4, <2>1
    <2>13. \A x \in kc : x.id # y.id => x.user # y.user BY <1>4, <2>1 DEF UsersNamed
    <2>14. \A x \in kc' : x = y \/ (x \in kc /\ x.id # y.id) BY <1>4, <2>1
    <2>15. kc' \subseteq [id : Nat, user : Usernames] BY <2>1, <2>14 DEF Inv, Typed
    <2> HIDE DEF mine, others
    <2>16. Typed' BY <1>1, <2>2, <2>3, <2>6, <2>15 DEF Inv, Typed
    <2>17. KeysInv'
      <3>1. \A x, z \in kc' : x.id = z.id \/ x.user = z.user => x = z
        BY <2>13, <2>14 DEF Inv, KeysInv
      <3>2. \A x \in kc' : x.id \in 1..created' BY <1>1, <2>12 DEF Inv, KeysInv
      <3> QED BY <1>1, <3>1, <3>2 DEF Inv, KeysInv
    <2>18. created' \in Nat /\ created <= created' BY <1>1 DEF Inv, Typed
    <2>19. MakingInv'
      <3>1. ASSUME NEW d \in Callers \ {c}, Making(d), [id |-> req[d].kc, user |-> req[d].user] \in kc
            PROVE req[d].id \in severed' \/ [id |-> req[d].kc, user |-> req[d].user] \in kc'
        <4>1. CASE req[d].kc = req[c].kc BY <2>9, <3>1, <4>1
        <4>2. CASE req[d].kc # req[c].kc BY <2>10, <3>1, <4>2
        <4> QED BY <4>1, <4>2
      <3> QED BY <1>1, <2>3, <2>6, <2>18, <3>1, MakingKept
    <2>20. DeletingInv' BY <1>1, <2>3, <2>6, <2>12, <2>18, DeletingKept
    <2>21. UpdatingInv'
      <3>1. ASSUME Updating(c)' PROVE UpdatesKnown(c)'
        <4>1. ASSUME req[c].id \notin severed' PROVE UpdatesAlone(c)'
          <5>1. UpdatesAlone(c) BY <1>2, <2>6, <4>1 DEF UpdatesKnown
          <5> QED BY <1>1, <2>3, <2>4, <3>1, <5>1 DEF UpdatesAlone
        <4> QED BY <1>2, <2>4, <3>1, <4>1 DEF UpdatesKnown
      <3>2. \A d \in Callers \ {c} : Updating(d) /\ req[d].id = req[c].id => req[d].id \in severed'
        BY <1>2, <2>6 DEF UpdatesKnown, UpdatesAlone
      <3> QED BY <1>1, <2>3, <2>4, <2>6, <3>1, <3>2, UpdatingKept
    <2>22. AgreeInv'
      <3> SUFFICES ASSUME NEW r \in db', r.id \notin severed'
                   PROVE Agreed(r)' \/ \E d \in Callers : Ahead(r, d)'
        BY DEF AgreeInv
      <3>1. r \in db BY <1>1
      <3>2. CASE r.id = req[c].id
        <4>1. req[c].id \notin severed BY <2>6, <3>2
        <4>2. r.kc = req[c].kc
          <5>1. PICK s \in db : s.id = req[c].id /\ s.kc = req[c].kc BY <2>7, <4>1
          <5> QED BY <3>1, <3>2, <5>1 DEF Inv, KeysInv
        <4>3. Updating(c)' BY <2>5, <3>2
        <4>4. Ahead(r, c)' BY <2>4, <2>11, <3>2, <4>2, <4>3 DEF Ahead
        <4> QED BY <4>4
      <3>3. CASE r.id # req[c].id
        <4>1. r.kc # req[c].kc BY <2>8, <3>1, <3>3
        <4>2. \A x \in kc : x.id = r.kc => x \in kc' BY <2>10, <4>1
        <4>3. ~Ahead(r, c) BY <3>3 DEF Ahead
        <4>4. Updating(c)' => req'[c].id # r.id BY <2>4, <3>3
        <4> QED BY <2>3, <2>6, <3>1, <4>2, <4>3, <4>4, AgreeKept
      <3> QED BY <3>2, <3>3
    <2>23. OwnedInv' BY <1>1, <2>3, <2>12, OwnedKept
    <2> QED BY <2>16, <2>17, <2>19, <2>20, <2>21, <2>22, <2>23 DEF Inv
  <1> QED BY <1>3, <1>4 DEF RenameUser

(* A row that changes keeps its id and its user.                            *)
LEMMA RowChanges ==
  ASSUME Inv, NEW m \in db, NEW w \in Rows, w.id = m.id, w.kc = m.kc,
         \A s \in db \ {m} : s.nummer = w.nummer => s.nummer = NoNummer,
         db' = (db \ {m}) \union {w}
  PROVE /\ db' \subseteq Rows
        /\ \A r, s \in db' : r.id = s.id \/ r.kc = s.kc \/ (r.nummer = s.nummer /\ r.nummer # NoNummer) => r = s
        /\ \A r \in db' : r.kc \in 1..created
        /\ {r.id : r \in db'} = {r.id : r \in db}
        /\ \A r \in db' : \E s \in db : s.kc = r.kc /\ s.id = r.id
        /\ \A r \in db : \E s \in db' : s.kc = r.kc /\ s.id = r.id
  <1>1. db' \subseteq Rows BY DEF Inv, Typed
  <1>2. \A s \in db \ {m} : s.id # w.id /\ s.kc # w.kc /\ (s.nummer = w.nummer => s.nummer = NoNummer)
    BY DEF Inv, KeysInv
  <1>3. \A r, s \in db' : r.id = s.id \/ r.kc = s.kc \/ (r.nummer = s.nummer /\ r.nummer # NoNummer) => r = s
    BY <1>2 DEF Inv, KeysInv
  <1>4. \A r \in db' : \E s \in db : s.kc = r.kc /\ s.id = r.id OBVIOUS
  <1>5. \A r \in db : \E s \in db' : s.kc = r.kc /\ s.id = r.id OBVIOUS
  <1>6. \A r \in db' : r.kc \in 1..created BY <1>4 DEF Inv, KeysInv
  <1>7. {r.id : r \in db'} = {r.id : r \in db} BY <1>4, <1>5
  <1> QED BY <1>1, <1>3, <1>4, <1>5, <1>6, <1>7

(* What a change writes.                                                    *)
LEMMA WrittenRow ==
  ASSUME NEW m \in Rows, NEW r \in Updates, NEW w \in Written(m, r)
  PROVE /\ w \in Rows /\ w.id = m.id /\ w.kc = m.kc
        /\ w.user = IF r.user # r.old.user THEN r.user ELSE m.user
        /\ w.nummer = IF r.nummer # NoNummer THEN r.nummer ELSE m.nummer
  <1> DEFINE name == IF r.name # r.old.name THEN r.name ELSE m.name
             user == IF r.user # r.old.user THEN r.user ELSE m.user
             nummer == IF r.nummer # NoNummer THEN r.nummer ELSE m.nummer
  <1>1. name \in Names /\ user \in Usernames /\ nummer \in Nummern \union {NoNummer}
    BY DEF Updates, Rows
  <1>2. PICK date \in {m.unassigned} \union {"no"} :
          w = [m EXCEPT !.name = name, !.user = user, !.nummer = nummer, !.unassigned = date]
    BY DEF Written
  <1>3. date \in {"no", "recent", "due"} BY DEF Rows
  <1>4. user = IF r.user # r.old.user THEN r.user ELSE m.user OBVIOUS
  <1>5. nummer = IF r.nummer # NoNummer THEN r.nummer ELSE m.nummer OBVIOUS
  <1> HIDE DEF name, user, nummer
  <1>6. w \in Rows /\ w.id = m.id /\ w.kc = m.kc /\ w.user = user /\ w.nummer = nummer
    BY <1>1, <1>2, <1>3 DEF Rows
  <1> QED BY <1>4, <1>5, <1>6

(* Saving a change gives the row the name its user has, or severs the two. *)
LEMMA SaveUpdateKeeps ==
  ASSUME Inv, NEW c \in Callers, SaveUpdate(c)
  PROVE Inv'
  <1>1. /\ At(c, "update", "save")
        /\ UNCHANGED <<assigned, kc, events, created, requests, stranded>>
    BY DEF SaveUpdate
  <1>2. req[c] \in Updates /\ UpdatesKnown(c) BY <1>1, Kinds DEF Inv, UpdatingInv
  <1>3. ~Making(c) /\ created' \in Nat /\ created <= created' BY <1>1 DEF Inv, Typed
  <1>4. assigned' \subseteq {s.id : s \in db} BY <1>1 DEF Inv, KeysInv
  <1> DEFINE mine == RowsOf(req[c].id)
  (* The flush fails, or the unique constraint refuses it. *)
  <1>5. CASE /\ UNCHANGED faults \/ Fault
             /\ End(c) /\ severed' = severed \union {req[c].id} /\ UNCHANGED db
    <2>1. faults' \in 0..MaxFaults BY <1>5, FaultTyped DEF Inv, Typed
    <2>2. req[c].id \in Persons BY <1>2 DEF Updates
    <2>3. /\ req' \in [Callers -> Requests] /\ Others(c)
          /\ ~Making(c)' /\ ~Deleting(c)' /\ ~Updating(c)'
      BY <1>5, Ends DEF Inv
    <2>4. Typed' BY <1>1, <1>5, <2>1, <2>2, <2>3 DEF Inv, Typed
    <2>5. \A r \in db : r.id \notin severed' => ~Ahead(r, c) BY <1>5 DEF Ahead
    <2>6. severed \subseteq severed' BY <1>5
    <2>7. KeysInv' /\ MakingInv' /\ DeletingInv' /\ UpdatingInv' /\ AgreeInv' /\ OwnedInv'
      BY <1>1, <1>3, <1>4, <1>5, <2>3, <2>5, <2>6, QuietKept
    <2> QED BY <2>4, <2>7 DEF Inv
  (* It is written. *)
  <1>6. CASE /\ ~(mine # {} /\ req[c].nummer # NoNummer /\ \E s \in db \ mine : s.nummer = req[c].nummer)
             /\ \/ mine = {} /\ UNCHANGED db
                \/ \E m \in mine : \E w \in Written(m, req[c]) : db' = (db \ mine) \union {w}
             /\ To(c, "announce") \/ End(c)
             /\ UNCHANGED <<faults, severed>>
    <2>1. req' \in [Callers -> Requests] /\ Others(c) /\ ~Making(c)' /\ ~Deleting(c)'
      <3>1. CASE End(c) BY <1>1, <3>1, Ends DEF Inv
      <3>2. CASE To(c, "announce") BY <1>1, <3>2, UpdateMoves DEF Inv
      <3> QED BY <1>6, <3>1, <3>2
    <2>2. Updating(c)' => req'[c].at = "announce" /\ req'[c].id = req[c].id /\ req'[c].old = req[c].old
      <3>1. CASE End(c) BY <1>1, <3>1, Ends DEF Inv
      <3>2. CASE To(c, "announce") BY <1>1, <3>2, UpdateMoves DEF Inv
      <3> QED BY <1>6, <3>1, <3>2
    <2>3. \A d \in Callers \ {c} : Updating(d) /\ req[d].id = req[c].id => req[d].id \in severed'
      BY <1>2, <1>6 DEF UpdatesKnown, UpdatesAlone
    <2>4. CASE mine = {} /\ UNCHANGED db
      <3>1. req[c].id \in severed BY <1>2, <2>4 DEF UpdatesKnown, UpdatesAlone, RowsOf
      <3>2. Typed' BY <1>1, <1>6, <2>1, <2>4 DEF Inv, Typed
      <3>3. Updating(c)' => UpdatesKnown(c)' BY <1>2, <1>6, <2>2, <3>1 DEF UpdatesKnown
      <3>4. \A r \in db : r.id # req[c].id BY <2>4 DEF RowsOf
      <3>5. \A r \in db : ~Ahead(r, c) /\ (Updating(c)' => req'[c].id # r.id) BY <2>2, <3>4 DEF Ahead
      <3>6. KeysInv' /\ MakingInv' /\ DeletingInv' /\ UpdatingInv' /\ AgreeInv' /\ OwnedInv'
        BY <1>1, <1>3, <1>4, <1>6, <2>1, <2>2, <2>3, <2>4, <3>3, <3>5, QuietKept
      <3> QED BY <3>2, <3>6 DEF Inv
    <2>5. CASE \E m \in mine : \E w \in Written(m, req[c]) : db' = (db \ mine) \union {w}
      <3>1. PICK m \in mine : \E w \in Written(m, req[c]) : db' = (db \ mine) \union {w} BY <2>5
      <3>2. PICK w \in Written(m, req[c]) : db' = (db \ mine) \union {w} BY <3>1
      <3>3. m \in db /\ m.id = req[c].id /\ mine = {m} BY DEF RowsOf, Inv, KeysInv
      <3>4. m \in Rows BY <3>3 DEF Inv, Typed
      <3>5. /\ w \in Rows /\ w.id = m.id /\ w.kc = m.kc
            /\ w.user = IF req[c].user # req[c].old.user THEN req[c].user ELSE m.user
            /\ w.nummer = IF req[c].nummer # NoNummer THEN req[c].nummer ELSE m.nummer
        BY <1>2, <3>4, WrittenRow
      <3>6. \A s \in db \ {m} : s.nummer = w.nummer => s.nummer = NoNummer
        <4>1. CASE req[c].nummer # NoNummer BY <1>6, <3>3, <3>5, <4>1
        <4>2. CASE req[c].nummer = NoNummer BY <3>3, <3>5, <4>2 DEF Inv, KeysInv
        <4> QED BY <4>1, <4>2
      <3>7. db' = (db \ {m}) \union {w} BY <3>2, <3>3
      <3> HIDE DEF mine
      <3>8. /\ db' \subseteq Rows
            /\ \A r, s \in db' : r.id = s.id \/ r.kc = s.kc \/ (r.nummer = s.nummer /\ r.nummer # NoNummer) => r = s
            /\ \A r \in db' : r.kc \in 1..created
            /\ {r.id : r \in db'} = {r.id : r \in db}
            /\ \A r \in db' : \E s \in db : s.kc = r.kc /\ s.id = r.id
            /\ \A r \in db : \E s \in db' : s.kc = r.kc /\ s.id = r.id
        BY <3>3, <3>5, <3>6, <3>7, RowChanges
      <3>9. Typed' BY <1>1, <1>6, <2>1, <3>8 DEF Inv, Typed
      <3>10. KeysInv' BY <1>1, <1>4, <3>8 DEF Inv, KeysInv
      <3>11. MakingInv' BY <1>1, <1>3, <1>6, <2>1, <3>8, MakingKept
      <3>12. DeletingInv' BY <1>1, <1>3, <1>6, <2>1, <3>8, DeletingKept
      <3>13. UpdatingInv'
        <4>1. \A r \in db : \/ \E s \in db' : s.id = r.id /\ s.user = r.user
                            \/ r.id = req[c].id
          BY <3>3, <3>7
        <4>2. ASSUME Updating(c)' PROVE UpdatesKnown(c)'
          <5>1. \E r \in db' : r.id = req[c].id BY <3>3, <3>5, <3>7
          <5>2. ASSUME req[c].id \notin severed' PROVE UpdatesAlone(c)'
            <6>1. \A d \in Callers : Updating(d)' /\ req'[d].id = req[c].id => d = c
              BY <1>2, <1>6, <2>1, <5>2 DEF UpdatesKnown, UpdatesAlone
            <6> QED BY <2>2, <4>2, <5>1, <6>1 DEF UpdatesAlone
          <5> QED BY <1>2, <2>2, <4>2, <5>2 DEF UpdatesKnown
        <4> QED BY <1>1, <1>6, <2>1, <2>2, <2>3, <4>1, <4>2, UpdatingKept
      <3>14. AgreeInv'
        <4> SUFFICES ASSUME NEW r \in db', r.id \notin severed'
                     PROVE Agreed(r)' \/ \E d \in Callers : Ahead(r, d)'
          BY DEF AgreeInv
        <4>1. CASE r = w
          <5>1. m.id \notin severed BY <1>6, <3>5, <4>1
          <5>2. UpdatesAlone(c) BY <1>2, <3>3, <5>1 DEF UpdatesKnown
          <5>3. m.user = req[c].old.user
            <6>1. PICK s \in db : s.id = req[c].id /\ s.user = req[c].old.user
              BY <1>1, <5>2 DEF UpdatesAlone
            <6> QED BY <3>3, <6>1 DEF Inv, KeysInv
          <5>4. [id |-> m.kc, user |-> req[c].user] \in kc
            <6>1. CASE Agreed(m) BY <1>1, <3>3, <6>1 DEF Agreed, Goes
            <6>2. CASE \E d \in Callers : Ahead(m, d)
              BY <3>3, <5>2, <6>2 DEF Ahead, UpdatesAlone
            <6> QED BY <3>3, <5>1, <6>1, <6>2 DEF Inv, AgreeInv
          <5>5. w.user = req[c].user BY <3>5, <5>3
          <5>6. [id |-> r.kc, user |-> r.user] \in kc' BY <1>1, <3>5, <4>1, <5>4, <5>5
          <5>7. ASSUME NEW d \in Callers, Updating(d)', req'[d].id = r.id PROVE Goes(r, d)'
            <6>1. d = c BY <2>1, <3>3, <3>5, <4>1, <5>2, <5>7 DEF UpdatesAlone
            <6> QED BY <2>2, <5>7, <6>1 DEF Goes
          <5> QED BY <5>6, <5>7 DEF Agreed
        <4>2. CASE r # w
          <5>1. r \in db /\ r # m BY <3>7, <4>2
          <5>2. r.id # req[c].id BY <3>3, <5>1 DEF Inv, KeysInv
          <5>3. ~Ahead(r, c) /\ (Updating(c)' => req'[c].id # r.id) BY <2>2, <5>2 DEF Ahead
          <5> QED BY <1>1, <1>6, <2>1, <5>1, <5>3, AgreeKept
        <4> QED BY <4>1, <4>2
      <3>15. OwnedInv' BY <1>1, <1>3, <2>1, <3>8, OwnedKept
      <3> QED BY <3>9, <3>10, <3>11, <3>12, <3>13, <3>14, <3>15 DEF Inv
    <2> QED BY <1>6, <2>4, <2>5
  <1> QED BY <1>5, <1>6 DEF SaveUpdate

-----------------------------------------------------------------------------
(* Dates, cron and restarts                                                *)

(* A row whose date changes stays with its user and its requests.           *)
LEMMA DateChanges ==
  ASSUME Inv, NEW m \in db, NEW date \in {"no", "recent", "due"},
         NEW w, w = [m EXCEPT !.unassigned = date], db' = (db \ {m}) \union {w},
         assigned' \subseteq {r.id : r \in db}, requests' \in 0..MaxRequests,
         UNCHANGED <<kc, events, req, faults, created, stranded, severed>>
  PROVE Inv'
  <1>1. w \in Rows /\ w.id = m.id /\ w.kc = m.kc /\ w.user = m.user /\ w.nummer = m.nummer
    <2>1. m \in Rows BY DEF Inv, Typed
    <2> QED BY <2>1 DEF Rows
  <1>2. \A s \in db \ {m} : s.nummer = w.nummer => s.nummer = NoNummer
    BY <1>1 DEF Inv, KeysInv
  <1>3. /\ db' \subseteq Rows
        /\ \A r, s \in db' : r.id = s.id \/ r.kc = s.kc \/ (r.nummer = s.nummer /\ r.nummer # NoNummer) => r = s
        /\ \A r \in db' : r.kc \in 1..created
        /\ {r.id : r \in db'} = {r.id : r \in db}
        /\ \A r \in db' : \E s \in db : s.kc = r.kc /\ s.id = r.id
        /\ \A r \in db : \E s \in db' : s.kc = r.kc /\ s.id = r.id
    BY <1>1, <1>2, RowChanges
  <1>4. /\ \A r \in db : \E s \in db' : s.id = r.id /\ s.kc = r.kc /\ s.user = r.user
        /\ \A r \in db' : \E s \in db : s.id = r.id /\ s.kc = r.kc /\ s.user = r.user
    BY <1>1
  <1>5. {r.id : r \in db} \subseteq Persons BY DEF Inv, Typed, Rows
  <1>6. Typed' BY <1>3, <1>5 DEF Inv, Typed
  <1>7. KeysInv' BY <1>3 DEF Inv, KeysInv
  <1>8. MakingInv' BY <1>4 DEF Inv, MakingInv, MakesOwn
  <1>9. DeletingInv' BY <1>4 DEF Inv, DeletingInv, DeletesOwn
  <1>10. UpdatingInv'
    <2> SUFFICES ASSUME NEW d \in Callers, Updating(d) PROVE UpdatesKnown(d)'
      BY DEF UpdatingInv
    <2>1. UpdatesKnown(d) BY DEF Inv, UpdatingInv
    <2>2. UpdatesAlone(d) => UpdatesAlone(d)' BY <1>4 DEF UpdatesAlone
    <2> QED BY <2>1, <2>2 DEF UpdatesKnown
  <1>11. AgreeInv'
    <2> SUFFICES ASSUME NEW r \in db', r.id \notin severed
                 PROVE Agreed(r)' \/ \E d \in Callers : Ahead(r, d)'
      BY DEF AgreeInv
    <2>1. PICK s \in db : s.id = r.id /\ s.kc = r.kc /\ s.user = r.user BY <1>4
    <2>2. Agreed(s) => Agreed(r)' BY <2>1 DEF Agreed, Goes
    <2>3. ASSUME NEW d \in Callers, Ahead(s, d) PROVE Ahead(r, d)'
      BY <2>1, <2>3 DEF Ahead
    <2> QED BY <2>1, <2>2, <2>3 DEF Inv, AgreeInv
  <1>12. OwnedInv' BY <1>4 DEF Inv, OwnedInv, Owned
  <1> QED BY <1>6, <1>7, <1>8, <1>9, <1>10, <1>11, <1>12 DEF Inv

(* Kontexte that come and go touch neither rows nor users. *)
LEMMA KontexteChangeKeeps ==
  ASSUME Inv, NEW p \in Persons, KontexteChange(p)
  PROVE Inv'
  <1>1. requests' \in 0..MaxRequests BY PersonAssumption DEF KontexteChange, Inv, Typed
  <1>2. UNCHANGED <<kc, events, req, faults, created, stranded, severed>> BY DEF KontexteChange
  <1>3. PICK r \in RowsOf(p) :
          \/ /\ p \in assigned /\ assigned' = assigned \ {p}
             /\ db' = (db \ {r}) \union {[r EXCEPT !.unassigned = "recent"]}
          \/ /\ p \notin assigned /\ assigned' = assigned \union {p}
             /\ db' = (db \ {r}) \union {[r EXCEPT !.unassigned = "no"]}
    BY DEF KontexteChange
  <1>4. r \in db /\ r.id = p BY DEF RowsOf
  <1>5. PICK date \in {"no", "recent", "due"} : db' = (db \ {r}) \union {[r EXCEPT !.unassigned = date]}
    BY <1>3
  <1>6. assigned' \subseteq {s.id : s \in db} BY <1>3, <1>4 DEF Inv, KeysInv
  <1> QED BY <1>1, <1>2, <1>4, <1>5, <1>6, DateChanges

(* Nor does the time. *)
LEMMA DaysPassKeeps ==
  ASSUME Inv, DaysPass
  PROVE Inv'
  <1>1. UNCHANGED <<assigned, kc, events, req, requests, faults, created, stranded, severed>>
    BY DEF DaysPass
  <1>2. PICK r \in db : db' = (db \ {r}) \union {[r EXCEPT !.unassigned = "due"]} BY DEF DaysPass
  <1>3. assigned' \subseteq {s.id : s \in db} /\ requests' \in 0..MaxRequests
    BY <1>1 DEF Inv, KeysInv, Typed
  <1> QED BY <1>1, <1>2, <1>3, DateChanges

(* Requests may begin or end at once, if none of them makes or saves.       *)
LEMMA CronDeletesKeeps ==
  ASSUME Inv, CronDeletes
  PROVE Inv'
  <1>1. /\ UNCHANGED <<stores, requests, faults, stranded, severed>>
        /\ \A p \in Persons : req[p] = Idle
    BY DEF CronDeletes
  <1>2. WithoutOrgList \subseteq Persons BY DEF WithoutOrgList, Inv, Typed, Rows
  <1>3. \A p \in Persons : [op |-> "delete", at |-> "load", id |-> p] \in Requests
    BY DEF Requests, Loads
  <1>4. req' \in [Callers -> Requests] BY <1>2, <1>3 DEF CronDeletes, Inv, Typed
  <1>5. \A d \in Callers : \/ req'[d] = req[d]
                           \/ req[d] = Idle /\ req'[d] = [op |-> "delete", at |-> "load", id |-> d]
    BY <1>1, <1>2 DEF CronDeletes
  <1>6. \A d \in Callers : \/ req'[d] = req[d]
                           \/ /\ ~Making(d) /\ ~Updating(d)
                              /\ ~Making(d)' /\ ~Deleting(d)' /\ ~Updating(d)'
    <2> SUFFICES ASSUME NEW d \in Callers, req[d] = Idle,
                        req'[d] = [op |-> "delete", at |-> "load", id |-> d]
                 PROVE /\ ~Making(d) /\ ~Updating(d)
                       /\ ~Making(d)' /\ ~Deleting(d)' /\ ~Updating(d)'
      BY <1>5
    <2>1. ~Making(d) /\ ~Updating(d) BY DEF Idle
    <2>2. req'[d].op = "delete" /\ req'[d].at = "load" OBVIOUS
    <2> QED BY <2>1, <2>2
  <1>7. Typed' BY <1>1, <1>4 DEF Inv, Typed, stores
  <1>8. KeysInv' BY <1>1 DEF Inv, KeysInv, stores
  <1>9. MakingInv'
    <2> SUFFICES ASSUME NEW d \in Callers, Making(d)' PROVE MakesOwn(d)'
      BY DEF MakingInv
    <2>1. Making(d) /\ MakesOwn(d) /\ req'[d] = req[d] BY <1>6 DEF Inv, MakingInv
    <2>2. \A e \in Callers : Making(e)' /\ req'[e].kc = req'[d].kc => e = d
      BY <1>6, <2>1 DEF MakesOwn
    <2> QED BY <1>1, <2>1, <2>2 DEF MakesOwn, stores
  <1>10. DeletingInv'
    <2> SUFFICES ASSUME NEW d \in Callers, Deleting(d)' PROVE DeletesOwn(d)'
      BY DEF DeletingInv
    <2>1. Deleting(d) /\ DeletesOwn(d) /\ req'[d] = req[d] BY <1>6 DEF Inv, DeletingInv
    <2>2. \A e \in Callers : Making(e)' => req'[e].kc # req'[d].kc
      BY <1>6, <2>1 DEF DeletesOwn
    <2> QED BY <1>1, <2>1, <2>2 DEF DeletesOwn, stores
  <1>11. UpdatingInv'
    <2> SUFFICES ASSUME NEW d \in Callers, Updating(d)' PROVE UpdatesKnown(d)'
      BY DEF UpdatingInv
    <2>1. Updating(d) /\ UpdatesKnown(d) /\ req'[d] = req[d] BY <1>6 DEF Inv, UpdatingInv
    <2>2. UpdatesAlone(d) => UpdatesAlone(d)' BY <1>1, <1>6, <2>1 DEF UpdatesAlone, stores
    <2> QED BY <1>1, <2>1, <2>2 DEF UpdatesKnown
  <1>12. AgreeInv'
    <2> SUFFICES ASSUME NEW r \in db, r.id \notin severed
                 PROVE Agreed(r)' \/ \E d \in Callers : Ahead(r, d)'
      BY <1>1 DEF AgreeInv, stores
    <2>1. Agreed(r) => Agreed(r)' BY <1>1, <1>6 DEF Agreed, Goes, stores
    <2>2. ASSUME NEW d \in Callers, Ahead(r, d) PROVE Ahead(r, d)'
      BY <1>1, <1>6, <2>2 DEF Ahead, stores
    <2> QED BY <2>1, <2>2 DEF Inv, AgreeInv
  <1>13. OwnedInv'
    <2> SUFFICES ASSUME NEW x \in kc PROVE Owned(x)'
      BY <1>1 DEF OwnedInv, stores
    <2>1. Owned(x) BY DEF Inv, OwnedInv
    <2> QED BY <1>1, <1>6, <2>1 DEF Owned, stores
  <1> QED BY <1>7, <1>8, <1>9, <1>10, <1>11, <1>12, <1>13 DEF Inv

(* A restart ends every request; what it interrupted is stranded or severed. *)
LEMMA RestartKeeps ==
  ASSUME Inv, Restart
  PROVE Inv'
  <1>1. UNCHANGED <<stores, requests>> /\ Fault BY DEF Restart
  <1>2. faults' \in 0..MaxFaults BY <1>1, FaultTyped DEF Inv
  <1>3. req' \in [Callers -> Requests] /\ \A d \in Callers : req'[d] = Idle
    BY DEF Restart, Requests
  <1>4. \A d \in Callers : ~Making(d)' /\ ~Deleting(d)' /\ ~Updating(d)' BY <1>3 DEF Idle
  <1>5. /\ stranded \subseteq stranded' /\ stranded' \subseteq 1..created
        /\ \A d \in Callers : Making(d) => req[d].kc \in stranded'
    <2>1. \A d \in Callers : Making(d) => req[d].kc \in 1..created BY DEF Inv, MakingInv, MakesOwn
    <2> QED BY <2>1 DEF Restart, Inv, Typed
  <1>6. /\ severed \subseteq severed' /\ severed' \subseteq Persons
        /\ \A d \in Callers : Updating(d) /\ req[d].at = "save" => req[d].id \in severed'
    <2>1. \A d \in Callers : Updating(d) => req[d].id \in Persons BY Kinds DEF Inv, Updates
    <2> QED BY <2>1 DEF Restart, Inv, Typed
  <1>7. Typed' BY <1>1, <1>2, <1>3, <1>5, <1>6 DEF Inv, Typed, stores
  <1>8. KeysInv' BY <1>1 DEF Inv, KeysInv, stores
  <1>9. MakingInv' /\ DeletingInv' /\ UpdatingInv'
    BY <1>4 DEF MakingInv, DeletingInv, UpdatingInv
  <1>10. AgreeInv'
    <2> SUFFICES ASSUME NEW r \in db, r.id \notin severed' PROVE Agreed(r)'
      BY <1>1 DEF AgreeInv, stores
    <2>1. \A d \in Callers : ~Ahead(r, d) BY <1>6 DEF Ahead
    <2>2. Agreed(r) BY <1>6, <2>1 DEF Inv, AgreeInv
    <2> QED BY <1>1, <1>4, <2>2 DEF Agreed, stores
  <1>11. OwnedInv'
    <2> SUFFICES ASSUME NEW x \in kc PROVE Owned(x)'
      BY <1>1 DEF OwnedInv, stores
    <2>1. Owned(x) BY DEF Inv, OwnedInv
    <2> QED BY <1>1, <1>5, <2>1 DEF Owned, stores
  <1> QED BY <1>7, <1>8, <1>9, <1>10, <1>11 DEF Inv

-----------------------------------------------------------------------------
(* The invariant holds                                                     *)

(* Without persons and users the invariant holds. *)
LEMMA InitInv == Init => Inv
  <1> SUFFICES ASSUME Init PROVE Inv
    OBVIOUS
  <1>1. PICK start \in Starts :
          /\ db = start.rows /\ kc = start.users /\ created = Cardinality(start.rows)
          /\ assigned = {r.id : r \in {x \in db : x.unassigned = "no"}}
          /\ severed = {r.id : r \in {x \in db : [id |-> x.kc, user |-> x.user] \notin kc}}
    BY DEF Init
  <1>2. /\ db \subseteq Rows /\ IsFiniteSet(db)
        /\ kc \subseteq [id : {r.kc : r \in db}, user : Usernames]
        /\ \A r, s \in db : r = s \/ (r.id # s.id /\ r.kc # s.kc
                                    /\ (r.nummer = s.nummer => r.nummer = NoNummer))
        /\ \A x, y \in kc : x = y \/ (x.id # y.id /\ x.user # y.user)
        /\ \A r \in db : r.kc \in 1..created
    BY <1>1, StartsAssumption
  <1>3. created \in Nat BY <1>1, <1>2, FS_CardinalityType
  <1>4. \A c \in Callers : req[c] = Idle BY DEF Init
  <1>5. \A c \in Callers : ~Making(c) /\ ~Deleting(c) /\ ~Updating(c) BY <1>4 DEF Idle
  <1>6. \A x \in kc : x.user \in Usernames /\ \E r \in db : r.kc = x.id BY <1>2
  <1>7. Typed
    <2>1. req \in [Callers -> Requests] BY DEF Init, Requests
    <2>2. kc \subseteq [id : Nat, user : Usernames] BY <1>2 DEF Rows
    <2>3. assigned \subseteq Persons /\ severed \subseteq Persons BY <1>1, <1>2 DEF Rows
    <2>4. requests \in 0..MaxRequests /\ faults \in 0..MaxFaults /\ events = {} /\ stranded = {}
      BY PersonAssumption DEF Init
    <2> QED BY <1>2, <1>3, <2>1, <2>2, <2>3, <2>4 DEF Typed
  <1>8. KeysInv
    <2>1. assigned \subseteq {r.id : r \in db} BY <1>1
    <2>2. \A x \in kc : x.id \in 1..created BY <1>2, <1>6
    <2> QED BY <1>2, <2>1, <2>2 DEF KeysInv
  <1>9. MakingInv /\ DeletingInv /\ UpdatingInv BY <1>5 DEF MakingInv, DeletingInv, UpdatingInv
  <1>10. AgreeInv BY <1>1, <1>5 DEF AgreeInv, Agreed
  <1>11. OwnedInv BY <1>6 DEF OwnedInv, Owned
  <1> QED BY <1>7, <1>8, <1>9, <1>10, <1>11 DEF Inv

(* A step of a request or of the cron job keeps it ... *)
LEMMA StepInv ==
  ASSUME Inv, NEW c \in Callers, Step(c)
  PROVE Inv'
  <1>1. CASE CreateUser(c) BY <1>1, UserCreatedKeeps DEF CreateUser
  <1>2. CASE CreateUserHashed(c) BY <1>2, UserCreatedKeeps DEF CreateUserHashed
  <1> QED BY <1>1, <1>2, SearchKeeps, CreateChecksNummerKeeps, SetPasswordKeeps, UndoUserKeeps,
             CommitPersonKeeps, CreateKontexteKeeps, DeleteLoadsKeeps, DeleteUserKeeps,
             DeletePublishesKeeps, DeleteRowKeeps, UpdateChecksNummerKeeps, FindUserKeeps,
             RenameUserKeeps, SaveUpdateKeeps, AnnounceUpdateKeeps, CallFailsKeeps DEF Step

(* ... and so does every step. *)
LEMMA NextInv == Inv /\ [Next]_vars => Inv'
  <1> SUFFICES ASSUME Inv, [Next]_vars PROVE Inv'
    OBVIOUS
  <1>1. ASSUME NEW c \in Clients,
               CreateBegins(c) \/ MigrationBegins(c) \/ DeleteBegins(c) \/ UpdateBegins(c) \/ PutBegins(c)
        PROVE Inv'
    BY <1>1, CreationBegins, DeletionBegins, UpdateBeginsKeeps, PutBeginsKeeps
  <1>2. CASE UNCHANGED vars
    <2>1. Typed' /\ KeysInv' BY <1>2 DEF Inv, Typed, KeysInv, vars
    <2>2. MakingInv' BY <1>2 DEF Inv, MakingInv, MakesOwn, vars
    <2>3. DeletingInv' BY <1>2 DEF Inv, DeletingInv, DeletesOwn, vars
    <2>4. UpdatingInv' BY <1>2 DEF Inv, UpdatingInv, UpdatesKnown, UpdatesAlone, vars
    <2>5. AgreeInv' BY <1>2 DEF Inv, AgreeInv, Agreed, Ahead, Goes, vars
    <2>6. OwnedInv' BY <1>2 DEF Inv, OwnedInv, Owned, vars
    <2> QED BY <2>1, <2>2, <2>3, <2>4, <2>5, <2>6 DEF Inv
  <1> QED BY <1>1, <1>2, StepInv, CronDeletesKeeps, KontexteChangeKeeps, DaysPassKeeps, RestartKeeps
      DEF Next

(* The invariant holds in every reachable state. *)
LEMMA Invariance == Spec => []Inv
  BY InitInv, NextInv, PTL DEF Spec

-----------------------------------------------------------------------------
(* What follows                                                            *)

(* The variables keep their types: no two rows have an id or a nummer, and  *)
(* no two users a name, whoever creates and renames at the same time.       *)
THEOREM PersonsTyped == Spec => []TypeOK
  <1>1. Inv => TypeOK
    <2> SUFFICES ASSUME Inv PROVE TypeOK
      OBVIOUS
    <2>1. \A c \in Callers : req[c] # Idle => req[c].id \in Persons
      <3> SUFFICES ASSUME NEW c \in Callers, req[c] # Idle PROVE req[c].id \in Persons
        OBVIOUS
      <3>1. req[c] \in Requests BY Kinds DEF Inv
      <3> QED BY <3>1 DEF Requests, Creates, Loads, Deletes, Updates
    <2>2. \A x \in kc : x.id \in 1..created /\ x.user \in Usernames BY DEF Inv, Typed, KeysInv
    <2> QED BY <2>1, <2>2 DEF Inv, Typed, KeysInv, TypeOK
  <1> QED BY <1>1, Invariance, PTL

(* While no request for a person is in progress, the person's user is in    *)
(* Keycloak under the name of the row; and a user without a row belongs to  *)
(* a creation in progress or to a failure that was met.                     *)
THEOREM UserFollowsPerson == Spec => []UserOfPerson
  <1>1. Inv => UserOfPerson
    <2> SUFFICES ASSUME Inv PROVE UserOfPerson
      OBVIOUS
    <2>1. ASSUME NEW r \in db, r.id \notin severed, On(r.id) = {}
          PROVE [id |-> r.kc, user |-> r.user] \in kc
      <3>1. \A c \in Callers : ~(Updating(c) /\ req[c].id = r.id) BY <2>1, UpdatingOn DEF Inv
      <3>2. ~ \E c \in Callers : Ahead(r, c) BY <3>1 DEF Ahead
      <3> QED BY <2>1, <3>2 DEF Inv, AgreeInv, Agreed
    <2>2. ASSUME NEW x \in kc, \A r \in db : r.kc # x.id
          PROVE x.id \in stranded \/ \E c \in Callers : req[c].op = "create" /\ req[c].kc = x.id
      BY <2>2 DEF Inv, OwnedInv, Owned
    <2> QED BY <2>1, <2>2 DEF UserOfPerson
  <1> QED BY <1>1, Invariance, PTL

(* When a row goes, the other systems have been told, and the user is gone  *)
(* unless that failed or the row was another one than the deletion read.    *)
THEOREM DeletionTold == Spec => DeletionAnnounced
  <1> DEFINE Told == \A r \in db : r.id \notin {s.id : s \in db'}
                       => /\ \E e \in events : e.kind = "PersonDeleted" /\ e.id = r.id
                          /\ r.kc \in stranded' \/ \A x \in kc : x.id # r.kc
  <1>1. Inv /\ [Next]_vars => [Told]_vars
    <2> SUFFICES ASSUME Inv, Next, NEW r \in db, r.id \notin {s.id : s \in db'}
                 PROVE /\ \E e \in events : e.kind = "PersonDeleted" /\ e.id = r.id
                       /\ r.kc \in stranded' \/ \A x \in kc : x.id # r.kc
      OBVIOUS
    (* No other action takes a row away. *)
    <2>1. db' # db OBVIOUS
    <2>2. PICK c \in Callers : DeleteRow(c)
      <3>1. ASSUME NEW c \in Callers, SaveUpdate(c) PROVE FALSE
        <4>1. req[c] \in Updates BY <3>1, Kinds DEF SaveUpdate, Inv
        <4>2. PICK m \in RowsOf(req[c].id) : \E w \in Written(m, req[c]) :
                db' = (db \ RowsOf(req[c].id)) \union {w}
          BY <2>1, <3>1 DEF SaveUpdate
        <4>3. PICK w \in Written(m, req[c]) : db' = (db \ RowsOf(req[c].id)) \union {w}
          BY <4>2
        <4>4. m \in db /\ m.id = req[c].id BY DEF RowsOf
        <4>5. m \in Rows BY <4>4 DEF Inv, Typed
        <4>6. w.id = m.id BY <4>1, <4>5, WrittenRow
        <4>7. r \in db' \/ r.id = req[c].id BY <4>3 DEF RowsOf
        <4> QED BY <4>3, <4>4, <4>6, <4>7
      <3>2. ASSUME NEW m \in db, NEW date, db' = (db \ {m}) \union {[m EXCEPT !.unassigned = date]}
            PROVE FALSE
        <4>1. m \in Rows BY DEF Inv, Typed
        <4>2. [m EXCEPT !.unassigned = date].id = m.id BY <4>1 DEF Rows
        <4> QED BY <3>2, <4>2
      <3>3. ~DaysPass BY <3>2 DEF DaysPass
      <3>4. \A p \in Persons : ~KontexteChange(p) BY <3>2 DEF KontexteChange, RowsOf
      <3>5. \A c \in Callers : ~CommitPerson(c) BY <2>1 DEF CommitPerson
      <3>6. \A c \in Clients : ~(CreateBegins(c) \/ MigrationBegins(c) \/ DeleteBegins(c)
                                  \/ UpdateBegins(c) \/ PutBegins(c))
        BY <2>1 DEF CreateBegins, MigrationBegins, DeleteBegins, UpdateBegins, PutBegins, Begin, stores
      <3>7. ~CronDeletes /\ ~Restart BY <2>1 DEF CronDeletes, Restart, stores
      <3>8. ASSUME NEW c \in Callers, Step(c) PROVE DeleteRow(c)
        <4>1. ~(Search(c) \/ CreateChecksNummer(c) \/ SetPassword(c) \/ DeleteLoads(c)
                  \/ UpdateChecksNummer(c) \/ FindUser(c) \/ CallFails(c))
          BY <2>1 DEF Search, CreateChecksNummer, SetPassword, DeleteLoads, UpdateChecksNummer,
                      FindUser, CallFails, stores
        <4>2. ~(CreateUser(c) \/ CreateUserHashed(c) \/ UndoUser(c) \/ CreateKontexte(c))
          BY <2>1 DEF CreateUser, CreateUserHashed, UserCreated, UndoUser, CreateKontexte
        <4>3. ~(DeleteUser(c) \/ DeletePublishes(c) \/ RenameUser(c) \/ AnnounceUpdate(c))
          BY <2>1 DEF DeleteUser, DeletePublishes, RenameUser, AnnounceUpdate
        <4> QED BY <3>1, <3>5, <3>8, <4>1, <4>2, <4>3 DEF Step
      <3> QED BY <3>3, <3>4, <3>6, <3>7, <3>8 DEF Next
    <2>3. /\ At(c, "delete", "remove") /\ DeletesOwn(c)
          /\ db' = {s \in db : s.id # req[c].id} /\ stranded' = stranded \union NewUsers(c)
      BY <2>1, <2>2 DEF DeleteRow, Inv, DeletingInv
    <2>4. r.id = req[c].id BY <2>3
    <2>5. \E e \in events : e.kind = "PersonDeleted" /\ e.id = r.id BY <2>3, <2>4 DEF DeletesOwn
    <2>6. CASE r.kc = req[c].kc BY <2>3, <2>5, <2>6 DEF DeletesOwn
    <2>7. CASE r.kc # req[c].kc BY <2>3, <2>4, <2>5, <2>7 DEF NewUsers, RowsOf
    <2> QED BY <2>6, <2>7
  <1> QED BY <1>1, Invariance, PTL DEF Spec, DeletionAnnounced
=============================================================================
