------------------------ MODULE EmailAddressesProofs ------------------------
(***************************************************************************)
(* For any number of requests, schools, addresses and names,               *)
(* EmailAddresses is type correct; and while its requests are answered one *)
(* after the other, with no call failing, the table, OX and Keycloak agree *)
(* with the rights of the person whenever no handler is in progress, and   *)
(* mail to the enabled address reaches the person at every moment.         *)
(***************************************************************************)
EXTENDS EmailAddresses, FiniteSetTheorems, WellFoundedInduction, TLAPS

-----------------------------------------------------------------------------
(* Operators                                                               *)

(* A set of natural numbers has a least one.                                *)
LEMMA Least ==
  ASSUME NEW S \in SUBSET Nat, S # {}
  PROVE  \E n \in S : \A m \in S : n <= m
<1> DEFINE R == {p \in Nat \X Nat : p[1] < p[2]}
<1>1. IsWellFoundedOn(R, Nat)
  BY NatLessThanWellFounded DEF OpToRel
<1>2. PICK n \in S : \A m \in S : ~(<<m, n>> \in R)
  <2> HIDE DEF R
  <2> QED
    BY <1>1, WFMin
<1>3. \A m \in S : ~(m < n)
  BY <1>2
<1> QED
  BY <1>3

-----------------------------------------------------------------------------
(* Type correctness                                                        *)

Places ==
  {"person", "school", "generate", "save", "write", "without", "disable", "renamed", "renamedWith",
   "renamedWithout", "confirm", "confirmDisabled", "deactivate", "create", "exists", "oxCreate",
   "alreadyExists", "join", "change", "oxChange", "leaveRead", "leave", "disabledInOx", "deleted",
   "list", "retire", "keycloakSet", "disabledInKeycloak", "deleteRow"}

(* What a handler knows.  The text made up for an address that could not be *)
(* is a text of a row as long as there is room for the row.                 *)
Mails == [status : EmailAddressStatus, ox : OxIds \union {0}, text : Nat]
Helds == UNION {[A -> Mails] : A \in SUBSET (0 .. MaxAddresses)}
Handlers ==
  [q : Sessions, at : Places, for : Purposes, school : SUBSET Schools, todo : SUBSET Schools,
   held : Helds, ox : OxIds \union {0}, text : Texts, any : BOOLEAN]

HoldsOne(t) == \E a \in 0 .. MaxAddresses : DOMAIN t.held = {a}
Shaped(t) ==
  /\ t \in Handlers
  /\ t.at \in {"save", "write", "exists", "oxCreate", "oxChange"} => HoldsOne(t)
  /\ t.at = "join" => t.held = <<>> \/ HoldsOne(t)
  /\ t.at \notin {"save", "write", "exists", "oxCreate", "oxChange", "join", "disable"} => t.held = <<>>
  /\ t.at = "save" => t.for \in {"enable", "create", "change", "disabled", "oxid", "confirm"}
  /\ t.at = "write" => t.for \in {"enable", "create", "change", "disabled", "oxid", "confirm",
                                  "failed", "rename", "disable"}
  /\ t.at = "generate" => t.for \in {"create", "change", "disabled"}
  /\ t.at = "join" \/ (t.at \in {"save", "write"} /\ t.for = "oxid") => t.ox \in OxIds
  /\ 0 \in DOMAIN t.held => t.at \in {"save", "write"} /\ t.for \in {"create", "change", "disabled", "failed"}
  /\ \A a \in DOMAIN t.held : a # 0 => t.held[a].text \in Texts
Fits(t) == 0 \in DOMAIN t.held => t.held[0].text \in Texts \/ Len(order) >= MaxAddresses

Typed ==
  /\ TypeOK
  /\ loaded \in [Sessions -> Seq(Slots)] /\ username \in [Sessions -> Names \union {0}]
  /\ \A t \in tasks : Shaped(t) /\ Fits(t)

(* A handler that has just been started. *)
LEMMA TaskShaped ==
  ASSUME NEW q \in Sessions, NEW at \in Places
  PROVE  /\ Task(q, at) \in Handlers /\ Task(q, at).q = q /\ Task(q, at).at = at
         /\ Task(q, at).for = "none" /\ Task(q, at).school = {} /\ Task(q, at).todo = {}
         /\ Task(q, at).held = <<>> /\ Task(q, at).ox = 0 /\ Task(q, at).text = 0
<1>1. <<>> \in [{} -> Mails]
  OBVIOUS
<1>2. <<>> \in Helds
  BY <1>1 DEF Helds
<1>3. "none" \in Purposes /\ 0 \in Texts
  BY BoundsAssumption DEF Purposes, Texts
<1> QED
  BY <1>2, <1>3 DEF Task, Handlers

(* The row that is held is one that can be. *)
LEMMA HeldIs ==
  ASSUME NEW t \in Handlers, HoldsOne(t)
  PROVE  /\ Held(t) \in 0 .. MaxAddresses /\ DOMAIN t.held = {Held(t)}
         /\ t.held[Held(t)] \in Mails
<1>1. DOMAIN t.held = {Held(t)}
  BY DEF HoldsOne, Held
<1>2. PICK A \in SUBSET (0 .. MaxAddresses) : t.held \in [A -> Mails]
  BY DEF Handlers, Helds
<1> QED
  BY <1>1, <1>2

(* A handler that holds one row. *)
LEMMA HoldingShaped ==
  ASSUME NEW t \in Handlers, NEW a \in 0 .. MaxAddresses, NEW m \in Mails
  PROVE  LET u == Holding(t, a, m) IN
         /\ u \in Handlers /\ u = [t EXCEPT !.held = u.held]
         /\ DOMAIN u.held = {a} /\ u.held[a] = m
<1>1. [b \in {a} |-> m] \in [{a} -> Mails]
  OBVIOUS
<1>2. [b \in {a} |-> m] \in Helds
  BY <1>1 DEF Helds
<1> QED
  BY <1>2 DEF Holding, Handlers

(* The types, one part at a time.                                           *)
HandlersTyped == \A t \in tasks : Shaped(t) /\ Fits(t)
TableTyped ==
  /\ row \in [Slots -> EmailAddress \union {NoRow}]
  /\ order \in Seq(Slots) /\ Len(order) <= MaxAddresses
  /\ loaded \in [Sessions -> Seq(Slots)]
OthersTyped ==
  /\ person \in [exists : BOOLEAN, name : Names]
  /\ schools \subseteq Schools
  /\ offers \in BOOLEAN
  /\ oxUser \in [OxIds -> [name : Names \union {0}, primary : Texts]]
  /\ member \in [Schools -> SUBSET OxIds]
  /\ keycloak \in {"unset", "set", "gone"}
  /\ username \in [Sessions -> Names \union {0}]
  /\ faults \in 0 .. MaxFaults /\ overlaps \in 0 .. MaxOverlaps
  /\ crowd \in BOOLEAN

(* The parts make up the whole, *)
LEMMA TypedParts == Typed <=> TableTyped /\ OthersTyped /\ HandlersTyped
<1>1. order \in UNION {[1 .. n -> Slots] : n \in 0 .. MaxAddresses}
        <=> order \in Seq(Slots) /\ Len(order) <= MaxAddresses
  <2>1. ASSUME NEW n \in 0 .. MaxAddresses, order \in [1 .. n -> Slots]
        PROVE  order \in Seq(Slots) /\ Len(order) <= MaxAddresses
    BY <2>1, BoundsAssumption
  <2>2. ASSUME order \in Seq(Slots), Len(order) <= MaxAddresses
        PROVE  Len(order) \in 0 .. MaxAddresses /\ order \in [1 .. Len(order) -> Slots]
    BY <2>2, BoundsAssumption
  <2> QED
    BY <2>1, <2>2
<1>2. HandlersTyped => \A t \in tasks : t.q \in Sessions /\ t.for \in Purposes /\ t.school \subseteq Schools
  BY DEF HandlersTyped, Shaped, Handlers
<1> QED
  BY <1>1, <1>2 DEF Typed, TypeOK, TableTyped, OthersTyped, HandlersTyped

(* also after a step. *)
LEMMA TypedPartsAfter == (TableTyped /\ OthersTyped /\ HandlersTyped)' => Typed'
  BY TypedParts, PTL

(* The handlers that go on are typed if those they go on as are.            *)
LEMMA DoTyped ==
  ASSUME HandlersTyped, TableTyped, TableTyped', Len(order) <= Len(order'),
         NEW t, NEW T, Do(t, T), \A u \in T : Shaped(u) /\ Fits(u)'
  PROVE  HandlersTyped'
<1>1. ASSUME NEW u \in tasks PROVE Shaped(u)' /\ Fits(u)'
  <2>1. Shaped(u) /\ Fits(u)
    BY DEF HandlersTyped
  <2> QED
    BY <2>1, BoundsAssumption DEF Shaped, HoldsOne, Fits, TableTyped
<1>2. ASSUME NEW u \in T PROVE Shaped(u)'
  <2>1. Shaped(u)
    OBVIOUS
  <2> QED
    BY <2>1 DEF Shaped, HoldsOne
<1> QED
  BY <1>1, <1>2 DEF HandlersTyped, Do

(* A step that leaves all tables as they are. *)
LEMMA SameTables ==
  ASSUME Typed, NEW t, NEW T, Do(t, T), \A u \in T : Shaped(u) /\ Fits(u),
         UNCHANGED <<table, loaded>>, OthersTyped'
  PROVE  Typed'
<1>1. TableTyped /\ HandlersTyped
  BY TypedParts
<1>2. TableTyped' /\ order' = order
  BY <1>1 DEF TableTyped, table
<1>3. Len(order) <= Len(order')
  BY <1>1, <1>2 DEF TableTyped
<1>4. \A u \in T : Fits(u)'
  BY <1>2 DEF Fits
<1> QED
  BY <1>1, <1>2, <1>3, <1>4, DoTyped, TypedPartsAfter

(* What a step leaves alone that only goes on with the handlers. *)
Nothing == UNCHANGED <<table, person, schools, offers, ox, keycloak, copy, trouble>>

(* The types after such a step. *)
LEMMA NothingTyped ==
  ASSUME Typed, NEW t, NEW T, Do(t, T), \A u \in T : Shaped(u) /\ Fits(u), Nothing
  PROVE  Typed'
<1>1. OthersTyped'
  BY TypedParts DEF OthersTyped, Nothing, ox, copy, trouble
<1>2. UNCHANGED <<table, loaded>>
  BY DEF Nothing, copy
<1> QED
  BY <1>1, <1>2, SameTables

(* A handler in progress.                                                   *)
LEMMA TaskTyped ==
  ASSUME Typed, NEW t \in tasks
  PROVE  /\ Shaped(t) /\ Fits(t) /\ t \in Handlers
         /\ t.q \in Sessions /\ t.at \in Places /\ t.for \in Purposes
         /\ t.school \subseteq Schools /\ t.todo \subseteq Schools
         /\ t.held \in Helds /\ t.ox \in OxIds \union {0} /\ t.text \in Texts
BY DEF Typed, Shaped, Handlers

(* Who holds nothing. *)
LEMMA HoldsNothing ==
  ASSUME NEW u \in Handlers, u.held = <<>>,
         u.at \notin {"save", "write", "exists", "oxCreate", "oxChange"},
         u.at = "generate" => u.for \in {"create", "change", "disabled"},
         u.at = "join" => u.ox \in OxIds
  PROVE  Shaped(u) /\ Fits(u)
<1>1. DOMAIN u.held = {}
  OBVIOUS
<1> QED
  BY <1>1 DEF Shaped, Fits

(* A handler that has just been started. *)
LEMMA StartShaped ==
  ASSUME NEW q \in Sessions, NEW at \in Places \ {"save", "write", "exists", "oxCreate", "oxChange", "join", "generate"},
         NEW S \in SUBSET Schools, NEW D \in SUBSET Schools, NEW x \in OxIds \union {0}, NEW text \in Texts
  PROVE  /\ Shaped(Task(q, at)) /\ Fits(Task(q, at))
         /\ LET u == [Task(q, at) EXCEPT !.school = S] IN Shaped(u) /\ Fits(u)
         /\ LET u == [Task(q, at) EXCEPT !.todo = S] IN Shaped(u) /\ Fits(u)
         /\ LET u == [Task(q, at) EXCEPT !.text = text] IN Shaped(u) /\ Fits(u)
         /\ LET u == [Task(q, at) EXCEPT !.ox = x, !.text = text] IN Shaped(u) /\ Fits(u)
<1>1. PICK t : t = Task(q, at)
  OBVIOUS
<1>2. t \in Handlers /\ t.at = at /\ t.held = <<>>
  BY <1>1, TaskShaped
<1>3. Shaped(t) /\ Fits(t)
  BY <1>2, HoldsNothing
<1>4. PICK u : u = [t EXCEPT !.school = S]
  OBVIOUS
<1>5. Shaped(u) /\ Fits(u)
  BY <1>2, <1>4, HoldsNothing DEF Handlers
<1>6. PICK v : v = [t EXCEPT !.todo = S]
  OBVIOUS
<1>7. Shaped(v) /\ Fits(v)
  BY <1>2, <1>6, HoldsNothing DEF Handlers
<1>8. PICK w : w = [t EXCEPT !.text = text]
  OBVIOUS
<1>9. Shaped(w) /\ Fits(w)
  BY <1>2, <1>8, HoldsNothing DEF Handlers
<1>10. PICK z : z = [t EXCEPT !.ox = x, !.text = text]
  OBVIOUS
<1>11. Shaped(z) /\ Fits(z)
  BY <1>2, <1>10, HoldsNothing DEF Handlers
<1> QED
  BY <1>1, <1>3, <1>4, <1>5, <1>6, <1>7, <1>8, <1>9, <1>10, <1>11

(* The first row with one of some statuses. *)
LEMMA FirstOfTyped ==
  ASSUME NEW seq \in Seq(Slots), NEW S
  PROVE  /\ FirstOf(seq, S) \in Slots \union {0}
         /\ FirstOf(seq, S) # 0 => row[FirstOf(seq, S)].status \in S
<1> DEFINE I == {i \in 1 .. Len(seq) : row[seq[i]].status \in S}
           k == CHOOSE i \in I : \A j \in I : i <= j
<1>1. CASE I = {}
  BY <1>1 DEF FirstOf
<1>2. CASE I # {}
  <2>1. I \in SUBSET Nat
    OBVIOUS
  <2>2. \E i \in I : \A j \in I : i <= j
    BY <1>2, <2>1, Least
  <2>3. k \in I
    BY <2>2
  <2>4. FirstOf(seq, S) = seq[k]
    BY <1>2 DEF FirstOf
  <2>5. k \in 1 .. Len(seq) /\ row[seq[k]].status \in S
    BY <2>3
  <2> HIDE DEF k, I
  <2>6. seq[k] \in Slots
    BY <2>5
  <2> QED
    BY <2>4, <2>5, <2>6
<1> QED
  BY <1>1, <1>2

(* The latest row with one of some statuses. *)
LEMMA NewestTyped ==
  ASSUME Typed, NEW S \in SUBSET EmailAddressStatus
  PROVE  /\ Newest(S) \in Slots \union {0}
         /\ Newest(S) # 0 => row[Newest(S)] \in EmailAddress /\ row[Newest(S)].status \in S
<1>1. Addresses \in Seq(Slots)
  BY TypedParts DEF TableTyped, Addresses
<1>2. /\ Newest(S) \in Slots \union {0}
      /\ Newest(S) # 0 => row[Newest(S)].status \in S
  BY <1>1, FirstOfTyped DEF Newest
<1>3. Newest(S) # 0 => row[Newest(S)] \in EmailAddress \union {NoRow}
  BY <1>2, TypedParts DEF TableTyped
<1> QED
  BY <1>2, <1>3 DEF EmailAddressStatus, NoRow

(* The user of OX a session knows of. *)
LEMMA OxUserIdTyped ==
  ASSUME Typed, NEW q \in Sessions
  PROVE  OxUserId(q) \in OxIds \union {0}
<1>1. loaded[q] \in Seq(Slots)
  BY TypedParts DEF TableTyped
<1> DEFINE a == FirstOf(loaded[q], EmailAddressStatus \ {"FAILED"})
<1>2. a \in Slots \union {0}
  BY <1>1, FirstOfTyped
<1>3. a # 0 => row[a] \in EmailAddress \union {NoRow}
  BY <1>2, TypedParts DEF TableTyped
<1> HIDE DEF a
<1> QED
  BY <1>2, <1>3 DEF OxUserId, a, EmailAddress, NoRow

(* The address of a list of rows. *)
LEMMA EmailOfTyped ==
  ASSUME Typed, NEW seq \in Seq(Slots)
  PROVE  EmailOf(seq) \in Texts
<1> DEFINE a == FirstOf(seq, {"ENABLED"})
<1>1. a \in Slots \union {0}
  BY FirstOfTyped
<1>2. \A b \in Slots : row[b].text \in Texts
  BY TypedParts, BoundsAssumption DEF TableTyped, EmailAddress, NoRow, Texts
<1>3. 0 \in Texts
  BY BoundsAssumption DEF Texts
<1>4. seq # <<>> => Head(seq) \in Slots
  OBVIOUS
<1> HIDE DEF a
<1> QED
  BY <1>1, <1>2, <1>3, <1>4 DEF EmailOf, a

(* What a handler becomes. *)
LEMMA GoesShaped ==
  ASSUME Typed, NEW t \in tasks, NEW at \in Places, NEW for \in Purposes
  PROVE  /\ LET u == Goes(t, at) IN
            u \in Handlers /\ u.at = at /\ u.for = t.for /\ u.held = t.held /\ u.ox = t.ox
         /\ LET u == Saves(t, at, for) IN
            u \in Handlers /\ u.at = at /\ u.for = for /\ u.held = t.held /\ u.ox = t.ox
BY TaskTyped DEF Goes, Saves, Handlers

(* The loop over the schools goes on. *)
LEMMA LoopShaped ==
  ASSUME NEW t \in Handlers
  PROVE  \A u \in Loop(t) : Shaped(u) /\ Fits(u)
<1>1. t.q \in Sessions /\ t.todo \in SUBSET Schools /\ "school" \in Places
  BY DEF Handlers, Places
<1>2. 0 \in Texts /\ 0 \in OxIds \union {0}
  BY BoundsAssumption DEF Texts
<1>3. LET u == [Task(t.q, "school") EXCEPT !.todo = t.todo] IN Shaped(u) /\ Fits(u)
  BY <1>1, <1>2, StartShaped
<1> QED
  BY <1>3 DEF Loop

(* The one row a handler holds gets another status. *)
LEMMA FailedShaped ==
  ASSUME Typed, NEW t \in tasks, HoldsOne(t), 0 \notin DOMAIN t.held
  PROVE  LET u == Saves(Status(t, "FAILED"), "write", "failed") IN Shaped(u) /\ Fits(u)
<1>1. t \in Handlers /\ Shaped(t)
  BY TaskTyped
<1> DEFINE a == Held(t)
<1>2. a \in 0 .. MaxAddresses /\ DOMAIN t.held = {a} /\ t.held[a] \in Mails
  BY <1>1, HeldIs
<1>3. a # 0 /\ t.held[a].text \in Texts
  BY <1>1, <1>2 DEF Shaped
<1>4. PICK m : m = [t.held[a] EXCEPT !.status = "FAILED"]
  OBVIOUS
<1>5. m \in Mails /\ m.text = t.held[a].text
  BY <1>2, <1>4 DEF Mails, EmailAddressStatus
<1>6. PICK h : h = Holding(t, a, m)
  OBVIOUS
<1>7. h \in Handlers /\ DOMAIN h.held = {a} /\ h.held[a] = m
  BY <1>1, <1>2, <1>5, <1>6, HoldingShaped
<1>8. h = Status(t, "FAILED")
  BY <1>4, <1>6 DEF Status
<1>9. PICK u : u = Saves(h, "write", "failed")
  OBVIOUS
<1>10. u \in Handlers /\ u.at = "write" /\ u.for = "failed" /\ u.held = h.held
  BY <1>7, <1>9 DEF Saves, Handlers, Places, Purposes
<1>11. Shaped(u) /\ Fits(u)
  BY <1>2, <1>3, <1>5, <1>7, <1>10 DEF Shaped, Fits, HoldsOne
<1> QED
  BY <1>8, <1>9, <1>11

(* The save of an address. *)
LEMMA CheckSaveTyped ==
  ASSUME Typed, NEW t \in tasks, CheckSave(t) PROVE Typed'
<1>1. Shaped(t) /\ Fits(t) /\ t \in Handlers /\ t.at = "save"
  BY TaskTyped DEF CheckSave, At
<1>2. LET u == Goes(t, "write") IN Shaped(u) /\ Fits(u)
  <2>1. PICK u : u = Goes(t, "write")
    OBVIOUS
  <2>2. "write" \in Places /\ "none" \in Purposes
    BY DEF Places, Purposes
  <2>3. u \in Handlers /\ u.at = "write" /\ u.for = t.for /\ u.held = t.held /\ u.ox = t.ox
    BY <2>1, <2>2, <1>1, GoesShaped
  <2> QED
    BY <1>1, <2>1, <2>3 DEF Shaped, Fits, HoldsOne
<1>3. \A u \in AfterRefused(t) : Shaped(u) /\ Fits(u)
  <2>1. CASE t.for \in {"enable", "create"}
    BY <1>1, <2>1, LoopShaped DEF AfterRefused
  <2>2. CASE t.for = "oxid"
    <3>1. HoldsOne(t) /\ 0 \notin DOMAIN t.held
      BY <1>1, <2>2 DEF Shaped
    <3> QED
      BY <2>2, <3>1, FailedShaped DEF AfterRefused
  <2>3. CASE t.for \in {"change", "disabled", "confirm"}
    BY <2>3 DEF AfterRefused
  <2> QED
    BY <1>1, <2>1, <2>2, <2>3 DEF Shaped
<1> DEFINE T == IF Enabled = {} THEN {Goes(t, "write")} ELSE AfterRefused(t)
<1>4. \A u \in T : Shaped(u) /\ Fits(u)
  BY <1>2, <1>3
<1>5. Do(t, T) /\ Nothing
  BY DEF CheckSave, Nothing
<1> QED
  BY <1>4, <1>5, NothingTyped

(* Who goes on when a row is written. *)
LEMMA AfterSavedShaped ==
  ASSUME Typed, NEW t \in tasks, t.at = "write"
  PROVE  \A u \in AfterSaved(t) : Shaped(u) /\ (DOMAIN u.held = {} \/ (u.held = t.held /\ 0 \notin DOMAIN t.held))
<1>1. Shaped(t) /\ t \in Handlers /\ t.q \in Sessions /\ t.school \in SUBSET Schools
  BY TaskTyped
<1>2. {} \in SUBSET Schools /\ 0 \in Texts /\ 0 \in OxIds \union {0}
  BY BoundsAssumption DEF Texts
<1>p. /\ "school" \in Places /\ "create" \in Places /\ "change" \in Places /\ "generate" \in Places
      /\ "join" \in Places
  BY DEF Places
<1>s. \A at \in Places : /\ Task(t.q, at) \in Handlers /\ Task(t.q, at).held = <<>>
                         /\ Task(t.q, at).at = at
  BY <1>1, TaskShaped
<1>3. \A u \in Loop(t) : Shaped(u) /\ DOMAIN u.held = {}
  <2>1. PICK u : u = [Task(t.q, "school") EXCEPT !.todo = t.todo]
    OBVIOUS
  <2>2. PICK s : s = Task(t.q, "school")
    OBVIOUS
  <2>3. s \in Handlers /\ s.held = <<>>
    BY <1>s, <1>p, <2>2
  <2>4. u.held = <<>>
    BY <2>1, <2>2, <2>3 DEF Handlers
  <2>5. \A v \in Loop(t) : v = u
    BY <2>1 DEF Loop
  <2>6. \A v \in Loop(t) : Shaped(v)
    BY <1>1, LoopShaped
  <2> QED
    BY <2>4, <2>5, <2>6
<1>4. CASE t.for \in {"enable", "create"}
  <2>1. "create" \in Places \ {"save", "write", "exists", "oxCreate", "oxChange", "join", "generate"}
    BY DEF Places
  <2>2. PICK s : s = Task(t.q, "create")
    OBVIOUS
  <2>3. s \in Handlers /\ s.held = <<>> /\ s.at = "create"
    BY <1>s, <1>p, <2>2
  <2>4. PICK u : u = [s EXCEPT !.school = t.school]
    OBVIOUS
  <2>5. u \in Handlers /\ u.held = <<>> /\ u.at = "create"
    BY <1>1, <2>3, <2>4 DEF Handlers
  <2>6. Shaped(u) /\ DOMAIN u.held = {}
    BY <2>5, HoldsNothing
  <2>7. AfterSaved(t) = Loop(t) \union {u}
    BY <1>4, <2>2, <2>4 DEF AfterSaved, Generated
  <2> QED
    BY <1>3, <2>6, <2>7
<1>5. CASE t.for = "failed"
  <2>1. AfterSaved(t) = Loop(t)
    BY <1>5 DEF AfterSaved
  <2> QED
    BY <1>3, <2>1
<1>6. ASSUME NEW for \in Purposes, NEW u, u = Saves(Task(t.q, "change"), "change", for)
      PROVE  Shaped(u) /\ DOMAIN u.held = {}
  <2>1. PICK s : s = Task(t.q, "change")
    OBVIOUS
  <2>2. s \in Handlers /\ s.held = <<>>
    BY <1>s, <1>p, <2>1
  <2>3. u \in Handlers /\ u.held = <<>> /\ u.at = "change"
    BY <1>6, <1>p, <2>1, <2>2 DEF Saves, Handlers
  <2> QED
    BY <2>3, HoldsNothing
<1>7. CASE t.for = "change"
  <2>1. "confirm" \in Purposes
    BY DEF Purposes
  <2> QED
    BY <1>6, <1>7, <2>1 DEF AfterSaved
<1>8. CASE t.for = "disabled"
  <2>1. "disabled" \in Purposes
    BY DEF Purposes
  <2> QED
    BY <1>6, <1>8, <2>1 DEF AfterSaved
<1>9. CASE t.for = "rename"
  <2>1. PICK s : s = Task(t.q, "generate")
    OBVIOUS
  <2>2. s \in Handlers /\ s.held = <<>>
    BY <1>s, <1>p, <2>1
  <2>3. PICK u : u = [Saves(s, "generate", "change") EXCEPT !.school = t.school]
    OBVIOUS
  <2>c. "change" \in Purposes
    BY DEF Purposes
  <2>4. u \in Handlers /\ u.held = <<>> /\ u.at = "generate" /\ u.for = "change"
    BY <1>1, <1>p, <2>c, <2>2, <2>3 DEF Saves, Handlers
  <2>5. Shaped(u) /\ DOMAIN u.held = {}
    BY <2>4, HoldsNothing
  <2> QED
    BY <1>9, <2>1, <2>3, <2>5 DEF AfterSaved
<1>10. CASE t.for = "oxid"
  <2>1. PICK u : u = Goes(t, "join")
    OBVIOUS
  <2>2. u \in Handlers /\ u.held = t.held /\ u.at = "join" /\ u.ox = t.ox
    BY <1>1, <1>p, <2>1 DEF Goes, Handlers
  <2>3. 0 \notin DOMAIN t.held /\ HoldsOne(t) /\ t.ox \in OxIds
    BY <1>1, <1>10 DEF Shaped
  <2>4. Shaped(u)
    BY <1>1, <2>2, <2>3 DEF Shaped, HoldsOne
  <2> QED
    BY <1>10, <2>1, <2>2, <2>3, <2>4 DEF AfterSaved
<1>11. CASE t.for \in {"confirm", "disable"}
  BY <1>11 DEF AfterSaved
<1> QED
  BY <1>1, <1>4, <1>5, <1>7, <1>8, <1>9, <1>10, <1>11 DEF Shaped

(* The row that a handler writes. *)
LEMMA HeldTyped ==
  ASSUME Typed, NEW t \in tasks, HoldsOne(t)
  PROVE  /\ Held(t) \in 0 .. MaxAddresses /\ DOMAIN t.held = {Held(t)}
         /\ t.held[Held(t)] \in Mails
         /\ Held(t) # 0 \/ Len(order) < MaxAddresses => t.held[Held(t)] \in EmailAddress
<1>1. t \in Handlers /\ Shaped(t) /\ Fits(t)
  BY TaskTyped
<1>2. Held(t) \in 0 .. MaxAddresses /\ DOMAIN t.held = {Held(t)} /\ t.held[Held(t)] \in Mails
  BY <1>1, HeldIs
<1>3. order \in Seq(Slots)
  BY TypedParts DEF TableTyped
<1>4. Held(t) # 0 \/ Len(order) < MaxAddresses => t.held[Held(t)].text \in Texts
  BY <1>1, <1>2, <1>3, BoundsAssumption DEF Shaped, Fits
<1> QED
  BY <1>2, <1>4 DEF Mails, EmailAddress

(* A row moved to the front. *)
LEMMA ToFrontTyped ==
  ASSUME NEW seq \in Seq(Slots), NEW a \in Slots
  PROVE  ToFront(seq, a) \in Seq(Slots) /\ Len(ToFront(seq, a)) = Len(seq)
<1> DEFINE p == CHOOSE i \in 1 .. Len(seq) : seq[i] = a
           f(i) == CASE i = 1 -> a [] i > 1 /\ i <= p -> seq[i - 1] [] OTHER -> seq[i]
<1>1. Len(seq) \in Nat /\ \A i \in 1 .. Len(seq) : seq[i] \in Slots
  OBVIOUS
<1>2. ToFront(seq, a) = [i \in 1 .. Len(seq) |-> f(i)]
  BY DEF ToFront
<1>3. ASSUME NEW i \in 1 .. Len(seq) PROVE f(i) \in Slots
  <2>1. i > 1 => i - 1 \in 1 .. Len(seq)
    BY <1>1
  <2> HIDE DEF p
  <2>2. CASE i = 1
    BY <2>2
  <2>3. CASE i > 1 /\ i <= p
    BY <1>1, <2>1, <2>3
  <2>4. CASE i # 1 /\ ~(i > 1 /\ i <= p)
    BY <1>1, <2>4
  <2> QED
    BY <2>2, <2>3, <2>4
<1> HIDE DEF f
<1>4. PICK g : g = [i \in 1 .. Len(seq) |-> f(i)]
  OBVIOUS
<1>5. g \in [1 .. Len(seq) -> Slots]
  BY <1>3, <1>4
<1>6. g \in Seq(Slots) /\ Len(g) = Len(seq)
  BY <1>1, <1>5
<1> QED
  BY <1>2, <1>4, <1>6

(* A row gets another value. *)
LEMMA UpdateTyped ==
  ASSUME Typed, NEW a \in Slots, NEW m \in EmailAddress, Update(a, m)
  PROVE  TableTyped' /\ Len(order') = Len(order)
<1>1. TableTyped
  BY TypedParts
<1>2. row' = [row EXCEPT ![a] = m] /\ loaded' = loaded
      /\ (order' = order \/ order' = ToFront(order, a))
  BY DEF Update
<1>3. order' \in Seq(Slots) /\ Len(order') = Len(order)
  BY <1>1, <1>2, ToFrontTyped DEF TableTyped
<1>4. row' \in [Slots -> EmailAddress \union {NoRow}]
  BY <1>1, <1>2 DEF TableTyped
<1> QED
  BY <1>1, <1>2, <1>3, <1>4 DEF TableTyped

(* A row is added. *)
LEMMA CreateTyped ==
  ASSUME Typed, NEW q \in Sessions, NEW m, Create(q, m),
         Len(order) < MaxAddresses => m \in EmailAddress
  PROVE  TableTyped' /\ Len(order') = Len(order) + 1
<1>1. /\ row \in [Slots -> EmailAddress \union {NoRow}]
      /\ order \in Seq(Slots) /\ Len(order) \in Nat
      /\ loaded \in [Sessions -> Seq(Slots)]
  BY TypedParts DEF TableTyped
<1> DEFINE a == Len(order) + 1
<1>2. /\ a \in Slots
      /\ row' = [row EXCEPT ![a] = m] /\ order' = <<a>> \o order
      /\ loaded' = [loaded EXCEPT ![q] = Append(loaded[q], a)]
  BY DEF Create
<1>3. m \in EmailAddress
  BY <1>1, <1>2, BoundsAssumption DEF Slots
<1>4. order' \in Seq(Slots) /\ Len(order') = Len(order) + 1
  <2>1. <<a>> \in Seq(Slots) /\ Len(<<a>>) = 1
    BY <1>2
  <2> HIDE DEF a
  <2> QED
    BY <1>1, <1>2, <2>1
<1>5. Len(order') <= MaxAddresses
  BY <1>1, <1>2, <1>4, BoundsAssumption DEF Slots
<1>6. row' \in [Slots -> EmailAddress \union {NoRow}]
  BY <1>1, <1>2, <1>3
<1>7. Append(loaded[q], a) \in Seq(Slots)
  BY <1>1, <1>2
<1>8. loaded' \in [Sessions -> Seq(Slots)]
  BY <1>1, <1>2, <1>7
<1> QED
  BY <1>4, <1>5, <1>6, <1>8 DEF TableTyped

(* A step that changes the tables. *)
LEMMA NewTables ==
  ASSUME Typed, NEW t, NEW T, Do(t, T), \A u \in T : Shaped(u) /\ Fits(u)',
         TableTyped', OthersTyped', Len(order) <= Len(order')
  PROVE  Typed'
BY TypedParts, TypedPartsAfter, DoTyped

(* The write itself. *)
LEMMA WriteTyped ==
  ASSUME Typed, NEW t \in tasks, Write(t) PROVE Typed'
<1>1. Shaped(t) /\ t \in Handlers /\ t.at = "write" /\ t.q \in Sessions
  BY TaskTyped DEF Write, At
<1>2. HoldsOne(t)
  BY <1>1 DEF Shaped
<1> DEFINE a == Held(t)
           m == t.held[a]
<1>3. /\ a \in 0 .. MaxAddresses
      /\ a # 0 \/ Len(order) < MaxAddresses => m \in EmailAddress
  BY <1>2, HeldTyped
<1>4. OthersTyped'
  BY TypedParts DEF OthersTyped, Write, ox, trouble
<1>5. Len(order) \in Nat
  BY TypedParts DEF TableTyped
<1>6. CASE CanWrite(a, m)
  <2>1. (IF a = 0 THEN Create(t.q, m) ELSE Update(a, m)) /\ Do(t, AfterSaved(t))
    BY <1>6 DEF Write
  <2> HIDE DEF a, m
  <2>2. TableTyped' /\ Len(order) <= Len(order')
    <3>1. CASE a = 0
      BY <1>1, <1>3, <1>5, <2>1, <3>1, CreateTyped
    <3>2. CASE a # 0
      <4>1. a \in Slots /\ m \in EmailAddress
        BY <1>3, <3>2, BoundsAssumption DEF Slots
      <4> QED
        BY <1>5, <2>1, <3>2, <4>1, UpdateTyped
    <3> QED
      BY <3>1, <3>2
  <2>3. ASSUME NEW u \in AfterSaved(t) PROVE Shaped(u) /\ Fits(u)'
    <3>1. Shaped(u) /\ (DOMAIN u.held = {} \/ (u.held = t.held /\ 0 \notin DOMAIN t.held))
      BY <1>1, AfterSavedShaped
    <3> QED
      BY <3>1 DEF Fits
  <2> QED
    BY <1>4, <2>1, <2>2, <2>3, NewTables
<1>7. CASE ~CanWrite(a, m)
  <2>1. Do(t, {}) /\ UNCHANGED <<table, loaded>>
    BY <1>7 DEF Write
  <2> QED
    BY <1>4, <2>1, SameTables
<1> QED
  BY <1>6, <1>7

(* Who holds one row of the table. *)
LEMMA HoldsRow ==
  ASSUME NEW u \in Handlers, NEW a \in Slots, DOMAIN u.held = {a}, u.held[a].text \in Texts,
         u.at \in {"save", "write", "exists", "oxCreate", "oxChange"},
         u.at = "save" => u.for \in {"enable", "confirm"},
         u.at = "write" => u.for \in {"rename", "disable"}
  PROVE  Shaped(u) /\ Fits(u)
<1>1. a \in 0 .. MaxAddresses /\ a # 0
  BY BoundsAssumption DEF Slots
<1>2. HoldsOne(u) /\ 0 \notin DOMAIN u.held
  BY <1>1 DEF HoldsOne
<1> QED
  BY <1>2 DEF Shaped, Fits

(* What is held of a row of the table. *)
LEMMA RowHeld ==
  ASSUME Typed, NEW t \in tasks, NEW a \in Slots, NEW m \in EmailAddress,
         NEW at \in Places, NEW for \in Purposes
  PROVE  /\ LET u == Holding(Saves(t, at, for), a, m) IN
            /\ u \in Handlers /\ u.at = at /\ u.for = for /\ u.ox = t.ox /\ u.q = t.q
            /\ DOMAIN u.held = {a} /\ u.held[a] = m /\ u.held[a].text \in Texts
         /\ LET u == Holding(Goes(t, at), a, m) IN
            /\ u \in Handlers /\ u.at = at /\ u.for = t.for /\ u.ox = t.ox /\ u.q = t.q
            /\ DOMAIN u.held = {a} /\ u.held[a] = m /\ u.held[a].text \in Texts
<1>1. a \in 0 .. MaxAddresses /\ m \in Mails /\ m.text \in Texts
  BY BoundsAssumption DEF Slots, EmailAddress, Mails, Texts
<1>2. PICK s : s = Saves(t, at, for)
  OBVIOUS
<1>3. s \in Handlers /\ s.at = at /\ s.for = for /\ s.ox = t.ox /\ s.q = t.q
  BY <1>2, TaskTyped DEF Saves, Handlers
<1>4. PICK u : u = Holding(s, a, m)
  OBVIOUS
<1>5. u \in Handlers /\ u = [s EXCEPT !.held = u.held] /\ DOMAIN u.held = {a} /\ u.held[a] = m
  BY <1>1, <1>3, <1>4, HoldingShaped
<1>6. u.at = at /\ u.for = for /\ u.ox = t.ox /\ u.q = t.q
  BY <1>3, <1>5 DEF Handlers
<1>7. PICK g : g = Goes(t, at)
  OBVIOUS
<1>8. g \in Handlers /\ g.at = at /\ g.for = t.for /\ g.ox = t.ox /\ g.q = t.q
  BY <1>7, TaskTyped DEF Goes, Handlers
<1>9. PICK v : v = Holding(g, a, m)
  OBVIOUS
<1>10. v \in Handlers /\ v = [g EXCEPT !.held = v.held] /\ DOMAIN v.held = {a} /\ v.held[a] = m
  BY <1>1, <1>8, <1>9, HoldingShaped
<1>11. v.at = at /\ v.for = t.for /\ v.ox = t.ox /\ v.q = t.q
  BY <1>8, <1>10 DEF Handlers
<1> QED
  BY <1>1, <1>2, <1>4, <1>5, <1>6, <1>7, <1>9, <1>10, <1>11

(* The handlers of EmailEventHandler. *)
LEMMA HandlePersonTyped ==
  ASSUME Typed, NEW t \in tasks, HandlePerson(t) PROVE Typed'
<1> DEFINE S == IF offers /\ person.exists THEN schools \ t.school ELSE {}
<1>1. t.q \in Sessions /\ S \in SUBSET Schools
  BY TaskTyped, TypedParts DEF OthersTyped
<1>2. /\ Do(t, {IF S = {} THEN Task(t.q, "without") ELSE [Task(t.q, "school") EXCEPT !.todo = S]})
      /\ Nothing
  BY DEF HandlePerson, Nothing
<1> HIDE DEF S
<1>3. "without" \in Places /\ "school" \in Places
  BY DEF Places
<1>4. 0 \in Texts /\ 0 \in OxIds \union {0}
  BY BoundsAssumption DEF Texts
<1>5. Shaped(Task(t.q, "without")) /\ Fits(Task(t.q, "without"))
  BY <1>1, <1>3, <1>4, StartShaped
<1>6. PICK u : u = [Task(t.q, "school") EXCEPT !.todo = S]
  OBVIOUS
<1>7. Shaped(u) /\ Fits(u)
  BY <1>1, <1>3, <1>4, <1>6, StartShaped
<1> DEFINE v == IF S = {} THEN Task(t.q, "without") ELSE u
<1>8. Do(t, {v})
  BY <1>2, <1>6
<1>9. Shaped(v) /\ Fits(v)
  BY <1>5, <1>7
<1> HIDE DEF v
<1> QED
  BY <1>2, <1>8, <1>9, NothingTyped

(* CreateOrEnable leaves every variable with a value of its kind. *)
LEMMA CreateOrEnableTyped ==
  ASSUME Typed, NEW t \in tasks, CreateOrEnable(t) PROVE Typed'
<1>1. PICK s \in t.todo :
        LET a    == Newest({"ENABLED", "DISABLED"})
            next == [t EXCEPT !.school = {s}, !.todo = @ \ {s}]
            goes == CASE a = 0 -> {Saves(next, "generate", "create")}
                      [] a # 0 /\ row[a].status = "ENABLED" -> Loop(next)
                      [] a # 0 /\ row[a].status = "DISABLED" ->
                           {Holding(Saves(next, "save", "enable"), a,
                                    [row[a] EXCEPT !.status = "ENABLED"])}
        IN Do(t, goes \union
              (IF Addresses = <<>> THEN {}
               ELSE {[Task(t.q, "alreadyExists") EXCEPT !.school = {s}]}))
  BY DEF CreateOrEnable
<1>2. /\ t \in Handlers /\ t.q \in Sessions /\ t.todo \in SUBSET Schools /\ s \in Schools
      /\ t.held = <<>>
  BY TaskTyped DEF CreateOrEnable, At, Shaped
<1> DEFINE a == Newest({"ENABLED", "DISABLED"})
<1>3. a \in Slots \union {0} /\ (a # 0 => row[a] \in EmailAddress /\ row[a].status \in {"ENABLED", "DISABLED"})
  BY NewestTyped DEF EmailAddressStatus
<1>4. PICK next : next = [t EXCEPT !.school = {s}, !.todo = @ \ {s}]
  OBVIOUS
<1>5. next \in Handlers /\ next.held = <<>>
  BY <1>2, <1>4 DEF Handlers
<1> DEFINE goes == CASE a = 0 -> {Saves(next, "generate", "create")}
                     [] a # 0 /\ row[a].status = "ENABLED" -> Loop(next)
                     [] a # 0 /\ row[a].status = "DISABLED" ->
                          {Holding(Saves(next, "save", "enable"), a,
                                   [row[a] EXCEPT !.status = "ENABLED"])}
           called == IF Addresses = <<>> THEN {} ELSE {[Task(t.q, "alreadyExists") EXCEPT !.school = {s}]}
<1>6. Do(t, goes \union called)
  BY <1>1, <1>4
<1>7. \A u \in called : Shaped(u) /\ Fits(u)
  <2>1. "alreadyExists" \in Places /\ {s} \in SUBSET Schools /\ 0 \in Texts /\ 0 \in OxIds \union {0}
    BY <1>2, BoundsAssumption DEF Places, Texts
  <2>2. PICK u : u = [Task(t.q, "alreadyExists") EXCEPT !.school = {s}]
    OBVIOUS
  <2>3. Shaped(u) /\ Fits(u)
    BY <1>2, <2>1, <2>2, StartShaped
  <2> QED
    BY <2>2, <2>3
<1> HIDE DEF a
<1>8. \A u \in goes : Shaped(u) /\ Fits(u)
  <2>1. CASE a = 0
    <3>1. PICK u : u = Saves(next, "generate", "create")
      OBVIOUS
    <3>2. u \in Handlers /\ u.held = <<>> /\ u.at = "generate" /\ u.for = "create"
      BY <1>5, <3>1 DEF Saves, Handlers, Places, Purposes
    <3>3. Shaped(u) /\ Fits(u)
      BY <3>2, HoldsNothing
    <3>4. goes = {u}
      BY <2>1, <3>1
    <3> QED
      BY <3>3, <3>4
  <2>2. CASE a # 0 /\ row[a].status = "ENABLED"
    <3>1. goes = Loop(next)
      BY <2>2
    <3> QED
      BY <1>5, <3>1, LoopShaped
  <2>3. CASE a # 0 /\ row[a].status = "DISABLED"
    <3>1. PICK m : m = [row[a] EXCEPT !.status = "ENABLED"]
      OBVIOUS
    <3>2. a \in Slots /\ m \in EmailAddress
      BY <1>3, <2>3, <3>1 DEF EmailAddress, EmailAddressStatus
    <3>3. PICK v : v = Saves(next, "save", "enable")
      OBVIOUS
    <3>4. v \in Handlers /\ v.at = "save" /\ v.for = "enable"
      BY <1>5, <3>3 DEF Saves, Handlers, Places, Purposes
    <3>5. PICK u : u = Holding(v, a, m)
      OBVIOUS
    <3>6. a \in 0 .. MaxAddresses /\ m \in Mails /\ m.text \in Texts
      BY <3>2, BoundsAssumption DEF Slots, EmailAddress, Mails, Texts
    <3>7. u \in Handlers /\ u = [v EXCEPT !.held = u.held] /\ DOMAIN u.held = {a} /\ u.held[a] = m
      BY <3>4, <3>5, <3>6, HoldingShaped
    <3>8. u.at = "save" /\ u.for = "enable"
      BY <3>4, <3>7 DEF Handlers
    <3>9. Shaped(u) /\ Fits(u)
      BY <3>2, <3>6, <3>7, <3>8, HoldsRow
    <3>10. goes = {u}
      BY <2>3, <3>1, <3>3, <3>5
    <3> QED
      BY <3>9, <3>10
  <2> QED
    BY <1>3, <2>1, <2>2, <2>3
<1> HIDE DEF goes, called
<1>9. Nothing
  BY DEF CreateOrEnable, Nothing
<1> QED
  BY <1>6, <1>7, <1>8, <1>9, NothingTyped

(* Generate leaves every variable with a value of its kind. *)
LEMMA GenerateTyped ==
  ASSUME Typed, NEW t \in tasks, Generate(t) PROVE Typed'
<1>1. Shaped(t) /\ t \in Handlers /\ t.at = "generate"
  BY TaskTyped DEF Generate, At
<1>2. t.for \in {"create", "change", "disabled"}
  BY <1>1 DEF Shaped
<1>3. 0 \in 0 .. MaxAddresses /\ "save" \in Places /\ "write" \in Places
  BY BoundsAssumption DEF Places
<1>4. order \in Seq(Slots) /\ Len(order) \in Nat
  BY TypedParts DEF TableTyped
<1>5. UNCHANGED <<table, loaded>>
  BY DEF Generate, copy
<1>6. CASE /\ Slots \ UsedTexts # {}
           /\ LET n == CHOOSE n \in Slots \ UsedTexts : \A m \in Slots \ UsedTexts : n <= m
              IN Do(t, {Holding(Goes(t, "save"), 0, [status |-> "REQUESTED", ox |-> 0, text |-> n])})
           /\ UNCHANGED trouble
  <2> DEFINE n == CHOOSE n \in Slots \ UsedTexts : \A m \in Slots \ UsedTexts : n <= m
  <2>1. Slots \ UsedTexts \in SUBSET Nat
    BY DEF Slots
  <2>2. n \in Slots
    BY <1>6, <2>1, Least
  <2>3. Do(t, {Holding(Goes(t, "save"), 0, [status |-> "REQUESTED", ox |-> 0, text |-> n])})
    BY <1>6
  <2> HIDE DEF n
  <2>4. PICK m : m = [status |-> "REQUESTED", ox |-> 0, text |-> n]
    OBVIOUS
  <2>5. m \in Mails /\ m.text \in Texts
    BY <2>2, <2>4, BoundsAssumption DEF Mails, Slots, Texts, EmailAddressStatus
  <2>6. PICK g : g = Goes(t, "save")
    OBVIOUS
  <2>7. g \in Handlers /\ g.at = "save" /\ g.for = t.for
    BY <1>1, <1>3, <2>6 DEF Goes, Handlers
  <2>8. PICK u : u = Holding(g, 0, m)
    OBVIOUS
  <2>9. u \in Handlers /\ u = [g EXCEPT !.held = u.held] /\ DOMAIN u.held = {0} /\ u.held[0] = m
    BY <1>3, <2>5, <2>7, <2>8, HoldingShaped
  <2>10. u.at = "save" /\ u.for = t.for
    BY <2>7, <2>9 DEF Handlers
  <2>11. Shaped(u) /\ Fits(u)
    BY <1>2, <1>3, <2>5, <2>9, <2>10 DEF Shaped, Fits, HoldsOne
  <2>12. OthersTyped'
    BY <1>6, TypedParts DEF OthersTyped, Generate, ox, copy, trouble
  <2>13. Do(t, {u})
    BY <2>3, <2>4, <2>6, <2>8
  <2> QED
    BY <1>5, <2>11, <2>12, <2>13, SameTables
<1>7. CASE /\ Fault
           /\ Do(t, {Holding(Saves(t, "write", "failed"), 0, [status |-> "FAILED", ox |-> 0,
                                                        text |-> MaxAddresses + Len(order) + 1])})
  <2>1. PICK m : m = [status |-> "FAILED", ox |-> 0, text |-> MaxAddresses + Len(order) + 1]
    OBVIOUS
  <2>2. m \in Mails /\ (m.text \in Texts \/ Len(order) >= MaxAddresses)
    BY <1>4, <2>1, BoundsAssumption DEF Mails, Texts, EmailAddressStatus
  <2>3. PICK g : g = Saves(t, "write", "failed")
    OBVIOUS
  <2>4. g \in Handlers /\ g.at = "write" /\ g.for = "failed"
    BY <1>1, <1>3, <2>3 DEF Saves, Handlers, Purposes
  <2>5. PICK u : u = Holding(g, 0, m)
    OBVIOUS
  <2>6. u \in Handlers /\ u = [g EXCEPT !.held = u.held] /\ DOMAIN u.held = {0} /\ u.held[0] = m
    BY <1>3, <2>2, <2>4, <2>5, HoldingShaped
  <2>7. u.at = "write" /\ u.for = "failed"
    BY <2>4, <2>6 DEF Handlers
  <2>8. Shaped(u) /\ Fits(u)
    BY <1>3, <2>2, <2>6, <2>7 DEF Shaped, Fits, HoldsOne
  <2>9. OthersTyped'
    BY <1>7, TypedParts, BoundsAssumption DEF OthersTyped, Generate, Fault, ox, copy
  <2>10. Do(t, {u})
    BY <1>7, <2>1, <2>3, <2>5
  <2> QED
    BY <1>5, <2>8, <2>9, <2>10, SameTables
<1> QED
  BY <1>6, <1>7 DEF Generate

(* DisableRead leaves every variable with a value of its kind. *)
LEMMA DisableReadTyped ==
  ASSUME Typed, NEW t \in tasks, DisableRead(t) PROVE Typed'
<1> DEFINE A == {a \in Slots : person.exists /\ row[a].status \in EmailAddressStatus \ {"DISABLED"}}
           h == [a \in A |-> [row[a] EXCEPT !.status = "DISABLED"]]
<1>1. /\ Do(t, IF A = {} THEN {} ELSE {[Goes(t, "disable") EXCEPT !.held = h]})
      /\ Nothing
  BY DEF DisableRead, Nothing
<1>2. Shaped(t) /\ t \in Handlers
  BY TaskTyped
<1>3. h \in [A -> EmailAddress]
  <2>1. ASSUME NEW a \in A PROVE [row[a] EXCEPT !.status = "DISABLED"] \in EmailAddress
    <3>1. row[a] \in EmailAddress
      BY TypedParts DEF TableTyped, NoRow, EmailAddressStatus
    <3> QED
      BY <3>1 DEF EmailAddress, EmailAddressStatus
  <2> QED
    BY <2>1
<1>4. A \in SUBSET (0 .. MaxAddresses) /\ 0 \notin A
  BY DEF Slots
<1> HIDE DEF A, h
<1>5. \A m \in EmailAddress : m \in Mails /\ m.text \in Texts
  BY BoundsAssumption DEF EmailAddress, Mails, Texts
<1>6. h \in [A -> Mails] /\ \A a \in A : h[a].text \in Texts
  BY <1>3, <1>5
<1>7. h \in Helds
  BY <1>4, <1>6 DEF Helds
<1>8. PICK u : u = [Goes(t, "disable") EXCEPT !.held = h]
  OBVIOUS
<1>9. u \in Handlers /\ u.at = "disable" /\ u.held = h
  BY <1>2, <1>7, <1>8 DEF Goes, Handlers, Places
<1>10. DOMAIN u.held = A
  BY <1>6, <1>9
<1>11. Shaped(u) /\ Fits(u)
  BY <1>4, <1>6, <1>9, <1>10 DEF Shaped, Fits
<1> DEFINE T == IF A = {} THEN {} ELSE {u}
<1>12. Do(t, T)
  BY <1>1, <1>8
<1>13. \A v \in T : Shaped(v) /\ Fits(v)
  BY <1>11
<1> HIDE DEF T
<1> QED
  BY <1>1, <1>12, <1>13, NothingTyped

(* A failure that is counted. *)
LEMMA FaultTyped ==
  ASSUME Typed, Fault
  PROVE  faults' \in 0 .. MaxFaults /\ overlaps' \in 0 .. MaxOverlaps /\ crowd' \in BOOLEAN
BY TypedParts, BoundsAssumption DEF OthersTyped, Fault

(* DisableOne leaves every variable with a value of its kind. *)
LEMMA DisableOneTyped ==
  ASSUME Typed, NEW t \in tasks, DisableOne(t) PROVE Typed'
<1>1. Shaped(t) /\ t \in Handlers /\ t.at = "disable"
  BY TaskTyped DEF DisableOne, At
<1>2. PICK a \in DOMAIN t.held :
        LET rest == [t EXCEPT !.held = [b \in DOMAIN t.held \ {a} |-> t.held[b]]] IN
        \/ /\ CanWrite(a, t.held[a])
           /\ Update(a, t.held[a])
           /\ Do(t, {[rest EXCEPT !.any = TRUE]})
           /\ UNCHANGED trouble
        \/ /\ IF CanWrite(a, t.held[a]) THEN Fault ELSE UNCHANGED trouble
           /\ Do(t, {rest})
           /\ UNCHANGED <<table, loaded>>
  BY DEF DisableOne
<1>3. PICK A \in SUBSET (0 .. MaxAddresses) : t.held \in [A -> Mails]
  BY <1>1 DEF Handlers, Helds
<1>4. A = DOMAIN t.held /\ 0 \notin A /\ \A b \in A : t.held[b].text \in Texts
  BY <1>1, <1>3 DEF Shaped
<1>5. a \in Slots
  BY <1>3, <1>4, BoundsAssumption DEF Slots
<1>6. t.held[a] \in EmailAddress
  BY <1>3, <1>4 DEF Mails, EmailAddress
<1>7. PICK h : h = [b \in DOMAIN t.held \ {a} |-> t.held[b]]
  OBVIOUS
<1>8. h \in [A \ {a} -> Mails] /\ \A b \in A \ {a} : h[b] = t.held[b]
  BY <1>3, <1>4, <1>7
<1>9. h \in Helds /\ DOMAIN h = A \ {a}
  BY <1>8 DEF Helds
<1>10. PICK rest : rest = [t EXCEPT !.held = h]
  OBVIOUS
<1>11. rest \in Handlers /\ rest.at = "disable" /\ rest.held = h
  BY <1>1, <1>9, <1>10 DEF Handlers
<1>12. PICK saved : saved = [rest EXCEPT !.any = TRUE]
  OBVIOUS
<1>13. saved \in Handlers /\ saved.at = "disable" /\ saved.held = h
  BY <1>11, <1>12 DEF Handlers
<1>14. Shaped(rest) /\ 0 \notin DOMAIN rest.held
  BY <1>4, <1>8, <1>9, <1>11 DEF Shaped
<1>15. Shaped(saved) /\ 0 \notin DOMAIN saved.held
  BY <1>4, <1>8, <1>9, <1>13 DEF Shaped
<1>16. CASE Update(a, t.held[a]) /\ Do(t, {saved}) /\ UNCHANGED trouble
  <2>1. TableTyped' /\ Len(order') = Len(order)
    BY <1>5, <1>6, <1>16, UpdateTyped
  <2>2. OthersTyped'
    BY <1>16, TypedParts DEF OthersTyped, DisableOne, ox, trouble
  <2>3. Len(order) <= Len(order')
    BY <2>1, TypedParts DEF TableTyped
  <2>4. Shaped(saved) /\ Fits(saved)'
    BY <1>15 DEF Fits
  <2> QED
    BY <1>16, <2>1, <2>2, <2>3, <2>4, NewTables
<1>17. CASE (Fault \/ UNCHANGED trouble) /\ Do(t, {rest}) /\ UNCHANGED <<table, loaded>>
  <2>u. UNCHANGED <<person, schools, offers, ox, keycloak, username>>
    BY DEF DisableOne
  <2>f. faults' \in 0 .. MaxFaults /\ overlaps' \in 0 .. MaxOverlaps /\ crowd' \in BOOLEAN
    BY <1>17, FaultTyped, TypedParts DEF OthersTyped, trouble
  <2>1. OthersTyped'
    BY <2>u, <2>f, TypedParts DEF OthersTyped, ox
  <2>2. Shaped(rest) /\ Fits(rest)
    BY <1>14 DEF Fits
  <2> QED
    BY <1>17, <2>1, <2>2, SameTables
<1> QED
  BY <1>2, <1>7, <1>10, <1>12, <1>16, <1>17

(* DisableDone leaves every variable with a value of its kind. *)
LEMMA DisableDoneTyped ==
  ASSUME Typed, NEW t \in tasks, DisableDone(t) PROVE Typed'
<1> DEFINE T == IF t.any THEN {Task(t.q, "disabledInOx"), Task(t.q, "disabledInKeycloak")} ELSE {}
<1>1. Do(t, T) /\ Nothing
  BY DEF DisableDone, Nothing
<1>2. t.q \in Sessions /\ 0 \in Texts /\ 0 \in OxIds \union {0}
  BY TaskTyped, BoundsAssumption DEF Texts
<1>3. "disabledInOx" \in Places /\ "disabledInKeycloak" \in Places
  BY DEF Places
<1>4. /\ Shaped(Task(t.q, "disabledInOx")) /\ Fits(Task(t.q, "disabledInOx"))
      /\ Shaped(Task(t.q, "disabledInKeycloak")) /\ Fits(Task(t.q, "disabledInKeycloak"))
  BY <1>2, <1>3, StartShaped
<1>5. \A u \in T : Shaped(u) /\ Fits(u)
  BY <1>4
<1> HIDE DEF T
<1> QED
  BY <1>1, <1>5, NothingTyped

(* HandleRenamed leaves every variable with a value of its kind. *)
LEMMA HandleRenamedTyped ==
  ASSUME Typed, NEW t \in tasks, HandleRenamed(t) PROVE Typed'
<1>1. Nothing
  BY DEF HandleRenamed, Nothing
<1>2. t.q \in Sessions /\ 0 \in Texts /\ 0 \in OxIds \union {0}
  BY TaskTyped, BoundsAssumption DEF Texts
<1>3. "renamedWith" \in Places /\ "renamedWithout" \in Places
  BY DEF Places
<1>4. CASE \E s \in schools : Do(t, {[Task(t.q, "renamedWith") EXCEPT !.school = {s}]})
  <2>1. PICK s \in schools : Do(t, {[Task(t.q, "renamedWith") EXCEPT !.school = {s}]})
    BY <1>4
  <2>2. {s} \in SUBSET Schools
    BY TypedParts DEF OthersTyped
  <2>3. PICK u : u = [Task(t.q, "renamedWith") EXCEPT !.school = {s}]
    OBVIOUS
  <2>4. Shaped(u) /\ Fits(u)
    BY <1>2, <1>3, <2>2, <2>3, StartShaped
  <2> QED
    BY <1>1, <2>1, <2>3, <2>4, NothingTyped
<1>5. CASE Do(t, {Task(t.q, "renamedWithout")})
  <2>1. Shaped(Task(t.q, "renamedWithout")) /\ Fits(Task(t.q, "renamedWithout"))
    BY <1>2, <1>3, StartShaped
  <2> QED
    BY <1>1, <1>5, <2>1, NothingTyped
<1> QED
  BY <1>4, <1>5 DEF HandleRenamed

(* A handler that goes on to make up an address. *)
LEMMA GeneratesShaped ==
  ASSUME Typed, NEW t \in tasks, t.held = <<>>, NEW for \in {"create", "change", "disabled"}
  PROVE  Shaped(Saves(t, "generate", for)) /\ Fits(Saves(t, "generate", for))
<1>1. PICK u : u = Saves(t, "generate", for)
  OBVIOUS
<1>2. "generate" \in Places /\ for \in Purposes
  BY DEF Places, Purposes
<1>3. u \in Handlers /\ u.held = <<>> /\ u.at = "generate" /\ u.for = for
  BY <1>1, <1>2, GoesShaped
<1>4. Shaped(u) /\ Fits(u)
  BY <1>3, HoldsNothing
<1> QED
  BY <1>1, <1>4

(* RenamedWith leaves every variable with a value of its kind. *)
LEMMA RenamedWithTyped ==
  ASSUME Typed, NEW t \in tasks, RenamedWith(t) PROVE Typed'
<1>1. Nothing
  BY DEF RenamedWith, Nothing
<1>2. CASE Do(t, {Saves(t, "generate", "create")})
  <2>1. t.held = <<>>
    BY TaskTyped DEF RenamedWith, At, Shaped
  <2> QED
    BY <1>1, <1>2, <2>1, GeneratesShaped, NothingTyped
<1>3. CASE \E a \in Enabled :
        Do(t, {Holding(Saves(t, "write", "rename"), a, [row[a] EXCEPT !.status = "DISABLED"])})
  <2>1. PICK a \in Enabled :
          Do(t, {Holding(Saves(t, "write", "rename"), a, [row[a] EXCEPT !.status = "DISABLED"])})
    BY <1>3
  <2>2. a \in Slots /\ row[a] \in EmailAddress
    BY TypedParts DEF TableTyped, NoRow, Enabled
  <2>3. PICK m : m = [row[a] EXCEPT !.status = "DISABLED"]
    OBVIOUS
  <2>4. m \in EmailAddress
    BY <2>2, <2>3 DEF EmailAddress, EmailAddressStatus
  <2>5. PICK u : u = Holding(Saves(t, "write", "rename"), a, m)
    OBVIOUS
  <2>6. "write" \in Places /\ "rename" \in Purposes
    BY DEF Places, Purposes
  <2>7. u \in Handlers /\ u.at = "write" /\ u.for = "rename" /\ DOMAIN u.held = {a} /\ u.held[a].text \in Texts
    BY <2>2, <2>4, <2>5, <2>6, RowHeld
  <2>8. Shaped(u) /\ Fits(u)
    BY <2>2, <2>7, HoldsRow
  <2> QED
    BY <1>1, <2>1, <2>3, <2>5, <2>8, NothingTyped
<1> QED
  BY <1>2, <1>3 DEF RenamedWith

(* RenamedWithout leaves every variable with a value of its kind. *)
LEMMA RenamedWithoutTyped ==
  ASSUME Typed, NEW t \in tasks, RenamedWithout(t) PROVE Typed'
<1>1. Nothing /\ (Do(t, {}) \/ Do(t, {Saves(t, "generate", "disabled")}))
  BY DEF RenamedWithout, Nothing
<1>2. t.held = <<>>
  BY TaskTyped DEF RenamedWithout, At, Shaped
<1> QED
  BY <1>1, <1>2, GeneratesShaped, NothingTyped

(* Confirm leaves every variable with a value of its kind. *)
LEMMA ConfirmTyped ==
  ASSUME Typed, NEW t \in tasks, Confirm(t) \/ ConfirmDisabled(t) PROVE Typed'
<1>1. Nothing
  BY DEF Confirm, ConfirmDisabled, Nothing
<1> DEFINE a == Newest({"REQUESTED"})
<1>2. a \in Slots \union {0} /\ (a # 0 => row[a] \in EmailAddress)
  BY NewestTyped DEF EmailAddressStatus
<1>3. /\ Do(t, {}) \/ a # 0
      /\ \/ Do(t, {})
         \/ Do(t, {Holding(Saves(t, "save", "confirm"), a, [status |-> "ENABLED", ox |-> t.ox, text |-> t.text])})
         \/ Do(t, {Holding(Saves(t, "write", "disable"), a, [row[a] EXCEPT !.status = "DISABLED", !.ox = t.ox])})
  BY DEF Confirm, ConfirmDisabled
<1> HIDE DEF a
<1>4. t.ox \in OxIds \union {0} /\ t.text \in Texts
  BY TaskTyped
<1>5. "save" \in Places /\ "write" \in Places /\ "confirm" \in Purposes /\ "disable" \in Purposes
  BY DEF Places, Purposes
<1>6. CASE Do(t, {})
  BY <1>1, <1>6, NothingTyped
<1>7. CASE /\ a # 0
           /\ Do(t, {Holding(Saves(t, "save", "confirm"), a, [status |-> "ENABLED", ox |-> t.ox, text |-> t.text])})
  <2>1. PICK m : m = [status |-> "ENABLED", ox |-> t.ox, text |-> t.text]
    OBVIOUS
  <2>2. a \in Slots /\ m \in EmailAddress
    BY <1>2, <1>4, <1>7, <2>1 DEF EmailAddress, EmailAddressStatus
  <2>3. PICK u : u = Holding(Saves(t, "save", "confirm"), a, m)
    OBVIOUS
  <2>4. u \in Handlers /\ u.at = "save" /\ u.for = "confirm" /\ DOMAIN u.held = {a} /\ u.held[a].text \in Texts
    BY <1>5, <2>2, <2>3, RowHeld
  <2>5. Shaped(u) /\ Fits(u)
    BY <2>2, <2>4, HoldsRow
  <2> QED
    BY <1>1, <1>7, <2>1, <2>3, <2>5, NothingTyped
<1>8. CASE /\ a # 0
           /\ Do(t, {Holding(Saves(t, "write", "disable"), a, [row[a] EXCEPT !.status = "DISABLED", !.ox = t.ox])})
  <2>1. PICK m : m = [row[a] EXCEPT !.status = "DISABLED", !.ox = t.ox]
    OBVIOUS
  <2>2. a \in Slots /\ m \in EmailAddress
    BY <1>2, <1>4, <1>8, <2>1 DEF EmailAddress, EmailAddressStatus
  <2>3. PICK u : u = Holding(Saves(t, "write", "disable"), a, m)
    OBVIOUS
  <2>4. u \in Handlers /\ u.at = "write" /\ u.for = "disable" /\ DOMAIN u.held = {a} /\ u.held[a].text \in Texts
    BY <1>5, <2>2, <2>3, RowHeld
  <2>5. Shaped(u) /\ Fits(u)
    BY <2>2, <2>4, HoldsRow
  <2> QED
    BY <1>1, <1>8, <2>1, <2>3, <2>5, NothingTyped
<1> QED
  BY <1>3, <1>6, <1>7, <1>8

(* Deactivate leaves every variable with a value of its kind. *)
LEMMA DeactivateTyped ==
  ASSUME Typed, NEW t \in tasks, Deactivate(t) PROVE Typed'
<1>1. /\ Do(t, {}) /\ UNCHANGED <<order, loaded>>
      /\ row' = [a \in Slots |-> IF row[a] # NoRow /\ row[a].text = t.text
                                 THEN [row[a] EXCEPT !.status = "DISABLED"] ELSE row[a]]
  BY DEF Deactivate, copy
<1>2. OthersTyped'
  BY TypedParts DEF OthersTyped, Deactivate, ox, copy, trouble
<1>3. row \in [Slots -> EmailAddress \union {NoRow}]
  BY TypedParts DEF TableTyped
<1>4. ASSUME NEW a \in Slots
      PROVE  (IF row[a] # NoRow /\ row[a].text = t.text THEN [row[a] EXCEPT !.status = "DISABLED"] ELSE row[a])
               \in EmailAddress \union {NoRow}
  BY <1>3 DEF EmailAddress, EmailAddressStatus
<1>5. row' \in [Slots -> EmailAddress \union {NoRow}]
  BY <1>1, <1>4
<1>6. TableTyped' /\ Len(order) <= Len(order')
  BY <1>1, <1>5, TypedParts DEF TableTyped
<1> QED
  BY <1>1, <1>2, <1>6, NewTables

(* A step that calls OX or Keycloak. *)
LEMMA CallTyped ==
  ASSUME Typed, NEW t, NEW T, Do(t, T), \A u \in T : Shaped(u) /\ Fits(u),
         UNCHANGED <<table, person, schools, offers, copy>>, Fault \/ UNCHANGED trouble,
         UNCHANGED oxUser \/ \E u \in OxIds, w \in [name : Names \union {0}, primary : Texts] :
                               oxUser' = [oxUser EXCEPT ![u] = w],
         UNCHANGED member \/ \E s \in Schools, U \in SUBSET OxIds : member' = [member EXCEPT ![s] = U],
         keycloak' \in {"unset", "set", "gone"}
  PROVE  Typed'
<1>1. OthersTyped
  BY TypedParts
<1>2. oxUser' \in [OxIds -> [name : Names \union {0}, primary : Texts]]
  BY <1>1 DEF OthersTyped
<1>3. member' \in [Schools -> SUBSET OxIds]
  BY <1>1 DEF OthersTyped
<1>4. faults' \in 0 .. MaxFaults /\ overlaps' \in 0 .. MaxOverlaps /\ crowd' \in BOOLEAN
  BY <1>1, FaultTyped DEF OthersTyped, trouble
<1>5. UNCHANGED <<person, schools, offers, username>> /\ UNCHANGED <<table, loaded>>
  BY DEF copy
<1>6. OthersTyped'
  BY <1>1, <1>2, <1>3, <1>4, <1>5 DEF OthersTyped
<1> QED
  BY <1>5, <1>6, SameTables

(* Reads of OxEventHandler. *)
LEMMA CreateReadTyped ==
  ASSUME Typed, NEW t \in tasks, CreateRead(t) PROVE Typed'
<1> DEFINE a == Newest({"REQUESTED"})
<1>1. Nothing /\ Do(t, IF a = 0 THEN {} ELSE {Holding(Goes(t, "exists"), a, row[a])})
  BY DEF CreateRead, Nothing
<1>2. a \in Slots \union {0} /\ (a # 0 => row[a] \in EmailAddress)
  BY NewestTyped DEF EmailAddressStatus
<1> HIDE DEF a
<1>3. CASE a = 0
  BY <1>1, <1>3, NothingTyped
<1>4. CASE a # 0
  <2>1. PICK u : u = Holding(Goes(t, "exists"), a, row[a])
    OBVIOUS
  <2>2. "exists" \in Places /\ "none" \in Purposes
    BY DEF Places, Purposes
  <2>3. u \in Handlers /\ u.at = "exists" /\ DOMAIN u.held = {a} /\ u.held[a].text \in Texts
    BY <1>2, <1>4, <2>1, <2>2, RowHeld
  <2>4. Shaped(u) /\ Fits(u)
    BY <1>2, <1>4, <2>3, HoldsRow
  <2> QED
    BY <1>1, <1>4, <2>1, <2>4, NothingTyped
<1> QED
  BY <1>3, <1>4

(* A handler that goes on with the row it holds. *)
LEMMA KeepsRow ==
  ASSUME Typed, NEW t \in tasks, t.at \in {"exists", "oxCreate", "oxChange"}
  PROVE  /\ HoldsOne(t) /\ Held(t) \in Slots /\ DOMAIN t.held = {Held(t)}
         /\ t.held[Held(t)] \in EmailAddress
<1>1. Shaped(t)
  BY TaskTyped
<1>2. HoldsOne(t) /\ 0 \notin DOMAIN t.held
  BY <1>1 DEF Shaped
<1>3. /\ Held(t) \in 0 .. MaxAddresses /\ DOMAIN t.held = {Held(t)}
      /\ Held(t) # 0 => t.held[Held(t)] \in EmailAddress
  BY <1>2, HeldTyped
<1> QED
  BY <1>2, <1>3, BoundsAssumption DEF Slots

(* CreateExists leaves every variable with a value of its kind. *)
LEMMA CreateExistsTyped ==
  ASSUME Typed, NEW t \in tasks, CreateExists(t) PROVE Typed'
<1>1. Nothing /\ (Do(t, {}) \/ Do(t, {Goes(t, "oxCreate")}))
  BY DEF CreateExists, Nothing
<1>2. PICK u : u = Goes(t, "oxCreate")
  OBVIOUS
<1>3. "oxCreate" \in Places /\ "none" \in Purposes
  BY DEF Places, Purposes
<1>4. u \in Handlers /\ u.at = "oxCreate" /\ u.held = t.held
  BY <1>2, <1>3, GoesShaped
<1>5. Held(t) \in Slots /\ DOMAIN t.held = {Held(t)} /\ t.held[Held(t)] \in EmailAddress
  BY KeepsRow DEF CreateExists, At
<1>6. t.held[Held(t)].text \in Texts
  BY <1>5 DEF EmailAddress
<1>7. Shaped(u) /\ Fits(u)
  BY <1>4, <1>5, <1>6, HoldsRow
<1> QED
  BY <1>1, <1>2, <1>7, NothingTyped

(* CreateUser leaves every variable with a value of its kind. *)
LEMMA CreateUserTyped ==
  ASSUME Typed, NEW t \in tasks, CreateUser(t) PROVE Typed'
<1> DEFINE a    == Held(t)
           m    == t.held[a]
           Free == {u \in OxIds : oxUser[u] = NoUser}
           x    == CHOOSE u \in Free : \A v \in Free : u <= v
<1>1. HoldsOne(t) /\ a \in Slots /\ DOMAIN t.held = {a} /\ m \in EmailAddress
  BY KeepsRow DEF CreateUser, At
<1>2. t \in Handlers /\ username[t.q] \in Names \union {0}
  BY TaskTyped, TypedParts DEF OthersTyped
<1>3. UNCHANGED <<table, person, schools, offers, copy>> /\ UNCHANGED member /\ UNCHANGED keycloak
  BY DEF CreateUser
<1>4. keycloak' \in {"unset", "set", "gone"}
  BY <1>3, TypedParts DEF OthersTyped
<1>5. CASE /\ Free # {}
           /\ oxUser' = [oxUser EXCEPT ![x] = [name |-> username[t.q], primary |-> m.text]]
           /\ Do(t, {[Holding(Saves(t, "save", "oxid"), a, [m EXCEPT !.ox = x])
                        EXCEPT !.ox = x, !.text = m.text]})
           /\ UNCHANGED trouble
  <2>1. Free \in SUBSET Nat
    BY DEF OxIds
  <2>2. x \in OxIds
    BY <1>5, <2>1, Least
  <2> HIDE DEF x, Free, m, a
  <2>3. PICK w : w = [name |-> username[t.q], primary |-> m.text]
    OBVIOUS
  <2>4. w \in [name : Names \union {0}, primary : Texts] /\ m.text \in Texts
    BY <1>1, <1>2, <2>3 DEF EmailAddress
  <2>5. PICK n : n = [m EXCEPT !.ox = x]
    OBVIOUS
  <2>6. n \in EmailAddress
    BY <1>1, <2>2, <2>5 DEF EmailAddress
  <2>7. PICK v : v = Holding(Saves(t, "save", "oxid"), a, n)
    OBVIOUS
  <2>8. "save" \in Places /\ "oxid" \in Purposes
    BY DEF Places, Purposes
  <2>9. v \in Handlers /\ v.at = "save" /\ v.for = "oxid" /\ DOMAIN v.held = {a} /\ v.held[a].text \in Texts
    BY <1>1, <2>6, <2>7, <2>8, RowHeld
  <2>10. PICK u : u = [v EXCEPT !.ox = x, !.text = m.text]
    OBVIOUS
  <2>11. u \in Handlers /\ u.at = "save" /\ u.for = "oxid" /\ u.held = v.held /\ u.ox = x
    BY <2>2, <2>4, <2>9, <2>10 DEF Handlers
  <2>12. a # 0 /\ a \in 0 .. MaxAddresses
    BY <1>1, BoundsAssumption DEF Slots
  <2>13. Shaped(u) /\ Fits(u)
    BY <2>2, <2>9, <2>11, <2>12 DEF Shaped, Fits, HoldsOne
  <2>14. Do(t, {u}) /\ oxUser' = [oxUser EXCEPT ![x] = w]
    BY <1>5, <2>3, <2>5, <2>7, <2>10
  <2> QED
    <3>1. \E y \in OxIds, z \in [name : Names \union {0}, primary : Texts] : oxUser' = [oxUser EXCEPT ![y] = z]
      BY <2>2, <2>4, <2>14
    <3>2. \A y \in {u} : Shaped(y) /\ Fits(y)
      BY <2>13
    <3>3. Do(t, {u}) /\ (Fault \/ UNCHANGED trouble)
      BY <1>5, <2>14
    <3> QED
      BY <1>3, <1>4, <3>1, <3>2, <3>3, CallTyped
<1>6. CASE /\ UNCHANGED trouble \/ Fault
           /\ Do(t, Failed(t))
           /\ UNCHANGED oxUser
  <2>1. 0 \notin DOMAIN t.held
    BY <1>1, BoundsAssumption DEF Slots
  <2>2. \A u \in Failed(t) : Shaped(u) /\ Fits(u)
    BY <1>1, <2>1, FailedShaped DEF Failed
  <2> QED
    BY <1>3, <1>4, <1>6, <2>2, CallTyped
<1> QED
  BY <1>5, <1>6 DEF CreateUser

(* AlreadyExists leaves every variable with a value of its kind. *)
LEMMA AlreadyExistsTyped ==
  ASSUME Typed, NEW t \in tasks, AlreadyExists(t) PROVE Typed'
<1> DEFINE x == OxUserId(t.q)
           text == EmailOf(loaded[t.q])
<1>1. /\ Nothing
      /\ Do(t, {}) \/ (x # 0 /\ Do(t, {[Goes(t, "join") EXCEPT !.ox = x, !.text = text]}))
  BY DEF AlreadyExists, Nothing
<1>2. t \in Handlers /\ t.q \in Sessions /\ t.held = <<>>
  BY TaskTyped DEF AlreadyExists, At, Shaped
<1>3. x \in OxIds \union {0} /\ text \in Texts
  BY <1>2, OxUserIdTyped, EmailOfTyped, TypedParts DEF TableTyped
<1> HIDE DEF x, text
<1>4. CASE Do(t, {})
  BY <1>1, <1>4, NothingTyped
<1>5. CASE x # 0 /\ Do(t, {[Goes(t, "join") EXCEPT !.ox = x, !.text = text]})
  <2>1. PICK u : u = [Goes(t, "join") EXCEPT !.ox = x, !.text = text]
    OBVIOUS
  <2>2. u \in Handlers /\ u.held = <<>> /\ u.at = "join" /\ u.ox = x
    BY <1>2, <1>3, <2>1 DEF Goes, Handlers, Places
  <2>3. Shaped(u) /\ Fits(u)
    BY <1>3, <1>5, <2>2, HoldsNothing
  <2> QED
    BY <1>1, <1>5, <2>1, <2>3, NothingTyped
<1> QED
  BY <1>1, <1>4, <1>5

(* Join leaves every variable with a value of its kind. *)
LEMMA JoinTyped ==
  ASSUME Typed, NEW t \in tasks, Join(t) PROVE Typed'
<1> DEFINE fails == IF t.held = <<>> THEN {} ELSE Failed(t)
<1>1. Shaped(t) /\ t \in Handlers /\ t.q \in Sessions /\ t.ox \in OxIds /\ t.text \in Texts
      /\ t.school \in SUBSET Schools
  BY TaskTyped DEF Join, At, Shaped
<1>2. t.held = <<>> \/ (HoldsOne(t) /\ 0 \notin DOMAIN t.held)
  BY <1>1 DEF Join, At, Shaped
<1>3. UNCHANGED <<table, person, schools, offers, copy>> /\ UNCHANGED oxUser /\ UNCHANGED keycloak
  BY DEF Join
<1>4. keycloak' \in {"unset", "set", "gone"}
  BY <1>3, TypedParts DEF OthersTyped
<1>5. \A u \in fails : Shaped(u) /\ Fits(u)
  BY <1>2, FailedShaped DEF Failed
<1>6. PICK s \in t.school :
       \/ /\ member' = [member EXCEPT ![s] = @ \union {t.ox}]
          /\ Do(t, {[Saves(Task(t.q, "keycloakSet"), "keycloakSet", "confirm")
                       EXCEPT !.ox = t.ox, !.text = t.text]})
          /\ UNCHANGED trouble
       \/ /\ IF t.ox \in member[s] THEN UNCHANGED trouble ELSE Fault
          /\ Do(t, fails)
          /\ UNCHANGED member
  BY DEF Join
<1> HIDE DEF fails
<1>7. CASE /\ member' = [member EXCEPT ![s] = @ \union {t.ox}]
           /\ Do(t, {[Saves(Task(t.q, "keycloakSet"), "keycloakSet", "confirm")
                        EXCEPT !.ox = t.ox, !.text = t.text]})
           /\ UNCHANGED trouble
  <2>1. PICK v : v = Task(t.q, "keycloakSet")
    OBVIOUS
  <2>2. "keycloakSet" \in Places /\ "confirm" \in Purposes
    BY DEF Places, Purposes
  <2>3. v \in Handlers /\ v.held = <<>>
    BY <1>1, <2>1, <2>2, TaskShaped
  <2>4. PICK u : u = [Saves(v, "keycloakSet", "confirm") EXCEPT !.ox = t.ox, !.text = t.text]
    OBVIOUS
  <2>5. u \in Handlers /\ u.held = <<>> /\ u.at = "keycloakSet"
    BY <1>1, <2>2, <2>3, <2>4 DEF Saves, Handlers
  <2>6. Shaped(u) /\ Fits(u)
    BY <2>5, HoldsNothing
  <2>7. s \in Schools /\ member[s] \union {t.ox} \in SUBSET OxIds
    BY <1>1, TypedParts DEF OthersTyped
  <2> QED
    BY <1>3, <1>4, <1>7, <2>1, <2>4, <2>6, <2>7, CallTyped
<1>8. CASE (Fault \/ UNCHANGED trouble) /\ Do(t, fails) /\ UNCHANGED member
  BY <1>3, <1>4, <1>5, <1>8, CallTyped
<1> QED
  BY <1>6, <1>7, <1>8

(* ChangeRead leaves every variable with a value of its kind. *)
LEMMA ChangeReadTyped ==
  ASSUME Typed, NEW t \in tasks, ChangeRead(t) PROVE Typed'
<1> DEFINE a == Newest({"REQUESTED"})
           x == OxUserId(t.q)
<1>1. /\ Nothing
      /\ \/ Do(t, {})
         \/ /\ x # 0 /\ a # 0
            /\ Do(t, {[Holding(Goes(t, "oxChange"), a, row[a]) EXCEPT !.ox = x, !.text = row[a].text]})
  BY DEF ChangeRead, Nothing
<1>2. a \in Slots \union {0} /\ (a # 0 => row[a] \in EmailAddress)
  BY NewestTyped DEF EmailAddressStatus
<1>3. x \in OxIds \union {0}
  BY TaskTyped, OxUserIdTyped
<1> HIDE DEF a, x
<1>4. CASE Do(t, {})
  BY <1>1, <1>4, NothingTyped
<1>5. CASE /\ x # 0 /\ a # 0
           /\ Do(t, {[Holding(Goes(t, "oxChange"), a, row[a]) EXCEPT !.ox = x, !.text = row[a].text]})
  <2>1. PICK v : v = Holding(Goes(t, "oxChange"), a, row[a])
    OBVIOUS
  <2>2. "oxChange" \in Places /\ "none" \in Purposes
    BY DEF Places, Purposes
  <2>3. v \in Handlers /\ v.at = "oxChange" /\ DOMAIN v.held = {a} /\ v.held[a] = row[a] /\ v.held[a].text \in Texts
    BY <1>2, <1>5, <2>1, <2>2, RowHeld
  <2>4. PICK u : u = [v EXCEPT !.ox = x, !.text = row[a].text]
    OBVIOUS
  <2>5. u \in Handlers /\ u.at = "oxChange" /\ u.held = v.held
    BY <1>3, <2>3, <2>4 DEF Handlers
  <2>6. Shaped(u) /\ Fits(u)
    BY <1>2, <1>5, <2>3, <2>5, HoldsRow
  <2> QED
    BY <1>1, <1>5, <2>1, <2>4, <2>6, NothingTyped
<1> QED
  BY <1>1, <1>4, <1>5

(* ChangeUser leaves every variable with a value of its kind. *)
LEMMA ChangeUserTyped ==
  ASSUME Typed, NEW t \in tasks, ChangeUser(t) PROVE Typed'
<1> DEFINE step == IF t.for = "confirm" THEN "keycloakSet" ELSE "confirmDisabled"
<1>1. t \in Handlers /\ t.q \in Sessions /\ t.text \in Texts /\ t.ox \in OxIds \union {0} /\ t.for \in Purposes
  BY TaskTyped
<1>2. UNCHANGED <<table, person, schools, offers, copy>> /\ UNCHANGED member /\ UNCHANGED keycloak
  BY DEF ChangeUser
<1>3. keycloak' \in {"unset", "set", "gone"}
  BY <1>2, TypedParts DEF OthersTyped
<1>4. step \in {"keycloakSet", "confirmDisabled"} /\ step \in Places
  BY DEF Places
<1>5. CASE /\ oxUser' = [oxUser EXCEPT ![t.ox] = [name |-> username[t.q], primary |-> t.text]]
           /\ Do(t, {[Saves(Task(t.q, step), step, t.for) EXCEPT !.ox = t.ox, !.text = t.text]})
           /\ UNCHANGED trouble
  <2> HIDE DEF step
  <2>1. PICK v : v = Task(t.q, step)
    OBVIOUS
  <2>2. v \in Handlers /\ v.held = <<>>
    BY <1>1, <1>4, <2>1, TaskShaped
  <2>3. PICK u : u = [Saves(v, step, t.for) EXCEPT !.ox = t.ox, !.text = t.text]
    OBVIOUS
  <2>4. u \in Handlers /\ u.held = <<>> /\ u.at = step
    BY <1>1, <1>4, <2>2, <2>3 DEF Saves, Handlers
  <2>5. Shaped(u) /\ Fits(u)
    BY <1>4, <2>4, HoldsNothing
  <2>6. PICK w : w = [name |-> username[t.q], primary |-> t.text]
    OBVIOUS
  <2>7. w \in [name : Names \union {0}, primary : Texts]
    BY <1>1, <2>6, TypedParts DEF OthersTyped
  <2>8. oxUser' = [oxUser EXCEPT ![t.ox] = w]
    BY <1>5, <2>6
  <2>9. t.ox \in OxIds \/ UNCHANGED oxUser
    <3>1. t.ox \in OxIds \/ t.ox \notin DOMAIN oxUser
      BY TypedParts DEF OthersTyped
    <3> QED
      BY <2>8, <3>1, TypedParts DEF OthersTyped
  <2>10. Do(t, {u})
    BY <1>5, <2>1, <2>3
  <2> QED
    <3>1. UNCHANGED oxUser \/ \E y \in OxIds, z \in [name : Names \union {0}, primary : Texts] :
                                oxUser' = [oxUser EXCEPT ![y] = z]
      BY <2>7, <2>8, <2>9
    <3>2. \A y \in {u} : Shaped(y) /\ Fits(y)
      BY <2>5
    <3>3. Fault \/ UNCHANGED trouble
      BY <1>5
    <3> QED
      BY <1>2, <1>3, <2>10, <3>1, <3>2, <3>3, CallTyped
<1>6. CASE Fault /\ Do(t, Failed(t)) /\ UNCHANGED oxUser
  <2>1. HoldsOne(t) /\ Held(t) \in Slots /\ DOMAIN t.held = {Held(t)}
    BY KeepsRow DEF ChangeUser, At
  <2>2. 0 \notin DOMAIN t.held
    BY <2>1, BoundsAssumption DEF Slots
  <2>3. \A u \in Failed(t) : Shaped(u) /\ Fits(u)
    BY <2>1, <2>2, FailedShaped DEF Failed
  <2> QED
    BY <1>2, <1>3, <1>6, <2>3, CallTyped
<1> QED
  BY <1>5, <1>6 DEF ChangeUser

(* LeaveRead leaves every variable with a value of its kind. *)
LEMMA LeaveReadTyped ==
  ASSUME Typed, NEW t \in tasks, LeaveRead(t) \/ DisabledInOx(t) PROVE Typed'
<1> DEFINE x == OxUserId(t.q)
<1>1. /\ Nothing /\ t.at \in {"leaveRead", "disabledInOx"}
      /\ \/ Do(t, {})
         \/ Do(t, {[Goes(t, "leave") EXCEPT !.ox = x, !.todo = t.school]})
         \/ Do(t, {[Goes(t, "list") EXCEPT !.ox = x]})
  BY DEF LeaveRead, DisabledInOx, At, Nothing
<1>2. t \in Handlers /\ t.held = <<>> /\ x \in OxIds \union {0} /\ t.school \in SUBSET Schools
  BY <1>1, TaskTyped, OxUserIdTyped DEF Shaped
<1> HIDE DEF x
<1>3. PICK u : u = [Goes(t, "leave") EXCEPT !.ox = x, !.todo = t.school]
  OBVIOUS
<1>4. u \in Handlers /\ u.held = <<>> /\ u.at = "leave"
  BY <1>2, <1>3 DEF Goes, Handlers, Places
<1>5. PICK v : v = [Goes(t, "list") EXCEPT !.ox = x]
  OBVIOUS
<1>6. v \in Handlers /\ v.held = <<>> /\ v.at = "list"
  BY <1>2, <1>5 DEF Goes, Handlers, Places
<1>7. Shaped(u) /\ Fits(u) /\ Shaped(v) /\ Fits(v)
  BY <1>4, <1>6, HoldsNothing
<1>8. Do(t, {}) \/ Do(t, {u}) \/ Do(t, {v})
  BY <1>1, <1>3, <1>5
<1> QED
  BY <1>1, <1>7, <1>8, NothingTyped

(* DeletedInOx leaves every variable with a value of its kind. *)
LEMMA DeletedInOxTyped ==
  ASSUME Typed, NEW t \in tasks, DeletedInOx(t) PROVE Typed'
<1> DEFINE A == {a \in Slots : row[a] # NoRow /\ row[a].text = t.text /\ row[a].ox # 0}
           T == {[Saves(t, "list", "deleted") EXCEPT !.ox = row[a].ox] : a \in A}
<1>1. Do(t, T) /\ Nothing /\ t.at = "deleted"
  BY DEF DeletedInOx, At, Nothing
<1>2. t \in Handlers /\ t.held = <<>>
  BY <1>1, TaskTyped DEF Shaped
<1>3. "list" \in Places /\ "deleted" \in Purposes
  BY DEF Places, Purposes
<1>4. ASSUME NEW a \in A, NEW u, u = [Saves(t, "list", "deleted") EXCEPT !.ox = row[a].ox]
      PROVE  Shaped(u) /\ Fits(u)
  <2>1. row[a].ox \in OxIds \union {0}
    BY TypedParts DEF TableTyped, EmailAddress
  <2>2. u \in Handlers /\ u.held = <<>> /\ u.at = "list"
    BY <1>2, <1>3, <1>4, <2>1 DEF Saves, Handlers
  <2> QED
    BY <2>2, HoldsNothing
<1>5. \A u \in T : Shaped(u) /\ Fits(u)
  BY <1>4
<1> HIDE DEF T
<1> QED
  BY <1>1, <1>5, NothingTyped

(* The steps that take a user out of its groups. *)
LEMMA AfterGroupsShaped ==
  ASSUME Typed, NEW t \in tasks, t.held = <<>>
  PROVE  \A u \in AfterGroups(t) : Shaped(u) /\ Fits(u)
<1>1. PICK u : u = Goes(t, "retire")
  OBVIOUS
<1>2. "retire" \in Places /\ "none" \in Purposes
  BY DEF Places, Purposes
<1>3. u \in Handlers /\ u.held = <<>> /\ u.at = "retire"
  BY <1>1, <1>2, GoesShaped
<1>4. Shaped(u) /\ Fits(u)
  BY <1>3, HoldsNothing
<1> QED
  BY <1>1, <1>4 DEF AfterGroups

(* ListGroups leaves every variable with a value of its kind. *)
LEMMA ListGroupsTyped ==
  ASSUME Typed, NEW t \in tasks, ListGroups(t) PROVE Typed'
<1> DEFINE S == {s \in Schools : t.ox \in member[s]}
<1>1. /\ UNCHANGED <<table, person, schools, offers, copy>> /\ UNCHANGED <<oxUser, member, keycloak>>
      /\ t.at = "list"
  BY DEF ListGroups, At, ox
<1>2. \/ Do(t, {[Goes(t, "leave") EXCEPT !.todo = S]}) /\ UNCHANGED trouble
      \/ Fault /\ Do(t, AfterGroups(t))
  BY DEF ListGroups
<1>3. S \in SUBSET Schools
  OBVIOUS
<1> HIDE DEF S
<1>4. t \in Handlers /\ t.held = <<>>
  BY <1>1, TaskTyped DEF Shaped
<1>5. PICK u : u = [Goes(t, "leave") EXCEPT !.todo = S]
  OBVIOUS
<1>6. u \in Handlers /\ u.held = <<>> /\ u.at = "leave"
  BY <1>3, <1>4, <1>5 DEF Goes, Handlers, Places
<1>7. \A v \in {u} : Shaped(v) /\ Fits(v)
  BY <1>6, HoldsNothing
<1>8. \A v \in AfterGroups(t) : Shaped(v) /\ Fits(v)
  BY <1>4, AfterGroupsShaped
<1>9. keycloak' \in {"unset", "set", "gone"}
  BY <1>1, TypedParts DEF OthersTyped
<1>10. (Do(t, {u}) /\ UNCHANGED trouble) \/ (Do(t, AfterGroups(t)) /\ Fault)
  BY <1>2, <1>5
<1> QED
  BY <1>1, <1>7, <1>8, <1>9, <1>10, CallTyped

(* Leave leaves every variable with a value of its kind. *)
LEMMA LeaveTyped ==
  ASSUME Typed, NEW t \in tasks, Leave(t) PROVE Typed'
<1>1. UNCHANGED <<table, person, schools, offers, copy>> /\ UNCHANGED <<oxUser, keycloak>> /\ t.at = "leave"
  BY DEF Leave, At
<1>2. PICK s \in t.todo :
        /\ Do(t, {[t EXCEPT !.todo = @ \ {s}]})
        /\ \/ member' = [member EXCEPT ![s] = @ \ {t.ox}] /\ UNCHANGED trouble
           \/ Fault /\ UNCHANGED member
  BY DEF Leave
<1>3. t \in Handlers /\ t.held = <<>> /\ s \in Schools
  BY <1>1, TaskTyped DEF Shaped
<1>4. PICK u : u = [t EXCEPT !.todo = @ \ {s}]
  OBVIOUS
<1>5. u \in Handlers /\ u.held = <<>> /\ u.at = "leave"
  BY <1>1, <1>3, <1>4 DEF Handlers
<1>6. \A v \in {u} : Shaped(v) /\ Fits(v)
  BY <1>5, HoldsNothing
<1>7. member[s] \ {t.ox} \in SUBSET OxIds
  BY <1>3, TypedParts DEF OthersTyped
<1>8. UNCHANGED member \/ \E y \in Schools, U \in SUBSET OxIds : member' = [member EXCEPT ![y] = U]
  BY <1>2, <1>3, <1>7
<1>9. keycloak' \in {"unset", "set", "gone"} /\ (Fault \/ UNCHANGED trouble)
  BY <1>1, <1>2, TypedParts DEF OthersTyped
<1>10. Do(t, {u})
  BY <1>2, <1>4
<1> QED
  BY <1>1, <1>6, <1>8, <1>9, <1>10, CallTyped

(* LeaveDone leaves every variable with a value of its kind. *)
LEMMA LeaveDoneTyped ==
  ASSUME Typed, NEW t \in tasks, LeaveDone(t) PROVE Typed'
<1>1. Nothing /\ Do(t, AfterGroups(t)) /\ t.at = "leave"
  BY DEF LeaveDone, At, Nothing
<1>2. t.held = <<>>
  BY <1>1, TaskTyped DEF Shaped
<1> QED
  BY <1>1, <1>2, AfterGroupsShaped, NothingTyped

(* Retire leaves every variable with a value of its kind. *)
LEMMA RetireTyped ==
  ASSUME Typed, NEW t \in tasks, Retire(t) PROVE Typed'
<1>1. /\ UNCHANGED <<table, person, schools, offers, copy>> /\ UNCHANGED <<member, keycloak>> /\ Do(t, {})
      /\ (oxUser' = [oxUser EXCEPT ![t.ox].name = 0] /\ UNCHANGED trouble) \/ (Fault /\ UNCHANGED oxUser)
  BY DEF Retire
<1>2. oxUser \in [OxIds -> [name : Names \union {0}, primary : Texts]]
  BY TypedParts DEF OthersTyped
<1>3. UNCHANGED oxUser \/ \E u \in OxIds, w \in [name : Names \union {0}, primary : Texts] :
                            oxUser' = [oxUser EXCEPT ![u] = w]
  <2>1. CASE oxUser' = [oxUser EXCEPT ![t.ox].name = 0]
    <3>1. CASE t.ox \in OxIds
      <4>1. PICK w : w = [oxUser[t.ox] EXCEPT !.name = 0]
        OBVIOUS
      <4>2. w \in [name : Names \union {0}, primary : Texts]
        BY <1>2, <3>1, <4>1
      <4>3. oxUser' = [oxUser EXCEPT ![t.ox] = w]
        BY <2>1, <4>1
      <4> QED
        BY <3>1, <4>2, <4>3
    <3>2. CASE t.ox \notin OxIds
      BY <1>2, <2>1, <3>2
    <3> QED
      BY <3>1, <3>2
  <2> QED
    BY <1>1, <2>1
<1>4. keycloak' \in {"unset", "set", "gone"}
  BY <1>1, TypedParts DEF OthersTyped
<1> QED
  BY <1>1, <1>3, <1>4, CallTyped

(* KeycloakSet leaves every variable with a value of its kind. *)
LEMMA KeycloakSetTyped ==
  ASSUME Typed, NEW t \in tasks, KeycloakSet(t) PROVE Typed'
<1>1. UNCHANGED <<table, person, schools, offers, copy>> /\ UNCHANGED <<oxUser, member>>
  BY DEF KeycloakSet, ox
<1>2. \/ /\ keycloak' = "set" /\ UNCHANGED trouble
         /\ Do(t, {[Task(t.q, "confirm") EXCEPT !.ox = t.ox, !.text = t.text]})
      \/ Do(t, {}) /\ UNCHANGED keycloak /\ (Fault \/ UNCHANGED trouble)
  BY DEF KeycloakSet
<1>3. t.q \in Sessions /\ t.ox \in OxIds \union {0} /\ t.text \in Texts /\ "confirm" \in Places
  BY TaskTyped DEF Places
<1>4. PICK u : u = [Task(t.q, "confirm") EXCEPT !.ox = t.ox, !.text = t.text]
  OBVIOUS
<1>5. \A v \in {u} : Shaped(v) /\ Fits(v)
  <2>1. PICK w : w = Task(t.q, "confirm")
    OBVIOUS
  <2>2. w \in Handlers /\ w.held = <<>> /\ w.at = "confirm"
    BY <1>3, <2>1, TaskShaped
  <2>3. u \in Handlers /\ u.held = <<>> /\ u.at = "confirm"
    BY <1>3, <1>4, <2>1, <2>2 DEF Handlers
  <2> QED
    BY <2>3, HoldsNothing
<1>6. keycloak' \in {"unset", "set", "gone"}
  BY <1>2, TypedParts DEF OthersTyped
<1>7. (Do(t, {u}) \/ Do(t, {})) /\ (Fault \/ UNCHANGED trouble)
  BY <1>2, <1>4
<1> QED
  BY <1>1, <1>5, <1>6, <1>7, CallTyped

(* KeycloakUnset leaves every variable with a value of its kind. *)
LEMMA KeycloakUnsetTyped ==
  ASSUME Typed, NEW t \in tasks, KeycloakUnset(t) PROVE Typed'
<1>1. /\ UNCHANGED <<table, person, schools, offers, copy>> /\ UNCHANGED <<oxUser, member>> /\ Do(t, {})
      /\ Fault \/ UNCHANGED trouble
      /\ keycloak' = "unset" \/ UNCHANGED keycloak
  BY DEF KeycloakUnset, ox
<1>2. keycloak' \in {"unset", "set", "gone"}
  BY <1>1, TypedParts DEF OthersTyped
<1> QED
  BY <1>1, <1>2, CallTyped

(* DeleteRow leaves every variable with a value of its kind. *)
LEMMA DeleteRowTyped ==
  ASSUME Typed, NEW t \in tasks, DeleteRow(t) PROVE Typed'
<1>1. /\ Do(t, {}) /\ UNCHANGED <<table, loaded>> /\ UNCHANGED <<offers, ox, keycloak, username, trouble>>
      /\ person' = [person EXCEPT !.exists = FALSE] /\ schools' = {}
  BY DEF DeleteRow, copy
<1>2. OthersTyped
  BY TypedParts
<1>3. person' \in [exists : BOOLEAN, name : Names]
  BY <1>1, <1>2 DEF OthersTyped
<1>4. OthersTyped'
  BY <1>1, <1>2, <1>3 DEF OthersTyped, ox, trouble
<1> QED
  BY <1>1, <1>4, SameTables

(* Throws leaves every variable with a value of its kind. *)
LEMMA ThrowsTyped ==
  ASSUME Typed, NEW t \in tasks, Throws(t) PROVE Typed'
<1>1. /\ Do(t, {}) /\ Fault
      /\ UNCHANGED <<table, person, schools, offers, copy>> /\ UNCHANGED <<oxUser, member, keycloak>>
  BY DEF Throws, ox
<1>2. keycloak' \in {"unset", "set", "gone"}
  BY <1>1, TypedParts DEF OthersTyped
<1> QED
  BY <1>1, <1>2, CallTyped

(* Restart leaves every variable with a value of its kind. *)
LEMMA RestartTyped ==
  ASSUME Typed, Restart PROVE Typed'
<1>1. /\ tasks' = {} /\ Fault
      /\ UNCHANGED <<row, order, person, schools, offers, oxUser, member, keycloak, loaded, username>>
  BY DEF Restart, table, ox, copy
<1>2. TableTyped' /\ OthersTyped'
  BY <1>1, TypedParts, FaultTyped DEF TableTyped, OthersTyped
<1>3. HandlersTyped'
  BY <1>1 DEF HandlersTyped
<1> QED
  BY <1>2, <1>3, TypedPartsAfter

(* A request begins. *)
LEMMA BeginTyped ==
  ASSUME Typed, NEW q \in Sessions, NEW name \in Names, Begin(q, name), NEW T, tasks' = tasks \union T,
         \A u \in T : Shaped(u) /\ Fits(u), UNCHANGED <<table, oxUser, member>>, keycloak' \in {"unset", "set", "gone"},
         person' \in [exists : BOOLEAN, name : Names], schools' \subseteq Schools,
         offers' \in BOOLEAN, crowd' \in BOOLEAN
  PROVE  Typed'
<1>1. TableTyped /\ OthersTyped /\ HandlersTyped
  BY TypedParts
<1>2. /\ loaded' = [loaded EXCEPT ![q] = order] /\ username' = [username EXCEPT ![q] = name]
      /\ faults' = faults
      /\ overlaps' = overlaps \/ (overlaps < MaxOverlaps /\ overlaps' = overlaps + 1)
  BY DEF Begin
<1>3. UNCHANGED <<row, order, oxUser, member>>
  BY DEF table
<1>4. TableTyped'
  BY <1>1, <1>2, <1>3 DEF TableTyped
<1>5. username' \in [Sessions -> Names \union {0}]
  BY <1>1, <1>2 DEF OthersTyped
<1>6. overlaps' \in 0 .. MaxOverlaps /\ faults' \in 0 .. MaxFaults
  BY <1>1, <1>2, BoundsAssumption DEF OthersTyped
<1>7. OthersTyped'
  BY <1>1, <1>3, <1>5, <1>6 DEF OthersTyped
<1>8. ASSUME NEW u \in tasks' PROVE Shaped(u)' /\ Fits(u)'
  <2>1. Shaped(u) /\ Fits(u)
    BY <1>1, <1>8 DEF HandlersTyped
  <2> QED
    BY <1>3, <2>1 DEF Shaped, HoldsOne, Fits
<1> QED
  BY <1>4, <1>7, <1>8, TypedPartsAfter DEF HandlersTyped

(* ChangeKontexte leaves every variable with a value of its kind. *)
LEMMA ChangeKontexteTyped ==
  ASSUME Typed, NEW q \in Sessions, NEW S \in SUBSET Schools, ChangeKontexte(q, S) PROVE Typed'
<1>1. OthersTyped
  BY TypedParts
<1> DEFINE T == {Task(q, "person"), [Task(q, "leaveRead") EXCEPT !.school = schools \ S]}
<1>2. /\ Begin(q, person.name) /\ schools' = S /\ tasks' = tasks \union T
      /\ crowd' = (crowd \/ Crowds(S, offers))
      /\ UNCHANGED <<table, person, offers, oxUser, member, keycloak>>
  BY DEF ChangeKontexte, ox
<1>3. "person" \in Places /\ "leaveRead" \in Places /\ 0 \in Texts /\ 0 \in OxIds \union {0}
      /\ schools \ S \in SUBSET Schools
  BY <1>1, BoundsAssumption DEF Places, Texts, OthersTyped
<1>4. Shaped(Task(q, "person")) /\ Fits(Task(q, "person"))
  BY <1>3, StartShaped
<1>5. PICK u : u = [Task(q, "leaveRead") EXCEPT !.school = schools \ S]
  OBVIOUS
<1>6. Shaped(u) /\ Fits(u)
  BY <1>3, <1>5, StartShaped
<1>7. \A v \in T : Shaped(v) /\ Fits(v)
  BY <1>4, <1>5, <1>6
<1> HIDE DEF T
<1>8. crowd' \in BOOLEAN
  BY <1>2
<1>9. /\ person.name \in Names /\ person' \in [exists : BOOLEAN, name : Names] /\ offers' \in BOOLEAN
      /\ keycloak' \in {"unset", "set", "gone"} /\ schools' \subseteq Schools
  BY <1>1, <1>2 DEF OthersTyped
<1> QED
  BY <1>2, <1>7, <1>8, <1>9, BeginTyped

(* ChangeRolle leaves every variable with a value of its kind. *)
LEMMA ChangeRolleTyped ==
  ASSUME Typed, NEW q \in Sessions, ChangeRolle(q) PROVE Typed'
<1>1. OthersTyped
  BY TypedParts
<1> DEFINE T == {Task(q, "person")}
<1>2. /\ Begin(q, person.name) /\ offers' = ~offers /\ tasks' = tasks \union T
      /\ crowd' = (crowd \/ Crowds(schools, ~offers))
      /\ UNCHANGED <<table, person, schools, oxUser, member, keycloak>>
  BY DEF ChangeRolle, ox
<1>3. "person" \in Places /\ 0 \in Texts /\ 0 \in OxIds \union {0}
  BY BoundsAssumption DEF Places, Texts
<1>4. \A v \in T : Shaped(v) /\ Fits(v)
  BY <1>3, StartShaped
<1> HIDE DEF T
<1>5. crowd' \in BOOLEAN /\ offers' \in BOOLEAN
  BY <1>2
<1>6. /\ person.name \in Names /\ person' \in [exists : BOOLEAN, name : Names]
      /\ keycloak' \in {"unset", "set", "gone"} /\ schools' \subseteq Schools
  BY <1>1, <1>2 DEF OthersTyped
<1> QED
  BY <1>2, <1>4, <1>5, <1>6, BeginTyped

(* Rename leaves every variable with a value of its kind. *)
LEMMA RenameTyped ==
  ASSUME Typed, NEW q \in Sessions, Rename(q) PROVE Typed'
<1>1. OthersTyped
  BY TypedParts
<1> DEFINE T == {Task(q, "renamed")}
<1>2. /\ person.name + 1 \in Names /\ Begin(q, person.name + 1)
      /\ person' = [person EXCEPT !.name = @ + 1] /\ tasks' = tasks \union T
      /\ UNCHANGED <<table, schools, offers, oxUser, member, keycloak, crowd>>
  BY DEF Rename, ox
<1>3. "renamed" \in Places /\ 0 \in Texts /\ 0 \in OxIds \union {0}
  BY BoundsAssumption DEF Places, Texts
<1>4. \A v \in T : Shaped(v) /\ Fits(v)
  BY <1>3, StartShaped
<1> HIDE DEF T
<1>5. person' \in [exists : BOOLEAN, name : Names]
  BY <1>1, <1>2 DEF OthersTyped
<1>6. /\ crowd' \in BOOLEAN /\ offers' \in BOOLEAN
      /\ keycloak' \in {"unset", "set", "gone"} /\ schools' \subseteq Schools
  BY <1>1, <1>2 DEF OthersTyped
<1> QED
  BY <1>2, <1>4, <1>5, <1>6, BeginTyped

(* Delete leaves every variable with a value of its kind. *)
LEMMA DeleteTyped ==
  ASSUME Typed, NEW q \in Sessions, Delete(q) PROVE Typed'
<1>1. OthersTyped
  BY TypedParts
<1> DEFINE T == {[Task(q, "person") EXCEPT !.school = schools],
                 [Task(q, "leaveRead") EXCEPT !.school = schools],
                 [Task(q, "deactivate") EXCEPT !.text = EmailOf(order)],
                 [Task(q, "deleted") EXCEPT !.text = EmailOf(order)],
                 Task(q, "deleteRow")}
<1>2. /\ Begin(q, person.name) /\ tasks' = tasks \union T /\ keycloak' = "gone"
      /\ UNCHANGED <<table, person, schools, offers, oxUser, member, crowd>>
  BY DEF Delete, ox
<1>3. /\ "person" \in Places /\ "leaveRead" \in Places /\ "deactivate" \in Places /\ "deleted" \in Places
      /\ "deleteRow" \in Places /\ 0 \in Texts /\ 0 \in OxIds \union {0}
      /\ schools \in SUBSET Schools
  BY <1>1, BoundsAssumption DEF Places, Texts, OthersTyped
<1>4. EmailOf(order) \in Texts
  BY TypedParts, EmailOfTyped DEF TableTyped
<1>5. PICK u : u = [Task(q, "person") EXCEPT !.school = schools]
  OBVIOUS
<1>6. PICK v : v = [Task(q, "leaveRead") EXCEPT !.school = schools]
  OBVIOUS
<1>7. PICK w : w = [Task(q, "deactivate") EXCEPT !.text = EmailOf(order)]
  OBVIOUS
<1>8. PICK x : x = [Task(q, "deleted") EXCEPT !.text = EmailOf(order)]
  OBVIOUS
<1>9. Shaped(u) /\ Fits(u)
  BY <1>3, <1>5, StartShaped
<1>10. Shaped(v) /\ Fits(v)
  BY <1>3, <1>6, StartShaped
<1>11. Shaped(w) /\ Fits(w)
  BY <1>3, <1>4, <1>7, StartShaped
<1>12. Shaped(x) /\ Fits(x)
  BY <1>3, <1>4, <1>8, StartShaped
<1>13. Shaped(Task(q, "deleteRow")) /\ Fits(Task(q, "deleteRow"))
  BY <1>3, StartShaped
<1>14. \A y \in T : Shaped(y) /\ Fits(y)
  BY <1>5, <1>6, <1>7, <1>8, <1>9, <1>10, <1>11, <1>12, <1>13
<1> HIDE DEF T
<1>15. /\ person.name \in Names /\ person' \in [exists : BOOLEAN, name : Names] /\ offers' \in BOOLEAN
       /\ keycloak' \in {"unset", "set", "gone"} /\ schools' \subseteq Schools /\ crowd' \in BOOLEAN
  BY <1>1, <1>2 DEF OthersTyped
<1> QED
  BY <1>2, <1>14, <1>15, BeginTyped

(* Before the first request. *)
LEMMA InitTyped == Init => Typed
<1> SUFFICES ASSUME Init PROVE Typed
  OBVIOUS
<1>1. PICK known \in BOOLEAN :
       LET entitled == IF offers THEN schools ELSE {} IN
       /\ row = [a \in Slots |->
                  IF known /\ a = 1
                  THEN [status |-> IF entitled = {} THEN "DISABLED" ELSE "ENABLED", ox |-> 1, text |-> 1]
                  ELSE NoRow]
       /\ order = IF known THEN <<1>> ELSE <<>>
       /\ oxUser = [u \in OxIds |-> IF known /\ u = 1 THEN [name |-> 1, primary |-> 1] ELSE NoUser]
       /\ member = [s \in Schools |-> IF s \in entitled THEN {1} ELSE {}]
       /\ keycloak = IF entitled = {} THEN "unset" ELSE "set"
  BY DEF Init
<1> DEFINE entitled == IF offers THEN schools ELSE {}
<1>2. 1 \in Slots /\ 1 \in OxIds /\ 1 \in Names /\ 0 \in Texts /\ 1 \in Texts
  BY BoundsAssumption DEF Slots, OxIds, Names, Texts
<1>3. row \in [Slots -> EmailAddress \union {NoRow}]
  <2>1. PICK m : m = [status |-> IF entitled = {} THEN "DISABLED" ELSE "ENABLED", ox |-> 1, text |-> 1]
    OBVIOUS
  <2>2. m \in EmailAddress
    BY <1>2, <2>1 DEF EmailAddress, EmailAddressStatus
  <2>3. row = [a \in Slots |-> IF known /\ a = 1 THEN m ELSE NoRow]
    BY <1>1, <2>1
  <2> QED
    BY <2>2, <2>3
<1>4. order \in Seq(Slots) /\ Len(order) <= MaxAddresses
  <2>1. <<1>> \in Seq(Slots) /\ Len(<<1>>) = 1 /\ <<>> \in Seq(Slots)
    BY <1>2
  <2> QED
    BY <1>1, <2>1, BoundsAssumption
<1>5. TableTyped
  BY <1>3, <1>4 DEF Init, TableTyped
<1>6. oxUser \in [OxIds -> [name : Names \union {0}, primary : Texts]]
  BY <1>1, <1>2 DEF NoUser
<1>7. member \in [Schools -> SUBSET OxIds]
  BY <1>1, <1>2
<1>8. keycloak \in {"unset", "set", "gone"}
  BY <1>1
<1>9. person \in [exists : BOOLEAN, name : Names]
  BY <1>2 DEF Init
<1>p. username \in [Sessions -> Names \union {0}]
  BY DEF Init
<1>f. faults \in 0 .. MaxFaults /\ overlaps \in 0 .. MaxOverlaps
  BY BoundsAssumption DEF Init
<1>s. schools \subseteq Schools /\ offers \in BOOLEAN /\ crowd \in BOOLEAN
  BY DEF Init
<1>10. OthersTyped
  BY <1>6, <1>7, <1>8, <1>9, <1>p, <1>f, <1>s DEF OthersTyped
<1>11. HandlersTyped
  BY DEF Init, HandlersTyped
<1> QED
  BY <1>5, <1>10, <1>11, TypedParts

(* And every step after it. *)
LEMMA NextTyped == Typed /\ [Next]_vars => Typed'
<1> SUFFICES ASSUME Typed, [Next]_vars PROVE Typed'
  OBVIOUS
<1>1. ASSUME NEW q \in Sessions, NEW S \in SUBSET Schools, ChangeKontexte(q, S) PROVE Typed'
  BY <1>1, ChangeKontexteTyped
<1>2. ASSUME NEW q \in Sessions, ChangeRolle(q) \/ Rename(q) \/ Delete(q) PROVE Typed'
  BY <1>2, ChangeRolleTyped, RenameTyped, DeleteTyped
<1>3. ASSUME NEW t \in tasks, Step(t) PROVE Typed'
  <2>1. CASE CheckSave(t) \/ Write(t) \/ HandlePerson(t) \/ CreateOrEnable(t) \/ Generate(t)
    BY <2>1, CheckSaveTyped, WriteTyped, HandlePersonTyped, CreateOrEnableTyped, GenerateTyped
  <2>2. CASE DisableRead(t) \/ DisableOne(t) \/ DisableDone(t)
    BY <2>2, DisableReadTyped, DisableOneTyped, DisableDoneTyped
  <2>3. CASE HandleRenamed(t) \/ RenamedWith(t) \/ RenamedWithout(t)
    BY <2>3, HandleRenamedTyped, RenamedWithTyped, RenamedWithoutTyped
  <2>4. CASE Confirm(t) \/ ConfirmDisabled(t) \/ Deactivate(t)
    BY <2>4, ConfirmTyped, DeactivateTyped
  <2>5. CASE CreateRead(t) \/ CreateExists(t) \/ CreateUser(t)
    BY <2>5, CreateReadTyped, CreateExistsTyped, CreateUserTyped
  <2>6. CASE AlreadyExists(t) \/ Join(t) \/ ChangeRead(t) \/ ChangeUser(t)
    BY <2>6, AlreadyExistsTyped, JoinTyped, ChangeReadTyped, ChangeUserTyped
  <2>7. CASE LeaveRead(t) \/ DisabledInOx(t) \/ DeletedInOx(t)
    BY <2>7, LeaveReadTyped, DeletedInOxTyped
  <2>8. CASE ListGroups(t) \/ Leave(t) \/ LeaveDone(t) \/ Retire(t)
    BY <2>8, ListGroupsTyped, LeaveTyped, LeaveDoneTyped, RetireTyped
  <2>9. CASE KeycloakSet(t) \/ KeycloakUnset(t) \/ DeleteRow(t)
    BY <2>9, KeycloakSetTyped, KeycloakUnsetTyped, DeleteRowTyped
  <2> QED
    BY <1>3, <2>1, <2>2, <2>3, <2>4, <2>5, <2>6, <2>7, <2>8, <2>9 DEF Step
<1>4. ASSUME NEW t \in tasks, Throws(t) PROVE Typed'
  BY <1>4, ThrowsTyped
<1>5. CASE UNCHANGED vars
  <2>1. UNCHANGED <<row, order, person, schools, offers, oxUser, member, keycloak, loaded, username,
                    tasks, faults, overlaps, crowd>>
    BY <1>5 DEF vars, table, ox, copy, trouble
  <2>2. TableTyped' /\ OthersTyped'
    BY <2>1, TypedParts DEF TableTyped, OthersTyped
  <2>3. HandlersTyped'
    BY <2>1, TypedParts DEF HandlersTyped, Shaped, HoldsOne, Fits
  <2> QED
    BY <2>2, <2>3, TypedPartsAfter
<1> QED
  BY <1>1, <1>2, <1>3, <1>4, <1>5, RestartTyped DEF Next

(* Every variable has a value of its kind: above all, no handler ever writes *)
(* a row that does not exist, or acts for a user of OX that cannot be one.   *)
THEOREM Typing == Spec => []TypeOK
<1>1. Spec => []Typed
  BY InitTyped, NextTyped, PTL DEF Spec
<1>2. Typed => TypeOK
  BY DEF Typed
<1> QED
  BY <1>1, <1>2, PTL

-----------------------------------------------------------------------------
(* Requests that are answered one after the other, with no call failing    *)

Calm == faults = 0 /\ overlaps = 0 /\ ~crowd

(* The invariant of such requests, CalmInv, tells for each moment who of the  *)
(* handlers in progress has yet to do what the rights ask for.  There are    *)
(* four kinds of moments: Off, no Rolle gives a right to an address; On, one *)
(* does, and there is an address; Solo, an address is being made up, by one  *)
(* handler after the other; Gone, the person is being deleted or is deleted. *)

HasRows == order # <<>>
Known == {a \in Slots : a <= Len(order)}
Cur == order[1]

(* The rows of the table have addresses, all different ones.                *)
TableInv ==
  /\ \A a \in Slots : row[a] = NoRow <=> a \notin Known
  /\ \A i \in 1 .. Len(order) : order[i] \in Known
  /\ \A a \in Known : row[a].status # "FAILED" /\ IsAddress(row[a].text)
  /\ \A a, b \in Known : row[a].text = row[b].text => a = b

(* OX has one user, or none yet.                                            *)
UserInv ==
  /\ \A u \in OxIds : u # 1 => oxUser[u] = NoUser
  /\ \A s \in Schools : member[s] \subseteq {1}
HasUser == oxUser[1] # NoUser
MembersAre(S) == \A s \in Schools : 1 \in member[s] <=> s \in S

(* One session is in progress, whose copy of the person has all rows.       *)
SessionInv ==
  /\ \A t, u \in tasks : t.q = u.q
  /\ \A t \in tasks :
       /\ username[t.q] = person.name
       /\ HasRows <=> loaded[t.q] # <<>>
       /\ loaded[t.q] # <<>> => loaded[t.q][1] \in Known

(* What a handler holds of the one row it is about.                         *)
Holds(t, a, m) == DOMAIN t.held = {a} /\ t.held[a] = m
Requested(text) == [status |-> "REQUESTED", ox |-> 0, text |-> text]
Enabling(a) == [row[a] EXCEPT !.status = "ENABLED"]
Disabling(a) == [row[a] EXCEPT !.status = "DISABLED"]

(* The latest address is the user's, the others are DISABLED.               *)
Former(a) == row[a].status = "DISABLED" /\ row[a].ox = 1
Steady ==
  /\ \A a \in Known : row[a].ox = 1 /\ row[a].status \in {"ENABLED", "DISABLED"}
  /\ \A a \in Known : row[a].status = "ENABLED" => a = Cur
  /\ HasRows <=> HasUser
  /\ HasRows => oxUser[1].primary = row[Cur].text

(* No Rolle gives a right to an address: who is to disable it, and to take  *)
(* the user out of the groups and the attribute out of Keycloak.            *)
OffSteps == {"person", "without", "disable", "disabledInOx", "disabledInKeycloak", "list",
             "leave", "leaveRead"}
HoldsCur(t) ==
  t.at = "disable" => /\ DOMAIN t.held \subseteq {Cur} /\ DOMAIN t.held \subseteq Known
                      /\ \A a \in DOMAIN t.held : t.held[a] = Disabling(a)
TaskOff(t) ==
  /\ t.at \in OffSteps
  /\ HoldsCur(t)
  /\ t.at = "list" => t.ox = 1
  /\ t.for = "none"
Disables(t) == t.at \in {"person", "without"} \/ (t.at = "disable" /\ Cur \in DOMAIN t.held)
LeavesAll(t) ==
  \/ t.at = "disable" /\ t.any
  \/ t.at \in {"disabledInOx", "list"}
  \/ t.at = "leave" /\ t.ox = 1 /\ \A s \in Schools : 1 \in member[s] => s \in t.todo
Unsets(t) == (t.at = "disable" /\ t.any) \/ t.at = "disabledInKeycloak"
IsEnabled == HasRows /\ row[Cur].status = "ENABLED"
Off ==
  /\ Entitled = {} /\ Steady
  /\ ~HasRows => MembersAre({}) /\ keycloak # "set"
  /\ \A t \in tasks : TaskOff(t)
  /\ IsEnabled => \E t \in tasks : Disables(t)
  /\ ~IsEnabled => MembersAre({}) \/ \E t \in tasks : LeavesAll(t)
  /\ ~IsEnabled => keycloak # "set" \/ \E t \in tasks : Unsets(t)

(* A Rolle gives a right to the address there is: who is to enable it, and  *)
(* to put the user into the groups and the attribute into Keycloak.         *)
Stays(t) ==
  /\ t.for = "none"
  /\ \/ t.at = "leaveRead" /\ t.school \intersect Entitled = {}
     \/ t.at = "leave" /\ t.todo \intersect Entitled = {}
TaskOn(t) ==
  \/ t.at = "person" /\ t.school = {}
  \/ t.at = "school" /\ t.todo # {} /\ t.todo \subseteq Entitled
  \/ t.at \in {"save", "write"} /\ t.for = "enable" /\ t.todo \subseteq Entitled /\ Holds(t, Cur, Enabling(Cur))
  \/ t.at = "alreadyExists" /\ t.school \subseteq Entitled /\ t.held = <<>>
  \/ t.at = "join" /\ t.school \subseteq Entitled /\ t.held = <<>> /\ t.ox = 1
  \/ t.at \in {"create", "keycloakSet", "confirm"}
  \/ Stays(t)
Enables(t) == t.at \in {"person", "school", "save", "write"}
Joins(t, s) ==
  \/ t.at = "person"
  \/ t.at \in {"school", "save", "write"} /\ s \in t.todo
  \/ t.at \in {"alreadyExists", "join"} /\ t.school = {s}
Leaves(t, s) ==
  \/ t.at = "leaveRead" /\ s \in t.school
  \/ t.at = "leave" /\ t.ox = 1 /\ s \in t.todo
On ==
  /\ Entitled # {} /\ HasRows /\ Steady
  /\ \A t \in tasks : TaskOn(t)
  /\ row[Cur].status = "ENABLED" \/ \E t \in tasks : Enables(t)
  /\ keycloak = "set" \/ MembersAre({}) \/ \E t \in tasks : t.at = "keycloakSet"
  /\ \A s \in Entitled : 1 \in member[s] \/ \E t \in tasks : Joins(t, s)
  /\ \A s \in Schools \ Entitled : 1 \in member[s] => \E t \in tasks : Leaves(t, s)

(* The first address, or that of a new name: one handler after the other.   *)
AsEntitled == MembersAre(Entitled) /\ (keycloak = "set" <=> Entitled # {})
Renaming(t) ==
  /\ \/ t.at = "renamed"
     \/ t.at = "renamedWith" /\ Entitled # {}
     \/ t.at = "renamedWithout" /\ Entitled = {}
     \/ t.at = "write" /\ t.for = "rename" /\ Entitled # {} /\ Holds(t, Cur, Disabling(Cur))
  /\ Steady /\ AsEntitled /\ (IsEnabled <=> Entitled # {})
Generating(t) ==
  /\ \/ t.at = "generate"
     \/ t.at \in {"save", "write"} /\ \E text \in Slots \ UsedTexts : Holds(t, 0, Requested(text))
  /\ t.for = IF Entitled = {} THEN "disabled" ELSE "change"
  /\ HasRows /\ HasUser /\ \A a \in Known : Former(a)
  /\ AsEntitled
Pending ==
  /\ HasRows /\ row[Cur].status = "REQUESTED"
  /\ \A a \in Known : a # Cur => Former(a)
Changing(t) ==
  /\ \/ t.at = "change"
     \/ t.at = "oxChange" /\ Holds(t, Cur, row[Cur]) /\ t.ox = 1 /\ t.text = row[Cur].text
  /\ t.for = IF Entitled = {} THEN "disabled" ELSE "confirm"
  /\ Pending /\ HasUser /\ loaded[t.q][1] # Cur
  /\ AsEntitled
Beginning(t) ==
  /\ \/ t.at = "person" /\ t.school = {}
     \/ t.at = "school" /\ t.todo = Entitled
     \/ t.at = "generate" /\ t.for = "create" /\ t.school = Entitled /\ t.todo = {}
     \/ t.at \in {"save", "write"} /\ t.for = "create" /\ t.school = Entitled /\ t.todo = {}
          /\ \E text \in Slots \ UsedTexts : Holds(t, 0, Requested(text))
  /\ ~HasRows /\ ~HasUser /\ MembersAre({})
  /\ \E s \in Schools : Entitled = {s}
Creating(t) ==
  /\ t.at = "create" \/ (t.at \in {"exists", "oxCreate"} /\ Holds(t, Cur, row[Cur]))
  /\ t.school = Entitled
  /\ Pending /\ ~HasUser /\ MembersAre({})
  /\ \E s \in Schools : Entitled = {s}
Primary(t) == HasUser /\ oxUser[1].primary = row[Cur].text /\ t.ox = 1 /\ t.text = row[Cur].text
Joining(t) ==
  /\ (t.at \in {"save", "write"} /\ t.for = "oxid") \/ t.at = "join"
  /\ Holds(t, Cur, [status |-> "REQUESTED", ox |-> 1, text |-> row[Cur].text])
  /\ t.school = Entitled
  /\ Pending /\ Primary(t) /\ MembersAre({})
  /\ \E s \in Schools : Entitled = {s}
Confirming(t) ==
  /\ \/ t.at = "keycloakSet"
     \/ keycloak = "set" /\ t.at = "confirm"
     \/ keycloak = "set" /\ t.at \in {"save", "write"} /\ t.for = "confirm"
          /\ Holds(t, Cur, [status |-> "ENABLED", ox |-> 1, text |-> row[Cur].text])
  /\ Entitled # {}
  /\ Pending /\ Primary(t) /\ MembersAre(Entitled)
Retaining(t) ==
  /\ \/ t.at = "confirmDisabled"
     \/ t.at = "write" /\ t.for = "disable"
          /\ Holds(t, Cur, [status |-> "DISABLED", ox |-> 1, text |-> row[Cur].text])
  /\ Entitled = {}
  /\ Pending /\ Primary(t) /\ AsEntitled
Chain(t) ==
  \/ Renaming(t) \/ Generating(t) \/ Changing(t) \/ Confirming(t) \/ Retaining(t)
  \/ Beginning(t) \/ Creating(t) \/ Joining(t)
Solo == \E t \in tasks : Chain(t) /\ \A u \in tasks \ {t} : Stays(u)

(* The person is being deleted, or gone.                                    *)
TaskGone(t) ==
  /\ t.at \in OffSteps \union {"deactivate", "deleted", "retire", "deleteRow"}
  /\ t.at = "person" => schools \subseteq t.school
  /\ HoldsCur(t)
  /\ t.for = "none" \/ (t.for = "deleted" /\ t.at \in {"list", "leave", "retire"})
  /\ t.at = "list" \/ t.for = "deleted" => t.ox = 1
  /\ t.at = "retire" => t.for = "deleted"
Retires(t) ==
  \/ t.at = "deleted" /\ t.text = row[Cur].text
  \/ t.at = "list" /\ t.for = "deleted"
  \/ t.at = "leave" /\ t.for = "deleted" /\ \A s \in Schools : 1 \in member[s] => s \in t.todo
  \/ t.at = "retire" /\ MembersAre({})
Gone ==
  /\ keycloak = "gone" /\ Steady
  /\ \A t \in tasks : TaskGone(t)
  /\ person.exists => \E t \in tasks : t.at = "deleteRow"
  /\ (MembersAre({}) /\ oxUser[1].name = 0) \/ (HasRows /\ \E t \in tasks : Retires(t))

Living == keycloak # "gone" /\ person.exists /\ (Off \/ On \/ Solo)

Base == TableInv /\ UserInv /\ SessionInv
CalmInv == Calm => Base /\ (Living \/ Gone)

-----------------------------------------------------------------------------
(* The state as it is seen when it does not change                         *)

(* Without failures, and one request after the other, nothing was left out. *)
LEMMA StaysCalm ==
  ASSUME Typed, [Next]_vars, Calm' PROVE Calm
<1>1. faults \in Nat /\ overlaps \in Nat /\ crowd \in BOOLEAN
  BY TypedParts, BoundsAssumption DEF OthersTyped
<1>2. faults' = 0 /\ overlaps' = 0 /\ ~crowd'
  BY DEF Calm
<1>3. ~Fault
  BY <1>1, <1>2 DEF Fault
<1>4. ASSUME NEW t \in tasks, Step(t) PROVE UNCHANGED trouble
  <2>1. CASE CheckSave(t) \/ Write(t) \/ HandlePerson(t) \/ CreateOrEnable(t) \/ Generate(t)
    BY <1>3, <2>1 DEF CheckSave, Write, HandlePerson, CreateOrEnable, Generate
  <2>2. CASE DisableRead(t) \/ DisableDone(t) \/ HandleRenamed(t) \/ RenamedWith(t) \/ RenamedWithout(t)
    BY <2>2 DEF DisableRead, DisableDone, HandleRenamed, RenamedWith, RenamedWithout
  <2>3. CASE Confirm(t) \/ ConfirmDisabled(t) \/ Deactivate(t) \/ CreateRead(t) \/ CreateExists(t)
    BY <2>3 DEF Confirm, ConfirmDisabled, Deactivate, CreateRead, CreateExists
  <2>4. CASE DisableOne(t) \/ CreateUser(t) \/ Join(t) \/ ChangeUser(t)
    BY <1>3, <2>4 DEF DisableOne, CreateUser, Join, ChangeUser
  <2>5. CASE AlreadyExists(t) \/ ChangeRead(t) \/ LeaveRead(t) \/ DisabledInOx(t) \/ DeletedInOx(t) \/ LeaveDone(t)
    BY <2>5 DEF AlreadyExists, ChangeRead, LeaveRead, DisabledInOx, DeletedInOx, LeaveDone
  <2>6. CASE ListGroups(t) \/ Leave(t) \/ Retire(t) \/ KeycloakSet(t) \/ KeycloakUnset(t) \/ DeleteRow(t)
    BY <1>3, <2>6 DEF ListGroups, Leave, Retire, KeycloakSet, KeycloakUnset, DeleteRow
  <2> QED
    BY <1>4, <2>1, <2>2, <2>3, <2>4, <2>5, <2>6 DEF Step
<1>5. CASE UNCHANGED trouble
  BY <1>2, <1>5 DEF trouble, Calm
<1>6. ASSUME NEW q, NEW name, Begin(q, name), crowd => crowd' PROVE Calm
  BY <1>1, <1>2, <1>6 DEF Begin, Calm
<1>7. ASSUME NEW q, NEW S, ChangeKontexte(q, S) PROVE Calm
  BY <1>6, <1>7 DEF ChangeKontexte
<1>8. ASSUME NEW q, ChangeRolle(q) \/ Rename(q) \/ Delete(q) PROVE Calm
  <2>1. CASE ChangeRolle(q)
    BY <1>6, <2>1 DEF ChangeRolle
  <2>2. CASE Rename(q)
    BY <1>6, <2>2 DEF Rename
  <2>3. CASE Delete(q)
    BY <1>6, <2>3 DEF Delete
  <2> QED
    BY <1>8, <2>1, <2>2, <2>3
<1>9. CASE UNCHANGED vars
  BY <1>5, <1>9 DEF vars, trouble
<1>10. ~Restart /\ \A t : ~Throws(t)
  BY <1>3 DEF Restart, Throws
<1> QED
  BY <1>4, <1>5, <1>7, <1>8, <1>9, <1>10 DEF Next

(* A step that goes on with the handlers, and changes nothing else. *)
Same == UNCHANGED <<row, order, person, schools, offers, oxUser, member, keycloak, loaded, username>>

(* What goes on with the handlers only changes nothing else. *)
LEMMA NothingSame == Nothing => Same
BY DEF Nothing, Same, table, ox, copy

(* What is said of the rows alone. *)
LEMMA SameTable ==
  ASSUME UNCHANGED <<row, order>>
  PROVE  /\ Cur' = Cur /\ Known' = Known /\ UsedTexts' = UsedTexts
         /\ HasRows' <=> HasRows
         /\ IsEnabled' <=> IsEnabled
         /\ Pending' <=> Pending
         /\ TableInv' <=> TableInv
         /\ \A a : (Former(a)' <=> Former(a)) /\ Enabling(a)' = Enabling(a) /\ Disabling(a)' = Disabling(a)
         /\ \A t : (HoldsCur(t)' <=> HoldsCur(t)) /\ (Disables(t)' <=> Disables(t))
<1>1. row' = row /\ order' = order
  OBVIOUS
<1>2. Cur' = Cur /\ Known' = Known /\ UsedTexts' = UsedTexts
  BY <1>1 DEF Cur, Known, UsedTexts
<1>3. HasRows' <=> HasRows
  BY <1>1 DEF HasRows
<1>4. \A a : (Former(a)' <=> Former(a)) /\ Enabling(a)' = Enabling(a) /\ Disabling(a)' = Disabling(a)
  BY <1>1 DEF Former, Enabling, Disabling
<1>5. IsEnabled' <=> IsEnabled
  BY <1>1, <1>2, <1>3 DEF IsEnabled
<1>6. Pending' <=> Pending
  BY <1>1, <1>2, <1>3, <1>4 DEF Pending
<1>7. TableInv' <=> TableInv
  BY <1>1, <1>2 DEF TableInv
<1>8. \A t : (HoldsCur(t)' <=> HoldsCur(t)) /\ (Disables(t)' <=> Disables(t))
  BY <1>2, <1>4 DEF HoldsCur, Disables
<1> QED
  BY <1>2, <1>3, <1>4, <1>5, <1>6, <1>7, <1>8

(* What is said of the groups alone. *)
LEMMA SameGroups ==
  ASSUME UNCHANGED member
  PROVE  /\ \A S : MembersAre(S)' <=> MembersAre(S)
         /\ \A t : LeavesAll(t)' <=> LeavesAll(t)
BY DEF MembersAre, LeavesAll

(* What is said of the rights alone. *)
LEMMA SameRights ==
  ASSUME UNCHANGED <<person, schools, offers>>
  PROVE  Entitled' = Entitled /\ \A t : Stays(t)' <=> Stays(t)
<1>1. Entitled' = Entitled
  BY DEF Entitled
<1> QED
  BY <1>1 DEF Stays

(* What is said of rows, groups and the user of OX together. *)
LEMMA SameState ==
  ASSUME Same
  PROVE  /\ HasUser' <=> HasUser
         /\ Steady' <=> Steady
         /\ AsEntitled' <=> AsEntitled
         /\ \A t : TaskOn(t)' <=> TaskOn(t)
         /\ \A t : TaskGone(t)' <=> TaskGone(t)
         /\ \A t : Retires(t)' <=> Retires(t)
         /\ \A t : Primary(t)' <=> Primary(t)
         /\ UserInv' <=> UserInv
<1>1. row' = row /\ order' = order /\ oxUser' = oxUser /\ member' = member /\ keycloak' = keycloak
      /\ schools' = schools /\ UNCHANGED <<person, schools, offers>>
  BY DEF Same
<1>2. /\ Cur' = Cur /\ Known' = Known
      /\ HasRows' <=> HasRows
      /\ \A a : Enabling(a)' = Enabling(a)
      /\ \A t : HoldsCur(t)' <=> HoldsCur(t)
  BY <1>1, SameTable
<1>3. \A S : MembersAre(S)' <=> MembersAre(S)
  BY <1>1, SameGroups
<1>4. Entitled' = Entitled /\ \A t : Stays(t)' <=> Stays(t)
  BY <1>1, SameRights
<1>5. HasUser' <=> HasUser
  BY <1>1 DEF HasUser
<1>6. Steady' <=> Steady
  BY <1>1, <1>2, <1>5 DEF Steady
<1>7. AsEntitled' <=> AsEntitled
  BY <1>1, <1>3, <1>4 DEF AsEntitled
<1>8. \A t : TaskOn(t)' <=> TaskOn(t)
  BY <1>2, <1>4 DEF TaskOn, Holds
<1>9. \A t : TaskGone(t)' <=> TaskGone(t)
  BY <1>1, <1>2 DEF TaskGone
<1>10. \A t : Retires(t)' <=> Retires(t)
  BY <1>1, <1>2, <1>3 DEF Retires
<1>11. \A t : Primary(t)' <=> Primary(t)
  BY <1>1, <1>2, <1>5 DEF Primary
<1>12. UserInv' <=> UserInv
  BY <1>1 DEF UserInv
<1> QED
  BY <1>5, <1>6, <1>7, <1>8, <1>9, <1>10, <1>11, <1>12

(* The handlers that go on are of the same session. *)
LEMMA SessionGoesOn ==
  ASSUME SessionInv, NEW t, NEW T, Do(t, T), \A u \in T : u.q = t.q,
         UNCHANGED <<order, loaded, username>>, person'.name = person.name
  PROVE  SessionInv'
<1>1. \A u \in tasks' : u.q = t.q
  BY DEF Do, SessionInv
<1>2. Known' = Known /\ (HasRows' <=> HasRows)
  BY DEF Known, HasRows
<1>3. t \in tasks
  BY DEF Do
<1>4. /\ username[t.q] = person.name
      /\ HasRows <=> loaded[t.q] # <<>>
      /\ loaded[t.q] # <<>> => loaded[t.q][1] \in Known
  BY <1>3 DEF SessionInv
<1> QED
  BY <1>1, <1>2, <1>4 DEF SessionInv

(* The tables are as good as before. *)
LEMMA BaseGoesOn ==
  ASSUME Base, Same, NEW t, NEW T, Do(t, T), \A u \in T : u.q = t.q
  PROVE  Base'
<1>1. TableInv'
  BY SameTable DEF Same, Base
<1>2. UserInv'
  BY SameState DEF Base
<1>3. SessionInv'
  BY SessionGoesOn DEF Same, Base
<1> QED
  BY <1>1, <1>2, <1>3 DEF Base

-----------------------------------------------------------------------------
(* What the table tells                                                    *)

(* Rows that are known are addresses. *)
LEMMA KnownRows ==
  ASSUME Typed, TableInv
  PROVE  /\ order \in Seq(Slots) /\ Len(order) \in Nat /\ Len(order) <= MaxAddresses
         /\ HasRows => Cur \in Known /\ Cur \in Slots
         /\ ~HasRows => Known = {}
         /\ \A a \in Known : row[a] \in EmailAddress /\ a \in Slots /\ a # 0 /\ row[a].text \in Texts
         /\ \A a \in Slots \ Known : row[a] = NoRow
<1>1. order \in Seq(Slots) /\ Len(order) \in Nat /\ Len(order) <= MaxAddresses
  BY TypedParts DEF TableTyped
<1>2. HasRows => 1 \in 1 .. Len(order)
  BY <1>1 DEF HasRows
<1>3. HasRows => Cur \in Known /\ Cur \in Slots
  BY <1>2 DEF TableInv, Cur, Known
<1>4. ~HasRows => Known = {}
  BY DEF HasRows, Known, Slots
<1>5. ASSUME NEW a \in Known PROVE row[a] \in EmailAddress /\ a \in Slots /\ a # 0 /\ row[a].text \in Texts
  <2>1. a \in Slots /\ row[a] # NoRow
    BY DEF TableInv, Known
  <2>2. row[a] \in EmailAddress
    BY <2>1, TypedParts DEF TableTyped
  <2> QED
    BY <2>1, <2>2 DEF EmailAddress, Slots
<1>6. \A a \in Slots \ Known : row[a] = NoRow
  BY DEF TableInv
<1> QED
  BY <1>1, <1>3, <1>4, <1>5, <1>6

(* The first of the rows, if it has the status; none, if none has it. *)
LEMMA FirstIs ==
  ASSUME Typed, NEW seq \in Seq(Slots), NEW S
  PROVE  /\ seq # <<>> /\ row[seq[1]].status \in S => FirstOf(seq, S) = seq[1]
         /\ (\A i \in 1 .. Len(seq) : row[seq[i]].status \notin S) => FirstOf(seq, S) = 0
<1> DEFINE I == {i \in 1 .. Len(seq) : row[seq[i]].status \in S}
           k == CHOOSE i \in I : \A j \in I : i <= j
<1>1. Len(seq) \in Nat
  OBVIOUS
<1>2. ASSUME seq # <<>>, row[seq[1]].status \in S PROVE FirstOf(seq, S) = seq[1]
  <2>1. 1 \in I /\ \A j \in I : 1 <= j
    BY <1>1, <1>2
  <2>2. k \in I /\ \A j \in I : k <= j
    BY <2>1
  <2>3. k = 1
    BY <2>1, <2>2
  <2>4. FirstOf(seq, S) = seq[k]
    BY <2>1 DEF FirstOf
  <2> HIDE DEF k
  <2> QED
    BY <2>3, <2>4
<1>3. ASSUME \A i \in 1 .. Len(seq) : row[seq[i]].status \notin S PROVE FirstOf(seq, S) = 0
  BY <1>3 DEF FirstOf
<1> QED
  BY <1>2, <1>3

(* The newest row, for a person that is there. *)
LEMMA NewestIs ==
  ASSUME Typed, TableInv, person.exists, NEW S
  PROVE  /\ HasRows /\ row[Cur].status \in S => Newest(S) = Cur
         /\ (\A a \in Known : row[a].status \notin S) => Newest(S) = 0
<1>1. order \in Seq(Slots) /\ \A i \in 1 .. Len(order) : order[i] \in Known
  BY KnownRows DEF TableInv
<1>2. Newest(S) = FirstOf(order, S)
  BY DEF Newest, Addresses
<1> QED
  BY <1>1, <1>2, FirstIs DEF HasRows, Cur

(* The user of OX that a request knows of. *)
LEMMA UserKnown ==
  ASSUME Typed, TableInv, SessionInv, NEW t \in tasks
  PROVE  /\ OxUserId(t.q) = IF HasRows THEN row[loaded[t.q][1]].ox ELSE 0
         /\ HasRows => loaded[t.q][1] \in Known
<1>1. loaded[t.q] \in Seq(Slots)
  BY TaskTyped, TypedParts DEF TableTyped
<1>2. (HasRows <=> loaded[t.q] # <<>>) /\ (loaded[t.q] # <<>> => loaded[t.q][1] \in Known)
  BY DEF SessionInv
<1>3. CASE HasRows
  <2>1. loaded[t.q][1] \in Known
    BY <1>2, <1>3
  <2>2. row[loaded[t.q][1]].status \in EmailAddressStatus \ {"FAILED"}
    BY <2>1, KnownRows DEF TableInv, EmailAddress
  <2>3. FirstOf(loaded[t.q], EmailAddressStatus \ {"FAILED"}) = loaded[t.q][1]
    BY <1>1, <1>2, <1>3, <2>2, FirstIs
  <2>4. loaded[t.q][1] # 0
    BY <2>1, KnownRows
  <2> QED
    BY <1>3, <2>1, <2>3, <2>4 DEF OxUserId
<1>4. CASE ~HasRows
  <2>1. FirstOf(loaded[t.q], EmailAddressStatus \ {"FAILED"}) = 0
    BY <1>1, <1>2, <1>4, FirstIs
  <2> QED
    BY <1>4, <2>1 DEF OxUserId
<1> QED
  BY <1>3, <1>4

(* The current row may be written while the person is there. *)
LEMMA CanWriteCur ==
  ASSUME Typed, TableInv, HasRows, NEW m \in EmailAddress, m.text = row[Cur].text
  PROVE  CanWrite(Cur, m) <=> person.exists
<1>1. Cur \in Known /\ row[Cur].text \in 1 .. MaxAddresses
  BY KnownRows DEF TableInv, IsAddress
<1>2. ASSUME NEW b \in Slots \ {Cur} PROVE row[b].text # m.text
  <2>1. CASE b \in Known
    BY <1>1, <2>1 DEF TableInv
  <2>2. CASE b \notin Known
    <3>1. row[b].text = 0
      BY <2>2, KnownRows DEF NoRow
    <3> QED
      BY <1>1, <3>1, BoundsAssumption
  <2> QED
    BY <2>1, <2>2
<1> QED
  BY <1>2 DEF CanWrite

(* The row that is first stays the first when it is written. *)
LEMMA FrontStays ==
  ASSUME NEW seq \in Seq(Slots), seq # <<>>
  PROVE  /\ ToFront(seq, seq[1]) \in Seq(Slots) /\ Len(ToFront(seq, seq[1])) = Len(seq)
         /\ ToFront(seq, seq[1]) # <<>> /\ ToFront(seq, seq[1])[1] = seq[1]
         /\ \A i \in 1 .. Len(seq) : \E j \in 1 .. Len(seq) : ToFront(seq, seq[1])[i] = seq[j]
<1> DEFINE p == CHOOSE i \in 1 .. Len(seq) : seq[i] = seq[1]
           f(i) == CASE i = 1 -> seq[1] [] i > 1 /\ i <= p -> seq[i - 1] [] OTHER -> seq[i]
<1>1. Len(seq) \in Nat /\ 1 \in 1 .. Len(seq) /\ seq[1] \in Slots
  OBVIOUS
<1>2. ToFront(seq, seq[1]) \in Seq(Slots) /\ Len(ToFront(seq, seq[1])) = Len(seq)
  BY <1>1, ToFrontTyped
<1>3. ToFront(seq, seq[1]) = [i \in 1 .. Len(seq) |-> f(i)]
  BY DEF ToFront
<1>4. ASSUME NEW i \in 1 .. Len(seq) PROVE \E j \in 1 .. Len(seq) : f(i) = seq[j]
  <2> HIDE DEF p
  <2>1. CASE i = 1
    BY <1>1, <2>1
  <2>2. CASE i > 1 /\ i <= p
    <3>1. i - 1 \in 1 .. Len(seq) /\ f(i) = seq[i - 1]
      BY <1>1, <2>2
    <3> QED
      BY <3>1
  <2>3. CASE i # 1 /\ ~(i > 1 /\ i <= p)
    BY <1>1, <2>3
  <2> QED
    BY <2>1, <2>2, <2>3
<1>5. f(1) = seq[1]
  OBVIOUS
<1> HIDE DEF f
<1> QED
  BY <1>1, <1>2, <1>3, <1>4, <1>5

(* The current row is saved, with the address it has: it stays the current one. *)
LEMMA CurWritten ==
  ASSUME Typed, TableInv, HasRows, NEW m \in EmailAddress, Update(Cur, m),
         m.text = row[Cur].text, m.status # "FAILED"
  PROVE  /\ TableInv' /\ HasRows' /\ Cur' = Cur /\ Known' = Known /\ UNCHANGED loaded
         /\ row' = [row EXCEPT ![Cur] = m]
         /\ row'[Cur] = m /\ \A a \in Slots : a # Cur => row'[a] = row[a]
         /\ Len(order') = Len(order)
<1>1. /\ order \in Seq(Slots) /\ Len(order) \in Nat /\ Cur \in Known /\ Cur \in Slots
      /\ \A i \in 1 .. Len(order) : order[i] \in Known
  BY KnownRows DEF TableInv
<1>2. row' = [row EXCEPT ![Cur] = m] /\ UNCHANGED loaded
      /\ (order' = order \/ order' = ToFront(order, Cur))
  BY DEF Update
<1>3. /\ order' \in Seq(Slots) /\ Len(order') = Len(order) /\ order' # <<>> /\ order'[1] = order[1]
      /\ \A i \in 1 .. Len(order) : order'[i] \in Known
  BY <1>1, <1>2, FrontStays DEF Cur, HasRows
<1>4. HasRows' /\ Cur' = Cur /\ Known' = Known
  BY <1>3 DEF HasRows, Cur, Known
<1>5. row \in [Slots -> EmailAddress \union {NoRow}]
  BY TypedParts DEF TableTyped
<1>6. row'[Cur] = m /\ \A a \in Slots : a # Cur => row'[a] = row[a]
  BY <1>1, <1>2, <1>5
<1>7. m # NoRow /\ IsAddress(m.text)
  BY <1>1 DEF TableInv, EmailAddress, EmailAddressStatus, NoRow
<1>8. TableInv'
  <2>1. \A a \in Slots : row'[a] = NoRow <=> a \notin Known
    BY <1>1, <1>6, <1>7 DEF TableInv
  <2>2. \A a \in Known : a \in Slots
    BY DEF Known
  <2>3. \A a \in Known : row'[a].text = row[a].text
    BY <1>6, <2>2
  <2>4. \A a \in Known : row'[a].status # "FAILED" /\ IsAddress(row'[a].text)
    BY <1>6, <2>2, <2>3 DEF TableInv
  <2>5. \A a, b \in Known : row'[a].text = row'[b].text => a = b
    BY <2>3 DEF TableInv
  <2>6. \A i \in 1 .. Len(order') : order'[i] \in Known
    BY <1>3
  <2> QED
    BY <1>4, <2>1, <2>4, <2>5, <2>6 DEF TableInv, IsAddress
<1> QED
  BY <1>2, <1>3, <1>4, <1>6, <1>8

-----------------------------------------------------------------------------
(* No Rolle gives a right to an address                                    *)

Here == Typed /\ Base /\ person.exists /\ keycloak # "gone"

(* Whoever goes on takes over what the handler had yet to do. *)
LEMMA OffGoesOn ==
  ASSUME Base, Off, Same, NEW t, NEW T, Do(t, T), \A u \in T : TaskOff(u) /\ u.q = t.q,
         IsEnabled /\ Disables(t) => \E u \in T : Disables(u),
         ~IsEnabled /\ LeavesAll(t) => MembersAre({}) \/ \E u \in T : LeavesAll(u),
         ~IsEnabled /\ Unsets(t) => keycloak # "set" \/ \E u \in T : Unsets(u)
  PROVE  Off' /\ Base'
<1>1. t \in tasks /\ tasks' = (tasks \ {t}) \union T
  BY DEF Do
<1>2. /\ Entitled' = Entitled /\ (Steady' <=> Steady) /\ (HasRows' <=> HasRows) /\ (IsEnabled' <=> IsEnabled)
      /\ MembersAre({})' <=> MembersAre({})
      /\ keycloak' = keycloak
      /\ \A u : (HoldsCur(u)' <=> HoldsCur(u)) /\ (Disables(u)' <=> Disables(u)) /\ (LeavesAll(u)' <=> LeavesAll(u))
  BY SameTable, SameGroups, SameRights, SameState DEF Same
<1>3. \A u \in tasks' : TaskOff(u)'
  <2>1. \A u \in tasks' : TaskOff(u)
    BY <1>1 DEF Off
  <2> QED
    BY <1>2, <2>1 DEF TaskOff
<1>4. IsEnabled => \E u \in tasks' : Disables(u)
  BY <1>1 DEF Off
<1>5. ~IsEnabled => MembersAre({}) \/ \E u \in tasks' : LeavesAll(u)
  BY <1>1 DEF Off
<1>6. ~IsEnabled => keycloak # "set" \/ \E u \in tasks' : Unsets(u)
  BY <1>1 DEF Off
<1>7. Off'
  <2>1. Entitled' = {} /\ Steady' /\ (~HasRows' => MembersAre({})' /\ keycloak' # "set")
    BY <1>2 DEF Off
  <2>2. IsEnabled' => \E u \in tasks' : Disables(u)'
    BY <1>2, <1>4
  <2>3. ~IsEnabled' => MembersAre({})' \/ \E u \in tasks' : LeavesAll(u)'
    BY <1>2, <1>5
  <2>4. ~IsEnabled' => keycloak' # "set" \/ \E u \in tasks' : Unsets(u)'
    BY <1>2, <1>6 DEF Unsets
  <2> QED
    BY <1>3, <2>1, <2>2, <2>3, <2>4 DEF Off
<1>8. Base'
  BY BaseGoesOn
<1> QED
  BY <1>7, <1>8

(* What a handler that has just been started knows. *)
LEMMA Started ==
  ASSUME Typed, NEW t \in tasks, NEW at \in Places
  PROVE  /\ Task(t.q, at) \in Handlers /\ Task(t.q, at).q = t.q /\ Task(t.q, at).at = at
         /\ Task(t.q, at).for = "none" /\ Task(t.q, at).school = {} /\ Task(t.q, at).todo = {}
         /\ Task(t.q, at).held = <<>>
<1>1. t.q \in Sessions
  BY TaskTyped
<1> QED
  BY <1>1, TaskShaped

(* There is no Rolle with an email service provider. *)
LEMMA OffHandlePerson ==
  ASSUME Here, Off, NEW t \in tasks, HandlePerson(t) PROVE Off' /\ Base'
<1> DEFINE S == IF offers /\ person.exists THEN schools \ t.school ELSE {}
<1>1. S = {} /\ t.at = "person"
  BY DEF Off, Entitled, HandlePerson, At
<1>2. Do(t, {Task(t.q, "without")}) /\ Same
  <2>1. Do(t, {IF S = {} THEN Task(t.q, "without") ELSE [Task(t.q, "school") EXCEPT !.todo = S]})
    BY DEF HandlePerson
  <2>2. Nothing
    BY DEF HandlePerson, Nothing
  <2> QED
    BY <1>1, <2>1, <2>2, NothingSame
<1>3. PICK u : u = Task(t.q, "without")
  OBVIOUS
<1>4. "without" \in Places
  BY DEF Places
<1>5. u.at = "without" /\ u.q = t.q /\ u.for = "none"
  BY <1>3, <1>4, Started DEF Here
<1>6. TaskOff(u) /\ Disables(u)
  BY <1>5 DEF TaskOff, HoldsCur, OffSteps, Disables
<1>7. ~LeavesAll(t) /\ ~Unsets(t)
  BY <1>1 DEF LeavesAll, Unsets
<1>8. Do(t, {u}) /\ \A v \in {u} : TaskOff(v) /\ v.q = t.q
  BY <1>2, <1>3, <1>5, <1>6
<1>9. Base
  BY DEF Here
<1> QED
  BY <1>2, <1>6, <1>7, <1>8, <1>9, OffGoesOn

(* The rows to be disabled are the current one, if it is not yet. *)
LEMMA ToDisable ==
  ASSUME Typed, TableInv, Steady, person.exists
  PROVE  LET A == {a \in Slots : person.exists /\ row[a].status \in EmailAddressStatus \ {"DISABLED"}} IN
         A = IF IsEnabled THEN {Cur} ELSE {}
<1> DEFINE A == {a \in Slots : person.exists /\ row[a].status \in EmailAddressStatus \ {"DISABLED"}}
<1>1. ASSUME NEW a \in A PROVE a = Cur /\ IsEnabled
  <2>1. a \in Known
    <3>1. row[a] # NoRow
      BY DEF NoRow, EmailAddressStatus
    <3> QED
      BY <3>1 DEF TableInv
  <2>2. row[a].status = "ENABLED"
    BY <2>1 DEF Steady
  <2> QED
    BY <2>1, <2>2, KnownRows DEF Steady, IsEnabled
<1>2. IsEnabled => Cur \in A
  BY KnownRows DEF IsEnabled, EmailAddressStatus
<1> QED
  BY <1>1, <1>2

(* The enabled address is to be disabled. *)
LEMMA OffDisableRead ==
  ASSUME Here, Off, NEW t \in tasks, DisableRead(t) PROVE Off' /\ Base'
<1> DEFINE A == {a \in Slots : person.exists /\ row[a].status \in EmailAddressStatus \ {"DISABLED"}}
           h == [a \in A |-> [row[a] EXCEPT !.status = "DISABLED"]]
<1>1. A = IF IsEnabled THEN {Cur} ELSE {}
  BY ToDisable DEF Here, Base, Off
<1>2. t.at = "without" /\ t.for = "none" /\ t \in Handlers
  BY TaskTyped DEF DisableRead, At, Off, TaskOff, Here
<1>3. Same
  <2>1. Nothing
    BY DEF DisableRead, Nothing
  <2> QED
    BY <2>1, NothingSame
<1>4. Do(t, IF A = {} THEN {} ELSE {[Goes(t, "disable") EXCEPT !.held = h]})
  BY DEF DisableRead
<1>5. ~LeavesAll(t) /\ ~Unsets(t)
  BY <1>2 DEF LeavesAll, Unsets
<1>6. DOMAIN h = A /\ \A a \in A : h[a] = Disabling(a)
  BY DEF Disabling
<1> HIDE DEF A, h
<1>7. CASE IsEnabled
  <2>1. PICK u : u = [Goes(t, "disable") EXCEPT !.held = h]
    OBVIOUS
  <2>2. u.at = "disable" /\ u.q = t.q /\ u.for = "none" /\ u.held = h
    BY <1>2, <2>1 DEF Goes, Handlers
  <2>3. A = {Cur} /\ Do(t, {u})
    BY <1>1, <1>4, <1>7, <2>1
  <2>4. Cur \in Known
    BY <1>7, KnownRows DEF IsEnabled, Here, Base
  <2>5. HoldsCur(u) /\ Disables(u)
    BY <1>6, <2>2, <2>3, <2>4 DEF HoldsCur, Disables
  <2>6. \A v \in {u} : TaskOff(v) /\ v.q = t.q
    BY <2>2, <2>5 DEF TaskOff, OffSteps
  <2> QED
    BY <1>3, <1>5, <1>7, <2>3, <2>5, <2>6, OffGoesOn DEF Here
<1>8. CASE ~IsEnabled
  <2>1. Do(t, {})
    BY <1>1, <1>4, <1>8
  <2> QED
    BY <1>3, <1>5, <1>8, <2>1, OffGoesOn DEF Here
<1> QED
  BY <1>7, <1>8

(* Both events are published, if the address was saved. *)
LEMMA OffDisableDone ==
  ASSUME Here, Off, NEW t \in tasks, DisableDone(t) PROVE Off' /\ Base'
<1>1. t.at = "disable" /\ t.held = <<>>
  BY DEF DisableDone, At
<1>2. Same
  <2>1. Nothing
    BY DEF DisableDone, Nothing
  <2> QED
    BY <2>1, NothingSame
<1>3. Do(t, IF t.any THEN {Task(t.q, "disabledInOx"), Task(t.q, "disabledInKeycloak")} ELSE {})
  BY DEF DisableDone
<1>4. ~Disables(t)
  BY <1>1 DEF Disables
<1>5. PICK u : u = Task(t.q, "disabledInOx")
  OBVIOUS
<1>6. PICK v : v = Task(t.q, "disabledInKeycloak")
  OBVIOUS
<1>7. "disabledInOx" \in Places /\ "disabledInKeycloak" \in Places
  BY DEF Places
<1>8. /\ u.at = "disabledInOx" /\ u.q = t.q /\ u.for = "none"
      /\ v.at = "disabledInKeycloak" /\ v.q = t.q /\ v.for = "none"
  BY <1>5, <1>6, <1>7, Started DEF Here
<1>9. TaskOff(u) /\ TaskOff(v) /\ LeavesAll(u) /\ Unsets(v)
  BY <1>8 DEF TaskOff, OffSteps, HoldsCur, LeavesAll, Unsets
<1>10. CASE t.any
  <2>1. Do(t, {u, v})
    BY <1>3, <1>5, <1>6, <1>10
  <2>2. \A w \in {u, v} : TaskOff(w) /\ w.q = t.q
    BY <1>8, <1>9
  <2> QED
    BY <1>2, <1>4, <1>9, <2>1, <2>2, OffGoesOn DEF Here
<1>11. CASE ~t.any
  <2>1. ~LeavesAll(t) /\ ~Unsets(t)
    BY <1>1, <1>11 DEF LeavesAll, Unsets
  <2>2. Do(t, {})
    BY <1>3, <1>11
  <2> QED
    BY <1>2, <1>4, <2>1, <2>2, OffGoesOn DEF Here
<1> QED
  BY <1>10, <1>11

(* The groups of the schools left are to be left. *)
LEMMA OffLeaveRead ==
  ASSUME Here, Off, NEW t \in tasks, LeaveRead(t) PROVE Off' /\ Base'
<1> DEFINE x == OxUserId(t.q)
<1>1. t.at = "leaveRead" /\ t.for = "none" /\ t \in Handlers
  BY TaskTyped DEF LeaveRead, At, Off, TaskOff, Here
<1>2. Same
  <2>1. Nothing
    BY DEF LeaveRead, Nothing
  <2> QED
    BY <2>1, NothingSame
<1>3. Do(t, {}) \/ Do(t, {[Goes(t, "leave") EXCEPT !.ox = x, !.todo = t.school]})
  BY DEF LeaveRead
<1>4. ~Disables(t) /\ ~LeavesAll(t) /\ ~Unsets(t)
  BY <1>1 DEF Disables, LeavesAll, Unsets
<1> HIDE DEF x
<1>5. PICK u : u = [Goes(t, "leave") EXCEPT !.ox = x, !.todo = t.school]
  OBVIOUS
<1>6. u.at = "leave" /\ u.q = t.q /\ u.for = "none"
  BY <1>1, <1>5 DEF Goes, Handlers
<1>7. \A v \in {u} : TaskOff(v) /\ v.q = t.q
  BY <1>6 DEF TaskOff, OffSteps, HoldsCur
<1>8. CASE Do(t, {})
  BY <1>2, <1>4, <1>8, OffGoesOn DEF Here
<1>9. CASE Do(t, {u})
  BY <1>2, <1>4, <1>7, <1>9, OffGoesOn DEF Here
<1> QED
  BY <1>3, <1>5, <1>8, <1>9

(* All groups are to be left. *)
LEMMA OffDisabledInOx ==
  ASSUME Here, Off, NEW t \in tasks, DisabledInOx(t) PROVE Off' /\ Base'
<1> DEFINE x == OxUserId(t.q)
<1>1. t.at = "disabledInOx" /\ t.for = "none" /\ t \in Handlers
  BY TaskTyped DEF DisabledInOx, At, Off, TaskOff, Here
<1>2. Same
  <2>1. Nothing
    BY DEF DisabledInOx, Nothing
  <2> QED
    BY <2>1, NothingSame
<1>3. Do(t, IF ~person.exists \/ x = 0 THEN {} ELSE {[Goes(t, "list") EXCEPT !.ox = x]})
  BY DEF DisabledInOx
<1>4. ~Disables(t) /\ ~Unsets(t)
  BY <1>1 DEF Disables, Unsets
<1>5. x = IF HasRows THEN 1 ELSE 0
  BY UserKnown DEF Here, Base, Off, Steady
<1> HIDE DEF x
<1>6. PICK u : u = [Goes(t, "list") EXCEPT !.ox = x]
  OBVIOUS
<1>7. u.at = "list" /\ u.q = t.q /\ u.for = "none" /\ u.ox = x
  BY <1>1, <1>6 DEF Goes, Handlers
<1>8. CASE HasRows
  <2>1. LeavesAll(u)
    BY <1>7 DEF LeavesAll
  <2>2. \A v \in {u} : TaskOff(v) /\ v.q = t.q
    BY <1>5, <1>7, <1>8 DEF TaskOff, OffSteps, HoldsCur
  <2>3. Do(t, {u})
    BY <1>3, <1>5, <1>6, <1>8 DEF Here
  <2> QED
    BY <1>2, <1>4, <2>1, <2>2, <2>3, OffGoesOn DEF Here
<1>9. CASE ~HasRows
  <2>1. Do(t, {}) /\ MembersAre({})
    BY <1>3, <1>5, <1>9 DEF Off
  <2> QED
    BY <1>2, <1>4, <2>1, OffGoesOn DEF Here
<1> QED
  BY <1>8, <1>9

(* What holds of the tables still does while only a group, the attribute in *)
(* Keycloak or the set of handlers changes.                                 *)
LEMMA BaseKept ==
  ASSUME Base, NEW t, NEW T, Do(t, T), \A u \in T : u.q = t.q,
         UNCHANGED <<row, order, person, oxUser, loaded, username>>,
         \A s \in Schools : member'[s] \subseteq {1}
  PROVE  Base'
<1>1. TableInv'
  BY SameTable DEF Base
<1>2. UserInv'
  BY DEF Base, UserInv
<1>3. SessionInv'
  BY SessionGoesOn DEF Base
<1> QED
  BY <1>1, <1>2, <1>3 DEF Base

(* Rows, rights and the user of OX are the same. *)
LEMMA SteadyKept ==
  ASSUME UNCHANGED <<row, order, person, schools, offers, oxUser>>
  PROVE  (Steady' <=> Steady) /\ Entitled' = Entitled /\ (HasUser' <=> HasUser)
<1>1. Entitled' = Entitled
  BY SameRights
<1>2. Cur' = Cur /\ Known' = Known /\ (HasRows' <=> HasRows)
  BY SameTable
<1>3. HasUser' <=> HasUser
  BY DEF HasUser
<1>4. Steady' <=> Steady
  BY <1>2, <1>3 DEF Steady
<1> QED
  BY <1>1, <1>3, <1>4

(* The current address is disabled. *)
LEMMA OffDisableOne ==
  ASSUME Here, Off, ~Fault, NEW t \in tasks, DisableOne(t) PROVE Off' /\ Base'
<1>1. t.at = "disable" /\ t \in Handlers /\ t.for = "none" /\ TaskOff(t)
  BY TaskTyped DEF DisableOne, At, Off, TaskOff, Here
<1>2. Typed /\ Base /\ TableInv /\ SessionInv /\ UserInv /\ person.exists
  BY DEF Here, Base
<1>3. DOMAIN t.held \subseteq {Cur} /\ DOMAIN t.held \subseteq Known /\ \A a \in DOMAIN t.held : t.held[a] = Disabling(a)
  BY <1>1 DEF TaskOff, HoldsCur
<1>4. PICK a \in DOMAIN t.held :
        LET rest == [t EXCEPT !.held = [b \in DOMAIN t.held \ {a} |-> t.held[b]]] IN
        \/ CanWrite(a, t.held[a]) /\ Update(a, t.held[a]) /\ Do(t, {[rest EXCEPT !.any = TRUE]})
        \/ ~CanWrite(a, t.held[a])
  BY DEF DisableOne
<1>5. a = Cur /\ a \in Known /\ t.held[a] = Disabling(Cur)
  BY <1>3
<1>6. HasRows /\ Cur \in Known /\ row[Cur] \in EmailAddress
  BY <1>2, <1>5, KnownRows
<1>7. PICK m : m = Disabling(Cur)
  OBVIOUS
<1>8. m \in EmailAddress /\ m.text = row[Cur].text /\ m.ox = row[Cur].ox /\ m.status = "DISABLED"
  BY <1>6, <1>7 DEF Disabling, EmailAddress, EmailAddressStatus
<1>9. CanWrite(Cur, m)
  BY <1>2, <1>6, <1>8, CanWriteCur
<1>10. PICK u : u = [[t EXCEPT !.held = [b \in DOMAIN t.held \ {a} |-> t.held[b]]] EXCEPT !.any = TRUE]
  OBVIOUS
<1>11. Update(Cur, m) /\ Do(t, {u})
  BY <1>4, <1>5, <1>7, <1>9, <1>10
<1>12. /\ TableInv' /\ HasRows' /\ Cur' = Cur /\ Known' = Known /\ UNCHANGED loaded
       /\ row'[Cur] = m /\ \A b \in Slots : b # Cur => row'[b] = row[b]
       /\ Len(order') = Len(order)
  BY <1>2, <1>6, <1>8, <1>11, CurWritten
<1>13. UNCHANGED <<person, schools, offers, oxUser, member, keycloak, username>>
  BY DEF DisableOne, ox
<1>14. u.at = "disable" /\ u.q = t.q /\ u.for = "none" /\ u.any = TRUE
  BY <1>1, <1>10 DEF Handlers
<1>15. DOMAIN u.held = {}
  <2>1. u.held = [b \in DOMAIN t.held \ {a} |-> t.held[b]]
    BY <1>1, <1>10 DEF Handlers
  <2> QED
    BY <1>3, <1>5, <2>1
<1>16. \A b \in Known : b \in Slots
  BY DEF Known
<1>17. Steady'
  <2>1. \A b \in Known : row'[b].ox = 1 /\ row'[b].status = "DISABLED"
    BY <1>8, <1>12, <1>16 DEF Off, Steady
  <2>2. HasUser' <=> HasUser
    BY <1>13 DEF HasUser
  <2>3. row'[Cur].text = row[Cur].text
    BY <1>8, <1>12
  <2> QED
    BY <1>6, <1>12, <1>13, <2>1, <2>2, <2>3 DEF Off, Steady
<1>18. Disabling(Cur)' = Disabling(Cur)
  <2>1. row'[Cur] = [row[Cur] EXCEPT !.status = "DISABLED"]
    BY <1>7, <1>12 DEF Disabling
  <2>2. [row'[Cur] EXCEPT !.status = "DISABLED"] = [row[Cur] EXCEPT !.status = "DISABLED"]
    BY <1>6, <2>1 DEF EmailAddress
  <2> QED
    BY <1>12, <2>2 DEF Disabling
<1>19. \A v \in tasks' : TaskOff(v)'
  <2>1. \A v \in tasks' : v = u \/ TaskOff(v)
    BY <1>11 DEF Do, Off
  <2>2. HoldsCur(u)'
    BY <1>15 DEF HoldsCur
  <2>3. TaskOff(u)'
    BY <1>14, <2>2 DEF TaskOff, OffSteps
  <2>4. ASSUME NEW v, HoldsCur(v) PROVE HoldsCur(v)'
    BY <1>12, <1>18, <2>4 DEF HoldsCur
  <2>5. ASSUME NEW v, TaskOff(v) PROVE TaskOff(v)'
    BY <2>4, <2>5 DEF TaskOff
  <2> QED
    BY <2>1, <2>3, <2>5
<1>20. Entitled' = {}
  BY <1>13, SameRights DEF Off
<1>21. ~IsEnabled'
  BY <1>8, <1>12 DEF IsEnabled
<1>22. u \in tasks' /\ LeavesAll(u)' /\ Unsets(u)'
  BY <1>11, <1>14 DEF Do, LeavesAll, Unsets
<1>23. Off'
  BY <1>12, <1>17, <1>19, <1>20, <1>21, <1>22 DEF Off
<1>24. SessionInv'
  <2>1. \A v \in tasks' : v.q = t.q
    BY <1>2, <1>11, <1>14 DEF Do, SessionInv
  <2>2. username[t.q] = person.name /\ (HasRows <=> loaded[t.q] # <<>>) /\ (loaded[t.q] # <<>> => loaded[t.q][1] \in Known)
    BY <1>2 DEF SessionInv
  <2> QED
    BY <1>6, <1>12, <1>13, <2>1, <2>2 DEF SessionInv
<1>25. UserInv'
  BY <1>2, <1>13 DEF UserInv
<1> QED
  BY <1>12, <1>23, <1>24, <1>25 DEF Base

(* The user's groups are listed. *)
LEMMA OffListGroups ==
  ASSUME Here, Off, ~Fault, NEW t \in tasks, ListGroups(t) PROVE Off' /\ Base'
<1>1. t.at = "list" /\ t.for = "none" /\ t.ox = 1 /\ t \in Handlers
  BY TaskTyped DEF ListGroups, At, Off, TaskOff, Here
<1> DEFINE S == {s \in Schools : t.ox \in member[s]}
<1>2. Do(t, {[Goes(t, "leave") EXCEPT !.todo = S]}) /\ Same
  <2>1. Do(t, {[Goes(t, "leave") EXCEPT !.todo = S]}) /\ Nothing
    BY DEF ListGroups, Nothing
  <2> QED
    BY <2>1, NothingSame
<1>3. ~Disables(t) /\ ~Unsets(t)
  BY <1>1 DEF Disables, Unsets
<1>4. \A s \in Schools : 1 \in member[s] => s \in S
  BY <1>1
<1> HIDE DEF S
<1>5. PICK u : u = [Goes(t, "leave") EXCEPT !.todo = S]
  OBVIOUS
<1>6. u.at = "leave" /\ u.q = t.q /\ u.for = "none" /\ u.ox = 1 /\ u.todo = S
  BY <1>1, <1>5 DEF Goes, Handlers
<1>7. LeavesAll(u)
  BY <1>4, <1>6 DEF LeavesAll
<1>8. Do(t, {u}) /\ \A v \in {u} : TaskOff(v) /\ v.q = t.q
  BY <1>2, <1>5, <1>6 DEF TaskOff, OffSteps, HoldsCur
<1> QED
  BY <1>2, <1>3, <1>7, <1>8, OffGoesOn DEF Here

(* The user is taken out of a group. *)
LEMMA OffLeave ==
  ASSUME Here, Off, ~Fault, NEW t \in tasks, Leave(t) PROVE Off' /\ Base'
<1>1. t.at = "leave" /\ t.for = "none" /\ t \in Handlers /\ Typed /\ Base
  BY TaskTyped DEF Leave, At, Off, TaskOff, Here
<1>2. PICK s \in t.todo : Do(t, {[t EXCEPT !.todo = @ \ {s}]}) /\ member' = [member EXCEPT ![s] = @ \ {t.ox}]
  BY DEF Leave
<1>3. UNCHANGED <<row, order, person, schools, offers, oxUser, keycloak, loaded, username>>
  BY DEF Leave, table, copy
<1>4. PICK u : u = [t EXCEPT !.todo = @ \ {s}]
  OBVIOUS
<1>5. u.at = "leave" /\ u.for = "none" /\ u.q = t.q /\ u.ox = t.ox /\ u.todo = t.todo \ {s}
  BY <1>1, <1>4 DEF Handlers
<1>6. Do(t, {u})
  BY <1>2, <1>4
<1>7. \A r \in Schools : member'[r] \subseteq member[r] /\ (r = s => t.ox \notin member'[r])
  <2>1. member \in [Schools -> SUBSET OxIds]
    BY <1>1, TypedParts DEF OthersTyped
  <2> QED
    BY <1>2, <2>1
<1>8. Base'
  <2>1. \A r \in Schools : member'[r] \subseteq {1}
    BY <1>1, <1>7 DEF Base, UserInv
  <2> QED
    BY <1>1, <1>3, <1>5, <1>6, <2>1, BaseKept
<1>9. (Steady' <=> Steady) /\ Entitled' = Entitled
  BY <1>3, SteadyKept
<1>10. (HasRows' <=> HasRows) /\ (IsEnabled' <=> IsEnabled)
       /\ \A v : (HoldsCur(v)' <=> HoldsCur(v)) /\ (Disables(v)' <=> Disables(v))
  BY <1>3, SameTable
<1>11. MembersAre({}) => MembersAre({})'
  BY <1>7 DEF MembersAre
<1>12. \A v \in tasks' : TaskOff(v)'
  <2>1. TaskOff(u)
    BY <1>5 DEF TaskOff, OffSteps, HoldsCur
  <2>2. \A v \in tasks' : TaskOff(v)
    BY <1>6, <2>1 DEF Do, Off
  <2> QED
    BY <1>10, <2>2 DEF TaskOff
<1>13. IsEnabled' => \E v \in tasks' : Disables(v)'
  <2>1. ~Disables(t)
    BY <1>1 DEF Disables
  <2>2. IsEnabled => \E v \in tasks' : Disables(v)
    BY <1>6, <2>1 DEF Off, Do
  <2> QED
    BY <1>10, <2>2
<1>14. ASSUME NEW v, LeavesAll(v), v # t PROVE LeavesAll(v)'
  BY <1>7, <1>14 DEF LeavesAll
<1>15. LeavesAll(t) => LeavesAll(u)'
  <2>1. ASSUME LeavesAll(t) PROVE u.ox = 1 /\ \A r \in Schools : 1 \in member'[r] => r \in u.todo
    <3>1. t.ox = 1 /\ \A r \in Schools : 1 \in member[r] => r \in t.todo
      BY <1>1, <2>1 DEF LeavesAll
    <3> QED
      BY <1>5, <1>7, <3>1
  <2> QED
    BY <1>5, <2>1 DEF LeavesAll
<1>16. ~IsEnabled' => MembersAre({})' \/ \E v \in tasks' : LeavesAll(v)'
  BY <1>6, <1>10, <1>11, <1>14, <1>15 DEF Off, Do
<1>17. ~IsEnabled' => keycloak' # "set" \/ \E v \in tasks' : Unsets(v)'
  <2>1. ~Unsets(t)
    BY <1>1 DEF Unsets
  <2>2. ~IsEnabled => keycloak # "set" \/ \E v \in tasks' : Unsets(v)
    BY <1>6, <2>1 DEF Off, Do
  <2> QED
    BY <1>3, <1>10, <2>2 DEF Unsets
<1>18. Off'
  BY <1>3, <1>9, <1>10, <1>11, <1>12, <1>13, <1>16, <1>17 DEF Off
<1> QED
  BY <1>8, <1>18

(* All of the groups were left. *)
LEMMA OffLeaveDone ==
  ASSUME Here, Off, NEW t \in tasks, LeaveDone(t) PROVE Off' /\ Base'
<1>1. t.at = "leave" /\ t.for = "none" /\ t.todo = {}
  BY DEF LeaveDone, At, Off, TaskOff
<1>2. Do(t, {}) /\ Same
  <2>1. Do(t, {}) /\ Nothing
    BY <1>1 DEF LeaveDone, AfterGroups, Nothing
  <2> QED
    BY <2>1, NothingSame
<1>3. ~Disables(t) /\ ~Unsets(t)
  BY <1>1 DEF Disables, Unsets
<1>4. LeavesAll(t) => MembersAre({})
  BY <1>1 DEF LeavesAll, MembersAre
<1> QED
  BY <1>2, <1>3, <1>4, OffGoesOn DEF Here

(* The attribute is taken out of Keycloak. *)
LEMMA OffKeycloakUnset ==
  ASSUME Here, Off, ~Fault, NEW t \in tasks, KeycloakUnset(t) PROVE Off' /\ Base'
<1>1. t.at = "disabledInKeycloak" /\ Base
  BY DEF KeycloakUnset, At, Here
<1>2. Finds(t)
  BY DEF Here, Base, SessionInv, Finds
<1>3. Do(t, {}) /\ keycloak' = "unset"
  BY <1>2 DEF KeycloakUnset
<1>4. UNCHANGED <<row, order, person, schools, offers, oxUser, member, loaded, username>>
  BY DEF KeycloakUnset, table, copy, ox
<1>5. (Steady' <=> Steady) /\ Entitled' = Entitled
  BY <1>4, SteadyKept
<1>6. (HasRows' <=> HasRows) /\ (IsEnabled' <=> IsEnabled)
      /\ \A v : (HoldsCur(v)' <=> HoldsCur(v)) /\ (Disables(v)' <=> Disables(v))
  BY <1>4, SameTable
<1>7. (MembersAre({})' <=> MembersAre({})) /\ \A v : LeavesAll(v)' <=> LeavesAll(v)
  BY <1>4, SameGroups
<1>8. ~Disables(t) /\ ~LeavesAll(t)
  BY <1>1 DEF Disables, LeavesAll
<1>9. \A v \in tasks' : TaskOff(v)'
  BY <1>3, <1>6 DEF Do, Off, TaskOff
<1>10. IsEnabled' => \E v \in tasks' : Disables(v)'
  BY <1>3, <1>6, <1>8 DEF Do, Off
<1>11. ~IsEnabled' => MembersAre({})' \/ \E v \in tasks' : LeavesAll(v)'
  BY <1>3, <1>6, <1>7, <1>8 DEF Do, Off
<1>12. Off'
  BY <1>3, <1>5, <1>6, <1>7, <1>9, <1>10, <1>11 DEF Off
<1>13. Base'
  BY <1>1, <1>3, <1>4, BaseKept DEF Base, UserInv
<1> QED
  BY <1>12, <1>13

-----------------------------------------------------------------------------
(* A Rolle gives a right to the address there is                           *)

(* Whoever goes on takes over what the handler had yet to do. *)
LEMMA OnGoesOn ==
  ASSUME Base, On, Same, NEW t, NEW T, Do(t, T), \A u \in T : TaskOn(u) /\ u.q = t.q,
         t.at # "keycloakSet",
         row[Cur].status # "ENABLED" /\ Enables(t) => \E u \in T : Enables(u),
         \A s \in Entitled : Joins(t, s) => 1 \in member[s] \/ \E u \in T : Joins(u, s),
         \A s \in Schools \ Entitled : 1 \in member[s] /\ Leaves(t, s) => \E u \in T : Leaves(u, s)
  PROVE  On' /\ Base'
<1>1. t \in tasks /\ tasks' = (tasks \ {t}) \union T
  BY DEF Do
<1>2. /\ Entitled' = Entitled /\ (Steady' <=> Steady) /\ (HasRows' <=> HasRows) /\ Cur' = Cur
      /\ MembersAre({})' <=> MembersAre({})
      /\ keycloak' = keycloak /\ row' = row /\ member' = member
      /\ \A u : TaskOn(u)' <=> TaskOn(u)
  BY SameTable, SameGroups, SameRights, SameState DEF Same
<1>3. \A u \in tasks' : TaskOn(u)'
  BY <1>1, <1>2 DEF On
<1>4. row[Cur].status = "ENABLED" \/ \E u \in tasks' : Enables(u)
  BY <1>1 DEF On
<1>5. keycloak = "set" \/ MembersAre({}) \/ \E u \in tasks' : u.at = "keycloakSet"
  BY <1>1 DEF On
<1>6. \A s \in Entitled : 1 \in member[s] \/ \E u \in tasks' : Joins(u, s)
  BY <1>1 DEF On
<1>7. \A s \in Schools \ Entitled : 1 \in member[s] => \E u \in tasks' : Leaves(u, s)
  BY <1>1 DEF On
<1>8. On'
  <2>1. Entitled' # {} /\ HasRows' /\ Steady'
    BY <1>2 DEF On
  <2>2. row'[Cur'].status = "ENABLED" \/ \E u \in tasks' : Enables(u)'
    BY <1>2, <1>4 DEF Enables
  <2>3. keycloak' = "set" \/ MembersAre({})' \/ \E u \in tasks' : u.at = "keycloakSet"
    BY <1>2, <1>5
  <2>4. \A s \in Entitled' : 1 \in member'[s] \/ \E u \in tasks' : Joins(u, s)'
    BY <1>2, <1>6 DEF Joins
  <2>5. \A s \in Schools \ Entitled' : 1 \in member'[s] => \E u \in tasks' : Leaves(u, s)'
    BY <1>2, <1>7 DEF Leaves
  <2> QED
    BY <1>3, <2>1, <2>2, <2>3, <2>4, <2>5 DEF On
<1>9. Base'
  BY BaseGoesOn
<1> QED
  BY <1>8, <1>9

(* Every handler is one of those. *)
LEMMA OnTask ==
  ASSUME Here, On, NEW t \in tasks
  PROVE  t \in Handlers /\ TaskOn(t) /\ HasRows /\ Cur \in Known /\ Cur \in Slots /\ Cur # 0
         /\ row[Cur] \in EmailAddress /\ row[Cur].ox = 1 /\ row[Cur].status \in {"ENABLED", "DISABLED"}
         /\ Entitled \subseteq Schools /\ Entitled = schools /\ OxUserId(t.q) = 1
<1>1. Typed /\ TableInv /\ SessionInv
  BY DEF Here, Base
<1>2. t \in Handlers /\ TaskOn(t) /\ HasRows
  BY <1>1, TaskTyped DEF On
<1>3. Cur \in Known /\ Cur \in Slots /\ Cur # 0 /\ row[Cur] \in EmailAddress
  BY <1>1, <1>2, KnownRows
<1>4. row[Cur].ox = 1 /\ row[Cur].status \in {"ENABLED", "DISABLED"}
  BY <1>3 DEF On, Steady
<1>5. Entitled \subseteq Schools /\ Entitled = schools
  BY <1>1, TypedParts DEF On, Entitled, OthersTyped
<1>6. OxUserId(t.q) = 1
  BY <1>1, <1>2, UserKnown DEF On, Steady
<1> QED
  BY <1>2, <1>3, <1>4, <1>5, <1>6

(* The schools with a right are those to go through. *)
LEMMA OnHandlePerson ==
  ASSUME Here, On, NEW t \in tasks, HandlePerson(t) PROVE On' /\ Base'
<1>1. t.at = "person" /\ t.school = {}
  BY OnTask DEF HandlePerson, At, TaskOn, Stays
<1>2. Do(t, {[Task(t.q, "school") EXCEPT !.todo = Entitled]}) /\ Same
  <2>1. (IF offers /\ person.exists THEN schools \ t.school ELSE {}) = Entitled /\ Entitled # {}
    BY <1>1 DEF Entitled, On
  <2>2. Do(t, {[Task(t.q, "school") EXCEPT !.todo = Entitled]}) /\ Nothing
    BY <2>1 DEF HandlePerson, Nothing
  <2> QED
    BY <2>2, NothingSame
<1>3. PICK w : w = Task(t.q, "school")
  OBVIOUS
<1>4. PICK u : u = [w EXCEPT !.todo = Entitled]
  OBVIOUS
<1>5. "school" \in Places
  BY DEF Places
<1>6. w \in Handlers /\ w.at = "school" /\ w.q = t.q
  BY <1>3, <1>5, Started DEF Here
<1>7. u.at = "school" /\ u.q = t.q /\ u.todo = Entitled
  BY <1>4, <1>6 DEF Handlers
<1>8. TaskOn(u) /\ Enables(u) /\ \A s \in Entitled : Joins(u, s)
  BY <1>7 DEF TaskOn, On, Enables, Joins
<1>9. \A s : ~Leaves(t, s)
  BY <1>1 DEF Leaves
<1>10. Do(t, {u}) /\ \A v \in {u} : TaskOn(v) /\ v.q = t.q
  BY <1>2, <1>3, <1>4, <1>7, <1>8
<1> QED
  BY <1>1, <1>2, <1>8, <1>9, <1>10, OnGoesOn DEF Here

(* The loop over the schools goes on with those left. *)
LEMMA LoopOn ==
  ASSUME Typed, NEW t, t.q \in Sessions, t.todo \subseteq Entitled
  PROVE  /\ \A u \in Loop(t) : TaskOn(u) /\ u.q = t.q
         /\ \A s \in t.todo : \E u \in Loop(t) : Joins(u, s)
<1>1. PICK w : w = Task(t.q, "school")
  OBVIOUS
<1>2. PICK u : u = [w EXCEPT !.todo = t.todo]
  OBVIOUS
<1>3. "school" \in Places
  BY DEF Places
<1>4. w \in Handlers /\ w.at = "school" /\ w.q = t.q
  BY <1>1, <1>3, TaskShaped
<1>5. u.at = "school" /\ u.q = t.q /\ u.todo = t.todo
  BY <1>2, <1>4 DEF Handlers
<1>6. Loop(t) = IF t.todo = {} THEN {} ELSE {u}
  BY <1>1, <1>2 DEF Loop
<1> QED
  BY <1>5, <1>6 DEF TaskOn, Joins

(* The address is enabled already, or to be enabled. *)
LEMMA OnCreateOrEnable ==
  ASSUME Here, On, NEW t \in tasks, CreateOrEnable(t) PROVE On' /\ Base'
<1>1. t.at = "school" /\ t.todo \subseteq Entitled /\ t.todo # {} /\ t \in Handlers /\ Entitled \subseteq Schools
  BY OnTask DEF CreateOrEnable, At, TaskOn, Stays
<1>2. /\ Cur \in Slots /\ Cur # 0 /\ row[Cur] \in EmailAddress /\ row[Cur].status \in {"ENABLED", "DISABLED"}
      /\ Typed /\ TableInv /\ person.exists /\ HasRows
  BY OnTask DEF Here, Base
<1>3. Newest({"ENABLED", "DISABLED"}) = Cur
  BY <1>2, NewestIs
<1>4. Addresses # <<>>
  BY <1>2 DEF Addresses, HasRows
<1>5. Same
  <2>1. Nothing
    BY DEF CreateOrEnable, Nothing
  <2> QED
    BY <2>1, NothingSame
<1>6. PICK s \in t.todo :
        LET next == [t EXCEPT !.school = {s}, !.todo = @ \ {s}]
            goes == CASE Cur = 0 -> {Saves(next, "generate", "create")}
                      [] Cur # 0 /\ row[Cur].status = "ENABLED" -> Loop(next)
                      [] Cur # 0 /\ row[Cur].status = "DISABLED" ->
                           {Holding(Saves(next, "save", "enable"), Cur, [row[Cur] EXCEPT !.status = "ENABLED"])}
        IN Do(t, goes \union {[Task(t.q, "alreadyExists") EXCEPT !.school = {s}]})
  BY <1>3, <1>4 DEF CreateOrEnable
<1>7. PICK n : n = [t EXCEPT !.school = {s}, !.todo = @ \ {s}]
  OBVIOUS
<1>8. n \in Handlers /\ n.q = t.q /\ n.todo = t.todo \ {s} /\ n.todo \subseteq Entitled
  BY <1>1, <1>7 DEF Handlers
<1>9. PICK w : w = Task(t.q, "alreadyExists")
  OBVIOUS
<1>10. PICK e : e = [w EXCEPT !.school = {s}]
  OBVIOUS
<1>11. e.at = "alreadyExists" /\ e.q = t.q /\ e.school = {s} /\ e.held = <<>>
  <2>1. "alreadyExists" \in Places
    BY DEF Places
  <2>2. w \in Handlers /\ w.at = "alreadyExists" /\ w.q = t.q /\ w.held = <<>>
    BY <1>9, <2>1, Started DEF Here
  <2> QED
    BY <1>10, <2>2 DEF Handlers
<1>12. TaskOn(e) /\ Joins(e, s)
  BY <1>1, <1>11 DEF TaskOn, Joins
<1>13. \A r : ~Leaves(t, r)
  BY <1>1 DEF Leaves
<1>14. \A r : Joins(t, r) => r \in t.todo
  BY <1>1 DEF Joins
<1>15. CASE row[Cur].status = "ENABLED"
  <2> DEFINE T == Loop(n) \union {e}
  <2>1. Do(t, T)
    BY <1>2, <1>6, <1>7, <1>9, <1>10, <1>15
  <2>2. /\ \A u \in Loop(n) : TaskOn(u) /\ u.q = t.q
        /\ \A r \in n.todo : \E u \in Loop(n) : Joins(u, r)
    <3>1. n.q \in Sessions
      BY <1>8 DEF Handlers
    <3> QED
      BY <1>2, <1>8, <3>1, LoopOn
  <2>3. \A u \in T : TaskOn(u) /\ u.q = t.q
    BY <1>11, <1>12, <2>2
  <2>4. \A r : Joins(t, r) => \E u \in T : Joins(u, r)
    BY <1>8, <1>12, <1>14, <2>2
  <2> HIDE DEF T
  <2> QED
    BY <1>1, <1>5, <1>13, <1>15, <2>1, <2>3, <2>4, OnGoesOn DEF Here
<1>16. CASE row[Cur].status = "DISABLED"
  <2>1. PICK m : m = [row[Cur] EXCEPT !.status = "ENABLED"]
    OBVIOUS
  <2>2. PICK x : x = Saves(n, "save", "enable")
    OBVIOUS
  <2>3. PICK u : u = Holding(x, Cur, m)
    OBVIOUS
  <2>4. x.at = "save" /\ x.for = "enable" /\ x.q = t.q /\ x.todo = n.todo /\ x \in Handlers
    BY <1>8, <2>2 DEF Saves, Handlers, Places, Purposes
  <2>5. u.at = "save" /\ u.for = "enable" /\ u.q = t.q /\ u.todo = n.todo
        /\ DOMAIN u.held = {Cur} /\ u.held[Cur] = m
    BY <2>3, <2>4 DEF Holding, Handlers
  <2>6. Do(t, {u, e})
    <3>1. Do(t, {u} \union {e})
      BY <1>2, <1>6, <1>7, <1>9, <1>10, <1>16, <2>1, <2>2, <2>3
    <3>2. {u} \union {e} = {u, e}
      OBVIOUS
    <3> QED
      BY <3>1, <3>2
  <2>7. TaskOn(u) /\ Enables(u)
    BY <1>8, <2>1, <2>5 DEF TaskOn, Enables, Holds, Enabling
  <2>8. \A r \in n.todo : Joins(u, r)
    BY <2>5 DEF Joins
  <2>9. \A v \in {u, e} : TaskOn(v) /\ v.q = t.q
    BY <1>11, <1>12, <2>5, <2>7
  <2>10. \A r : Joins(t, r) => \E v \in {u, e} : Joins(v, r)
    BY <1>8, <1>12, <1>14, <2>8
  <2>11. \E v \in {u, e} : Enables(v)
    BY <2>7
  <2> QED
    BY <1>1, <1>5, <1>13, <2>6, <2>9, <2>10, <2>11, OnGoesOn DEF Here
<1> QED
  BY <1>2, <1>15, <1>16

(* The address is to be written, or is enabled meanwhile. *)
LEMMA OnCheckSave ==
  ASSUME Here, On, NEW t \in tasks, CheckSave(t) PROVE On' /\ Base'
<1>1. t.at = "save" /\ t.for = "enable" /\ t.todo \subseteq Entitled /\ Holds(t, Cur, Enabling(Cur)) /\ t \in Handlers
  BY OnTask DEF CheckSave, At, TaskOn, Stays
<1>2. Same
  <2>1. Nothing
    BY DEF CheckSave, Nothing
  <2> QED
    BY <2>1, NothingSame
<1>3. \A s : (Joins(t, s) => s \in t.todo) /\ ~Leaves(t, s)
  BY <1>1 DEF Joins, Leaves
<1>4. CASE Enabled = {}
  <2>1. PICK u : u = Goes(t, "write")
    OBVIOUS
  <2>2. u.at = "write" /\ u.for = "enable" /\ u.q = t.q /\ u.todo = t.todo /\ u.held = t.held
    BY <1>1, <2>1 DEF Goes, Handlers
  <2>3. Do(t, {u})
    BY <1>4, <2>1 DEF CheckSave
  <2>4. TaskOn(u) /\ Enables(u) /\ \A s \in t.todo : Joins(u, s)
    BY <1>1, <2>2 DEF TaskOn, Enables, Joins, Holds
  <2>5. \A v \in {u} : TaskOn(v) /\ v.q = t.q
    BY <2>2, <2>4
  <2> QED
    BY <1>1, <1>2, <1>3, <2>3, <2>4, <2>5, OnGoesOn DEF Here
<1>5. CASE Enabled # {}
  <2>1. Do(t, Loop(t))
    BY <1>1, <1>5 DEF CheckSave, AfterRefused
  <2>2. row[Cur].status = "ENABLED"
    <3>1. PICK a \in Slots : row[a].status = "ENABLED"
      BY <1>5 DEF Enabled
    <3>2. a \in Known
      BY <3>1 DEF Here, Base, TableInv, NoRow
    <3> QED
      BY <3>1, <3>2 DEF On, Steady
  <2>3. t.q \in Sessions
    BY <1>1 DEF Handlers
  <2>4. /\ \A u \in Loop(t) : TaskOn(u) /\ u.q = t.q
        /\ \A s \in t.todo : \E u \in Loop(t) : Joins(u, s)
    BY <1>1, <2>3, LoopOn DEF Here
  <2>5. PICK T : T = Loop(t)
    OBVIOUS
  <2> QED
    BY <1>1, <1>2, <1>3, <2>1, <2>2, <2>4, <2>5, OnGoesOn DEF Here
<1> QED
  BY <1>4, <1>5

(* What is held of the one row. *)
LEMMA HoldsHeld ==
  ASSUME NEW t, NEW a, NEW m, Holds(t, a, m)
  PROVE  Held(t) = a /\ t.held[a] = m
BY DEF Holds, Held

(* The session of a handler goes on after the current row was written. *)
LEMMA SessionWritten ==
  ASSUME SessionInv, HasRows, HasRows', Known' = Known, UNCHANGED <<loaded, username, person>>,
         NEW t \in tasks, \A u \in tasks' : u.q = t.q
  PROVE  SessionInv'
<1>1. username[t.q] = person.name /\ (HasRows <=> loaded[t.q] # <<>>) /\ (loaded[t.q] # <<>> => loaded[t.q][1] \in Known)
  BY DEF SessionInv
<1> QED
  BY <1>1 DEF SessionInv

(* The current address is enabled. *)
LEMMA OnWrite ==
  ASSUME Here, On, NEW t \in tasks, Write(t) PROVE On' /\ Base'
<1>1. t.at = "write" /\ t.for = "enable" /\ t.todo \subseteq Entitled /\ Holds(t, Cur, Enabling(Cur)) /\ t \in Handlers
  BY OnTask DEF Write, At, TaskOn, Stays
<1>2. /\ Cur \in Slots /\ Cur # 0 /\ row[Cur] \in EmailAddress /\ row[Cur].ox = 1 /\ Cur \in Known
      /\ Typed /\ TableInv /\ SessionInv /\ UserInv /\ person.exists /\ HasRows /\ t.q \in Sessions
  BY <1>1, OnTask DEF Here, Base, Handlers
<1>3. PICK m : m = Enabling(Cur)
  OBVIOUS
<1>4. m \in EmailAddress /\ m.text = row[Cur].text /\ m.ox = 1 /\ m.status = "ENABLED"
  BY <1>2, <1>3 DEF Enabling, EmailAddress, EmailAddressStatus
<1>5. Held(t) = Cur /\ t.held[Cur] = m
  BY <1>1, <1>3, HoldsHeld
<1>6. CanWrite(Cur, m)
  BY <1>2, <1>4, CanWriteCur
<1>7. Update(Cur, m) /\ Do(t, AfterSaved(t))
  BY <1>2, <1>5, <1>6 DEF Write
<1>8. PICK g : g = [Task(t.q, "create") EXCEPT !.school = t.school]
  OBVIOUS
<1>9. g.at = "create" /\ g.q = t.q
  <2>1. PICK w : w = Task(t.q, "create")
    OBVIOUS
  <2>2. "create" \in Places
    BY DEF Places
  <2>3. w \in Handlers /\ w.at = "create" /\ w.q = t.q
    BY <1>2, <2>1, <2>2, Started
  <2> QED
    BY <1>8, <2>1, <2>3 DEF Handlers
<1> DEFINE T == Loop(t) \union {g}
<1>10. Do(t, T)
  <2>1. AfterSaved(t) = T
    BY <1>1, <1>8 DEF AfterSaved, Generated
  <2> QED
    BY <1>7, <2>1
<1>11. /\ \A u \in Loop(t) : TaskOn(u) /\ u.q = t.q
       /\ \A s \in t.todo : \E u \in Loop(t) : Joins(u, s)
  BY <1>1, <1>2, LoopOn
<1>12. \A u \in T : TaskOn(u) /\ u.q = t.q
  BY <1>9, <1>11 DEF TaskOn
<1>13. \A s \in t.todo : \E u \in T : Joins(u, s)
  BY <1>11
<1> HIDE DEF T
<1>14. /\ TableInv' /\ HasRows' /\ Cur' = Cur /\ Known' = Known /\ UNCHANGED loaded
       /\ row'[Cur] = m /\ \A b \in Slots : b # Cur => row'[b] = row[b]
  BY <1>2, <1>4, <1>7, CurWritten
<1>15. UNCHANGED <<person, schools, offers, oxUser, member, keycloak, username>>
  BY DEF Write, ox
<1>16. \A b \in Known : b \in Slots
  BY DEF Known
<1>17. Steady'
  <2>1. \A b \in Known : row'[b].ox = 1 /\ row'[b].status \in {"ENABLED", "DISABLED"} /\ (row'[b].status = "ENABLED" => b = Cur)
    BY <1>4, <1>14, <1>16 DEF On, Steady
  <2>2. HasUser' <=> HasUser
    BY <1>15 DEF HasUser
  <2>3. row'[Cur].text = row[Cur].text
    BY <1>4, <1>14
  <2> QED
    BY <1>2, <1>14, <1>15, <2>1, <2>2, <2>3 DEF On, Steady
<1>18. Entitled' = Entitled /\ \A v : Stays(v)' <=> Stays(v)
  BY <1>15, SameRights
<1>19. Enabling(Cur)' = Enabling(Cur)
  <2>1. row'[Cur] = [row[Cur] EXCEPT !.status = "ENABLED"]
    BY <1>3, <1>14 DEF Enabling
  <2>2. [row'[Cur] EXCEPT !.status = "ENABLED"] = [row[Cur] EXCEPT !.status = "ENABLED"]
    BY <1>2, <2>1 DEF EmailAddress
  <2> QED
    BY <1>14, <2>2 DEF Enabling
<1>20. \A v \in tasks' : TaskOn(v)'
  <2>1. \A v \in tasks' : TaskOn(v)
    BY <1>10, <1>12 DEF Do, On
  <2>2. ASSUME NEW v, TaskOn(v) PROVE TaskOn(v)'
    BY <1>14, <1>18, <1>19, <2>2 DEF TaskOn, Holds
  <2> QED
    BY <2>1, <2>2
<1>21. t.at # "keycloakSet" /\ \A s : (Joins(t, s) => s \in t.todo) /\ ~Leaves(t, s)
  BY <1>1 DEF Joins, Leaves
<1>22. keycloak' = "set" \/ MembersAre({})' \/ \E v \in tasks' : v.at = "keycloakSet"
  <2>1. MembersAre({})' <=> MembersAre({})
    BY <1>15, SameGroups
  <2>2. keycloak = "set" \/ MembersAre({}) \/ \E v \in tasks' : v.at = "keycloakSet"
    BY <1>10, <1>21 DEF On, Do
  <2> QED
    BY <1>15, <2>1, <2>2
<1>23. \A s \in Entitled : 1 \in member[s] \/ \E v \in tasks' : Joins(v, s)
  BY <1>10, <1>13, <1>21 DEF On, Do
<1>24. \A s \in Schools \ Entitled : 1 \in member[s] => \E v \in tasks' : Leaves(v, s)
  BY <1>10, <1>21 DEF On, Do
<1>25. On'
  <2>1. \A s \in Entitled' : 1 \in member'[s] \/ \E v \in tasks' : Joins(v, s)'
    BY <1>15, <1>18, <1>23 DEF Joins
  <2>2. \A s \in Schools \ Entitled' : 1 \in member'[s] => \E v \in tasks' : Leaves(v, s)'
    BY <1>15, <1>18, <1>24 DEF Leaves
  <2>3. row'[Cur'].status = "ENABLED" /\ Entitled' # {}
    BY <1>4, <1>14, <1>18 DEF On
  <2> QED
    BY <1>14, <1>17, <1>20, <1>22, <2>1, <2>2, <2>3 DEF On
<1>26. SessionInv'
  <2>1. \A u \in tasks' : u.q = t.q
    BY <1>2, <1>10, <1>12 DEF Do, SessionInv
  <2> QED
    BY <1>2, <1>14, <1>15, <2>1, SessionWritten
<1>27. UserInv'
  BY <1>2, <1>15 DEF UserInv
<1> QED
  BY <1>14, <1>25, <1>26, <1>27 DEF Base

(* The user of OX is known, and joins the group. *)
LEMMA OnAlreadyExists ==
  ASSUME Here, On, NEW t \in tasks, AlreadyExists(t) PROVE On' /\ Base'
<1>1. t.at = "alreadyExists" /\ t.school \subseteq Entitled /\ t.held = <<>> /\ t \in Handlers /\ OxUserId(t.q) = 1
  BY OnTask DEF AlreadyExists, At, TaskOn, Stays
<1> DEFINE text == EmailOf(loaded[t.q])
<1>2. Same
  <2>1. Nothing
    BY DEF AlreadyExists, Nothing
  <2> QED
    BY <2>1, NothingSame
<1>3. Do(t, {[Goes(t, "join") EXCEPT !.ox = 1, !.text = text]})
  BY <1>1 DEF AlreadyExists, Here
<1> HIDE DEF text
<1>4. PICK u : u = [Goes(t, "join") EXCEPT !.ox = 1, !.text = text]
  OBVIOUS
<1>5. u.at = "join" /\ u.school = t.school /\ u.held = <<>> /\ u.ox = 1 /\ u.q = t.q
  BY <1>1, <1>4 DEF Goes, Handlers
<1>6. TaskOn(u)
  BY <1>1, <1>5 DEF TaskOn
<1>7. ~Enables(t) /\ \A s : (Joins(t, s) => Joins(u, s)) /\ ~Leaves(t, s)
  BY <1>1, <1>5 DEF Enables, Joins, Leaves
<1>8. Do(t, {u}) /\ \A v \in {u} : TaskOn(v) /\ v.q = t.q
  BY <1>3, <1>4, <1>5, <1>6
<1>9. \A s : Joins(t, s) => \E v \in {u} : Joins(v, s)
  BY <1>7
<1> QED
  BY <1>1, <1>2, <1>7, <1>8, <1>9, OnGoesOn DEF Here

(* A handler that has nothing to do, or only what others do not wait for. *)
LEMMA OnEnds ==
  ASSUME Here, On, Same, NEW t \in tasks, Do(t, {}), t.at \in {"create", "confirm", "join", "leave"},
         t.at = "leave" => t.todo = {},
         t.at = "join" => \E s \in t.school : 1 \in member[s]
  PROVE  On' /\ Base'
<1>1. t.at # "keycloakSet" /\ ~Enables(t)
  BY DEF Enables
<1>2. \A s : ~Leaves(t, s)
  BY DEF Leaves
<1>3. \A s : Joins(t, s) => 1 \in member[s]
  BY DEF Joins
<1> QED
  BY <1>1, <1>2, <1>3, OnGoesOn DEF Here

(* No address is to be made up. *)
LEMMA OnNoneRequested ==
  ASSUME Here, On PROVE Newest({"REQUESTED"}) = 0
<1>1. \A a \in Known : row[a].status \notin {"REQUESTED"}
  BY DEF On, Steady
<1> QED
  BY <1>1, NewestIs DEF Here, Base

(* There is no address to create a user for. *)
LEMMA OnCreateRead ==
  ASSUME Here, On, NEW t \in tasks, CreateRead(t) PROVE On' /\ Base'
<1>1. Do(t, {}) /\ Nothing /\ t.at = "create"
  BY OnNoneRequested DEF CreateRead, Nothing, At
<1> QED
  BY <1>1, NothingSame, OnEnds

(* There is no address to confirm. *)
LEMMA OnConfirm ==
  ASSUME Here, On, NEW t \in tasks, Confirm(t) PROVE On' /\ Base'
<1>1. Do(t, {}) /\ Nothing /\ t.at = "confirm"
  BY OnNoneRequested DEF Confirm, Nothing, At
<1> QED
  BY <1>1, NothingSame, OnEnds

(* The user has left the groups. *)
LEMMA OnLeaveDone ==
  ASSUME Here, On, NEW t \in tasks, LeaveDone(t) PROVE On' /\ Base'
<1>1. t.at = "leave" /\ t.todo = {} /\ t.for = "none"
  BY OnTask DEF LeaveDone, At, TaskOn, Stays
<1>2. Do(t, {}) /\ Nothing
  BY <1>1 DEF LeaveDone, AfterGroups, Nothing
<1> QED
  BY <1>1, <1>2, NothingSame, OnEnds

(* The schools to leave are those that give no right. *)
LEMMA OnLeaveRead ==
  ASSUME Here, On, NEW t \in tasks, LeaveRead(t) PROVE On' /\ Base'
<1>1. t.at = "leaveRead" /\ t.for = "none" /\ t.school \intersect Entitled = {} /\ t \in Handlers /\ OxUserId(t.q) = 1
  BY OnTask DEF LeaveRead, At, TaskOn, Stays
<1>2. Do(t, {[Goes(t, "leave") EXCEPT !.ox = 1, !.todo = t.school]}) /\ Same
  <2>1. Do(t, {[Goes(t, "leave") EXCEPT !.ox = 1, !.todo = t.school]}) /\ Nothing
    BY <1>1 DEF LeaveRead, Nothing, Here
  <2> QED
    BY <2>1, NothingSame
<1>3. PICK u : u = [Goes(t, "leave") EXCEPT !.ox = 1, !.todo = t.school]
  OBVIOUS
<1>4. u.at = "leave" /\ u.for = "none" /\ u.q = t.q /\ u.ox = 1 /\ u.todo = t.school
  BY <1>1, <1>3 DEF Goes, Handlers
<1>5. TaskOn(u) /\ \A s : Leaves(t, s) => Leaves(u, s)
  BY <1>1, <1>4 DEF TaskOn, Stays, Leaves
<1>6. ~Enables(t) /\ \A s : ~Joins(t, s)
  BY <1>1 DEF Enables, Joins
<1>7. Do(t, {u}) /\ \A v \in {u} : TaskOn(v) /\ v.q = t.q
  BY <1>2, <1>3, <1>4, <1>5
<1>8. \A s : Leaves(t, s) => \E v \in {u} : Leaves(v, s)
  BY <1>5
<1> QED
  BY <1>1, <1>2, <1>6, <1>7, <1>8, OnGoesOn DEF Here

(* The attribute is written to Keycloak. *)
LEMMA OnKeycloakSet ==
  ASSUME Here, On, ~Fault, NEW t \in tasks, KeycloakSet(t) PROVE On' /\ Base'
<1>1. t.at = "keycloakSet" /\ Base /\ t.q \in Sessions
  BY TaskTyped DEF KeycloakSet, At, Here
<1>2. Finds(t)
  BY DEF Here, Base, SessionInv, Finds
<1>3. keycloak' = "set" /\ Do(t, {[Task(t.q, "confirm") EXCEPT !.ox = t.ox, !.text = t.text]})
  BY <1>2 DEF KeycloakSet
<1>4. UNCHANGED <<row, order, person, schools, offers, oxUser, member, loaded, username>>
  BY DEF KeycloakSet, table, copy, ox
<1>5. PICK w : w = Task(t.q, "confirm")
  OBVIOUS
<1>6. PICK u : u = [w EXCEPT !.ox = t.ox, !.text = t.text]
  OBVIOUS
<1>7. u.at = "confirm" /\ u.q = t.q
  <2>1. "confirm" \in Places
    BY DEF Places
  <2>2. w \in Handlers /\ w.at = "confirm" /\ w.q = t.q
    BY <1>5, <2>1, Started DEF Here
  <2> QED
    BY <1>6, <2>2 DEF Handlers
<1>8. Do(t, {u})
  BY <1>3, <1>5, <1>6
<1>9. (Steady' <=> Steady) /\ Entitled' = Entitled /\ \A v : Stays(v)' <=> Stays(v)
  BY <1>4, SteadyKept, SameRights
<1>10. (HasRows' <=> HasRows) /\ Cur' = Cur /\ \A a : Enabling(a)' = Enabling(a)
  BY <1>4, SameTable
<1>11. \A v \in tasks' : TaskOn(v)'
  <2>1. \A v \in tasks' : TaskOn(v)
    BY <1>7, <1>8 DEF Do, On, TaskOn
  <2> QED
    BY <1>9, <1>10, <2>1 DEF TaskOn, Holds
<1>12. ~Enables(t) /\ \A s : ~Joins(t, s) /\ ~Leaves(t, s)
  BY <1>1 DEF Enables, Joins, Leaves
<1>13. On'
  <2>1. row'[Cur'].status = "ENABLED" \/ \E v \in tasks' : Enables(v)'
    BY <1>4, <1>8, <1>10, <1>12 DEF On, Do, Enables
  <2>2. \A s \in Entitled' : 1 \in member'[s] \/ \E v \in tasks' : Joins(v, s)'
    BY <1>4, <1>8, <1>9, <1>12 DEF On, Do, Joins
  <2>3. \A s \in Schools \ Entitled' : 1 \in member'[s] => \E v \in tasks' : Leaves(v, s)'
    BY <1>4, <1>8, <1>9, <1>12 DEF On, Do, Leaves
  <2> QED
    BY <1>3, <1>9, <1>10, <1>11, <2>1, <2>2, <2>3 DEF On
<1>14. Base'
  <2>1. \A v \in {u} : v.q = t.q
    BY <1>7
  <2>2. \A s \in Schools : member'[s] \subseteq {1}
    BY <1>1, <1>4 DEF Base, UserInv
  <2> QED
    BY <1>1, <1>4, <1>8, <2>1, <2>2, BaseKept
<1> QED
  BY <1>13, <1>14

(* The user joins a group. *)
LEMMA OnJoin ==
  ASSUME Here, On, ~Fault, NEW t \in tasks, Join(t) PROVE On' /\ Base'
<1>1. t.at = "join" /\ t.school \subseteq Entitled /\ t.held = <<>> /\ t.ox = 1 /\ t \in Handlers /\ Entitled \subseteq Schools
  BY OnTask DEF Join, At, TaskOn, Stays
<1>2. Typed /\ Base /\ UserInv /\ t.q \in Sessions
  BY <1>1 DEF Here, Base, Handlers
<1>3. PICK u : u = [Saves(Task(t.q, "keycloakSet"), "keycloakSet", "confirm") EXCEPT !.ox = t.ox, !.text = t.text]
  OBVIOUS
<1>4. PICK s \in t.school :
        \/ member' = [member EXCEPT ![s] = @ \union {1}] /\ Do(t, {u})
        \/ 1 \in member[s] /\ Do(t, {}) /\ UNCHANGED member
  <2>1. PICK s \in t.school :
          \/ /\ member' = [member EXCEPT ![s] = @ \union {t.ox}]
             /\ Do(t, {[Saves(Task(t.q, "keycloakSet"), "keycloakSet", "confirm")
                          EXCEPT !.ox = t.ox, !.text = t.text]})
          \/ /\ IF t.ox \in member[s] THEN UNCHANGED trouble ELSE Fault
             /\ Do(t, IF t.held = <<>> THEN {} ELSE Failed(t))
             /\ UNCHANGED member
    BY DEF Join
  <2> QED
    BY <1>1, <1>3, <2>1
<1>5. UNCHANGED <<row, order, person, schools, offers, oxUser, keycloak, loaded, username>>
  BY DEF Join, table, copy
<1>6. u.at = "keycloakSet" /\ u.q = t.q
  <2>1. PICK w : w = Task(t.q, "keycloakSet")
    OBVIOUS
  <2>2. "keycloakSet" \in Places
    BY DEF Places
  <2>3. w \in Handlers /\ w.at = "keycloakSet" /\ w.q = t.q
    BY <1>2, <2>1, <2>2, Started
  <2>4. PICK x : x = Saves(w, "keycloakSet", "confirm")
    OBVIOUS
  <2>5. x \in Handlers /\ x.at = "keycloakSet" /\ x.q = t.q
    BY <2>2, <2>3, <2>4 DEF Saves, Handlers, Purposes
  <2> QED
    BY <1>3, <2>1, <2>4, <2>5 DEF Handlers
<1>7. CASE 1 \in member[s] /\ Do(t, {}) /\ UNCHANGED member
  BY <1>1, <1>5, <1>7, OnEnds DEF Same
<1>8. CASE member' = [member EXCEPT ![s] = @ \union {1}] /\ Do(t, {u})
  <2>1. s \in Schools /\ s \in Entitled
    BY <1>1
  <2>2. member'[s] = member[s] \union {1} /\ \A r \in Schools : r # s => member'[r] = member[r]
    <3>1. member \in [Schools -> SUBSET OxIds]
      BY <1>2, TypedParts DEF OthersTyped
    <3> QED
      BY <1>8, <2>1, <3>1
  <2>3. (Steady' <=> Steady) /\ Entitled' = Entitled /\ \A v : Stays(v)' <=> Stays(v)
    BY <1>5, SteadyKept, SameRights
  <2>4. (HasRows' <=> HasRows) /\ Cur' = Cur /\ \A a : Enabling(a)' = Enabling(a)
    BY <1>5, SameTable
  <2>5. \A v \in tasks' : TaskOn(v)'
    <3>1. \A v \in tasks' : TaskOn(v)
      BY <1>6, <1>8 DEF Do, On, TaskOn
    <3> QED
      BY <2>3, <2>4, <3>1 DEF TaskOn, Holds
  <2>6. ~Enables(t) /\ \A r : ~Leaves(t, r)
    BY <1>1 DEF Enables, Leaves
  <2>7. row'[Cur'].status = "ENABLED" \/ \E v \in tasks' : Enables(v)'
    BY <1>5, <1>8, <2>4, <2>6 DEF On, Do, Enables
  <2>8. \E v \in tasks' : v.at = "keycloakSet"
    BY <1>6, <1>8 DEF Do
  <2>9. \A r \in Entitled' : 1 \in member'[r] \/ \E v \in tasks' : Joins(v, r)'
    <3>1. ASSUME NEW r \in Entitled, r # s PROVE 1 \in member[r] \/ \E v \in tasks' : Joins(v, r)
      <4>1. ~Joins(t, r)
        BY <1>1, <3>1 DEF Joins
      <4> QED
        BY <1>8, <4>1 DEF On, Do
    <3> QED
      BY <1>1, <2>2, <2>3, <3>1 DEF Joins
  <2>10. \A r \in Schools \ Entitled' : 1 \in member'[r] => \E v \in tasks' : Leaves(v, r)'
    <3>1. \A r \in Schools \ Entitled : 1 \in member[r] => \E v \in tasks' : Leaves(v, r)
      BY <1>8, <2>6 DEF On, Do
    <3> QED
      BY <2>1, <2>2, <2>3, <3>1 DEF Leaves
  <2>11. On'
    BY <2>3, <2>4, <2>5, <2>7, <2>8, <2>9, <2>10 DEF On
  <2>12. Base'
    <3>1. \A v \in {u} : v.q = t.q
      BY <1>6
    <3>2. \A r \in Schools : member'[r] \subseteq {1}
      BY <1>2, <2>2 DEF UserInv
    <3> QED
      BY <1>2, <1>5, <1>8, <3>1, <3>2, BaseKept
  <2> QED
    BY <2>11, <2>12
<1> QED
  BY <1>4, <1>7, <1>8

(* The user leaves a group. *)
LEMMA OnLeave ==
  ASSUME Here, On, ~Fault, NEW t \in tasks, Leave(t) PROVE On' /\ Base'
<1>1. t.at = "leave" /\ t.for = "none" /\ t.todo \intersect Entitled = {} /\ t \in Handlers
  BY OnTask DEF Leave, At, TaskOn, Stays
<1>2. Typed /\ Base /\ UserInv
  BY DEF Here, Base
<1>3. PICK s \in t.todo : Do(t, {[t EXCEPT !.todo = @ \ {s}]}) /\ member' = [member EXCEPT ![s] = @ \ {t.ox}]
  BY DEF Leave
<1>4. UNCHANGED <<row, order, person, schools, offers, oxUser, keycloak, loaded, username>>
  BY DEF Leave, table, copy
<1>5. PICK u : u = [t EXCEPT !.todo = @ \ {s}]
  OBVIOUS
<1>6. u.at = "leave" /\ u.for = "none" /\ u.q = t.q /\ u.ox = t.ox /\ u.todo = t.todo \ {s}
  BY <1>1, <1>5 DEF Handlers
<1>7. Do(t, {u})
  BY <1>3, <1>5
<1>8. \A r \in Schools : member'[r] \subseteq member[r] /\ (r # s => member'[r] = member[r])
                         /\ (r = s => t.ox \notin member'[r])
  <2>1. member \in [Schools -> SUBSET OxIds]
    BY <1>2, TypedParts DEF OthersTyped
  <2> QED
    BY <1>3, <2>1
<1>9. (Steady' <=> Steady) /\ Entitled' = Entitled /\ \A v : Stays(v)' <=> Stays(v)
  BY <1>4, SteadyKept, SameRights
<1>10. (HasRows' <=> HasRows) /\ Cur' = Cur /\ \A a : Enabling(a)' = Enabling(a)
  BY <1>4, SameTable
<1>11. TaskOn(u)
  BY <1>1, <1>6 DEF TaskOn, Stays
<1>12. \A v \in tasks' : TaskOn(v)'
  <2>1. \A v \in tasks' : TaskOn(v)
    BY <1>7, <1>11 DEF Do, On
  <2> QED
    BY <1>9, <1>10, <2>1 DEF TaskOn, Holds
<1>13. ~Enables(t) /\ \A r : ~Joins(t, r)
  BY <1>1 DEF Enables, Joins
<1>14. row'[Cur'].status = "ENABLED" \/ \E v \in tasks' : Enables(v)'
  BY <1>4, <1>7, <1>10, <1>13 DEF On, Do, Enables
<1>15. keycloak' = "set" \/ MembersAre({})' \/ \E v \in tasks' : v.at = "keycloakSet"
  <2>1. MembersAre({}) => MembersAre({})'
    BY <1>8 DEF MembersAre
  <2>2. keycloak = "set" \/ MembersAre({}) \/ \E v \in tasks' : v.at = "keycloakSet"
    BY <1>1, <1>7 DEF On, Do
  <2> QED
    BY <1>4, <2>1, <2>2
<1>16. \A r \in Entitled' : 1 \in member'[r] \/ \E v \in tasks' : Joins(v, r)'
  <2>1. \A r \in Entitled : 1 \in member[r] \/ \E v \in tasks' : Joins(v, r)
    BY <1>7, <1>13 DEF On, Do
  <2>2. \A r \in Entitled : r \in Schools /\ r # s
    BY <1>1, OnTask
  <2> QED
    BY <1>8, <1>9, <2>1, <2>2 DEF Joins
<1>17. \A r \in Schools \ Entitled' : 1 \in member'[r] => \E v \in tasks' : Leaves(v, r)'
  <2>1. ASSUME NEW r \in Schools \ Entitled, 1 \in member'[r] PROVE \E v \in tasks' : Leaves(v, r)
    <3>1. PICK v \in tasks : Leaves(v, r)
      BY <1>8, <2>1 DEF On
    <3>2. CASE v # t
      BY <1>7, <3>1, <3>2 DEF Do
    <3>3. CASE v = t
      <4>1. t.ox = 1 /\ r \in t.todo /\ r # s
        BY <1>1, <1>8, <2>1, <3>1, <3>3 DEF Leaves
      <4>2. Leaves(u, r)
        BY <1>6, <4>1 DEF Leaves
      <4> QED
        BY <1>7, <4>2 DEF Do
    <3> QED
      BY <3>2, <3>3
  <2> QED
    BY <1>9, <2>1 DEF Leaves
<1>18. On'
  BY <1>9, <1>10, <1>12, <1>14, <1>15, <1>16, <1>17 DEF On
<1>19. Base'
  <2>1. \A v \in {u} : v.q = t.q
    BY <1>6
  <2>2. \A r \in Schools : member'[r] \subseteq {1}
    BY <1>2, <1>8 DEF UserInv
  <2> QED
    BY <1>2, <1>4, <1>7, <2>1, <2>2, BaseKept
<1> QED
  BY <1>18, <1>19

-----------------------------------------------------------------------------
(* The first address, or that of a new name                                *)

(* The handler whose turn it is; the others only leave groups. *)
Alone(t) == t \in tasks /\ Chain(t) /\ \A u \in tasks \ {t} : Stays(u)

(* What is so of it depends on the tables and the user's rights. *)
LEMMA SameChain ==
  ASSUME Same, NEW t PROVE Chain(t)' <=> Chain(t)
<1>1. /\ row' = row /\ oxUser' = oxUser /\ keycloak' = keycloak /\ loaded' = loaded /\ member' = member
      /\ UNCHANGED <<row, order>> /\ UNCHANGED <<person, schools, offers>> /\ UNCHANGED member
  BY DEF Same
<1>2. /\ Cur' = Cur /\ Known' = Known /\ UsedTexts' = UsedTexts
      /\ (HasRows' <=> HasRows) /\ (IsEnabled' <=> IsEnabled) /\ (Pending' <=> Pending)
      /\ \A a : (Former(a)' <=> Former(a)) /\ Disabling(a)' = Disabling(a)
  BY <1>1, SameTable
<1>3. Entitled' = Entitled
  BY <1>1, SameRights
<1>4. (MembersAre({})' <=> MembersAre({})) /\ (MembersAre(Entitled)' <=> MembersAre(Entitled))
  BY <1>1, <1>3 DEF MembersAre
<1>5. (HasUser' <=> HasUser) /\ (Steady' <=> Steady) /\ (AsEntitled' <=> AsEntitled)
  BY SameState
<1>6. Primary(t)' <=> Primary(t)
  BY SameState
<1>7. Renaming(t)' <=> Renaming(t)
  BY <1>2, <1>3, <1>5 DEF Renaming, Holds
<1>8. Generating(t)' <=> Generating(t)
  BY <1>2, <1>3, <1>5 DEF Generating, Holds, Requested
<1>9. Changing(t)' <=> Changing(t)
  BY <1>1, <1>2, <1>3, <1>5 DEF Changing, Holds
<1>10. Beginning(t)' <=> Beginning(t)
  BY <1>2, <1>3, <1>4, <1>5 DEF Beginning, Holds, Requested
<1>11. Creating(t)' <=> Creating(t)
  BY <1>1, <1>2, <1>3, <1>4, <1>5 DEF Creating, Holds
<1>12. Joining(t)' <=> Joining(t)
  BY <1>1, <1>2, <1>3, <1>4, <1>6 DEF Joining, Holds
<1>13. Confirming(t)' <=> Confirming(t)
  BY <1>1, <1>2, <1>3, <1>4, <1>6 DEF Confirming, Holds
<1>14. Retaining(t)' <=> Retaining(t)
  BY <1>1, <1>2, <1>3, <1>5, <1>6 DEF Retaining, Holds
<1> QED
  BY <1>7, <1>8, <1>9, <1>10, <1>11, <1>12, <1>13, <1>14 DEF Chain

(* The next handler has its turn. *)
LEMMA TurnGoesOn ==
  ASSUME NEW t, Alone(t), NEW v, Do(t, {v}), Entitled' = Entitled, Chain(v)'
  PROVE  Solo'
<1>1. v \in tasks' /\ \A u \in tasks' \ {v} : Stays(u)
  BY DEF Do, Alone
<1>2. \A u \in tasks' \ {v} : Stays(u)'
  BY <1>1 DEF Stays
<1> QED
  BY <1>1, <1>2 DEF Solo

(* A step that only hands on the turn. *)
LEMMA ChainGoesOn ==
  ASSUME Base, NEW t, Alone(t), NEW v, Do(t, {v}), v.q = t.q, Same, Chain(v)
  PROVE  Solo' /\ Base'
<1>1. Chain(v)' /\ Entitled' = Entitled
  BY SameChain, SameRights DEF Same
<1>2. \A u \in {v} : u.q = t.q
  OBVIOUS
<1> QED
  BY <1>1, <1>2, TurnGoesOn, BaseGoesOn

(* The groups are as the rights are, or empty. *)
LEMMA ChainMembers ==
  ASSUME NEW t, Chain(t)
  PROVE  MembersAre(Entitled) \/ MembersAre({})
BY DEF Chain, Renaming, Generating, Changing, Confirming, Retaining, Beginning, Creating, Joining, AsEntitled

(* The one whose turn it is does not leave groups. *)
LEMMA ChainPlaces ==
  ASSUME NEW t, Chain(t)
  PROVE  t.at \in {"renamed", "renamedWith", "renamedWithout", "generate", "save", "write", "change", "oxChange",
                   "person", "school", "create", "exists", "oxCreate", "join", "keycloakSet", "confirm",
                   "confirmDisabled"}
BY DEF Chain, Renaming, Generating, Changing, Confirming, Retaining, Beginning, Creating, Joining

(* Another handler goes on to leave groups the user is not in. *)
LEMMA StaysGoesOn ==
  ASSUME Base, NEW c, Alone(c), NEW t \in tasks \ {c}, NEW T, Do(t, T), Same,
         \A u \in T : Stays(u) /\ u.q = t.q
  PROVE  Solo' /\ Base'
<1>1. Chain(c)'
  BY SameChain DEF Alone
<1>2. c \in tasks' /\ \A u \in tasks' \ {c} : Stays(u)
  BY DEF Do, Alone
<1>3. \A u \in tasks' \ {c} : Stays(u)'
  BY <1>2, SameRights DEF Same
<1>4. Solo'
  BY <1>1, <1>2, <1>3 DEF Solo
<1> QED
  BY <1>4, BaseGoesOn

(* What it does makes no difference. *)
LEMMA SoloStays ==
  ASSUME Here, ~Fault, NEW c, Alone(c), NEW t \in tasks \ {c}, LeaveRead(t) \/ Leave(t) \/ LeaveDone(t)
  PROVE  Solo' /\ Base'
<1>1. Typed /\ Base /\ UserInv /\ t \in Handlers /\ Stays(t)
  BY TaskTyped DEF Here, Base, Alone
<1>2. CASE LeaveRead(t)
  <2> DEFINE x == OxUserId(t.q)
  <2>1. Same
    <3>1. Nothing
      BY <1>2 DEF LeaveRead, Nothing
    <3> QED
      BY <3>1, NothingSame
  <2>2. t.at = "leaveRead" /\ (Do(t, {}) \/ Do(t, {[Goes(t, "leave") EXCEPT !.ox = x, !.todo = t.school]}))
    BY <1>2 DEF LeaveRead, At
  <2> HIDE DEF x
  <2>3. PICK u : u = [Goes(t, "leave") EXCEPT !.ox = x, !.todo = t.school]
    OBVIOUS
  <2>4. u.at = "leave" /\ u.for = t.for /\ u.q = t.q /\ u.todo = t.school
    BY <1>1, <2>3 DEF Goes, Handlers
  <2>5. \A v \in {u} : Stays(v) /\ v.q = t.q
    BY <1>1, <2>2, <2>4 DEF Stays
  <2>6. CASE Do(t, {})
    BY <1>1, <2>1, <2>6, StaysGoesOn
  <2>7. CASE Do(t, {u})
    BY <1>1, <2>1, <2>5, <2>7, StaysGoesOn
  <2> QED
    BY <2>2, <2>3, <2>6, <2>7
<1>3. CASE Leave(t)
  <2>1. t.at = "leave" /\ t.todo \intersect Entitled = {} /\ t.for = "none" /\ t.todo \subseteq Schools
    BY <1>1, <1>3 DEF Leave, At, Stays, Handlers
  <2>2. PICK s \in t.todo : Do(t, {[t EXCEPT !.todo = @ \ {s}]}) /\ member' = [member EXCEPT ![s] = @ \ {t.ox}]
    BY <1>3 DEF Leave
  <2>3. member[s] = {}
    <3>1. s \in Schools /\ s \notin Entitled
      BY <2>1, <2>2
    <3>2. 1 \notin member[s]
      BY <3>1, ChainMembers DEF MembersAre, Alone
    <3> QED
      BY <1>1, <3>1, <3>2 DEF UserInv
  <2>4. member' = member
    <3>1. member \in [Schools -> SUBSET OxIds]
      BY <1>1, TypedParts DEF OthersTyped
    <3>2. member' = [member EXCEPT ![s] = member[s]]
      BY <2>2, <2>3
    <3> QED
      BY <3>1, <3>2
  <2>5. Same
    BY <1>3, <2>4 DEF Leave, Same, table, copy
  <2>6. PICK u : u = [t EXCEPT !.todo = @ \ {s}]
    OBVIOUS
  <2>7. u.at = "leave" /\ u.for = "none" /\ u.q = t.q /\ u.todo = t.todo \ {s}
    BY <1>1, <2>1, <2>6 DEF Handlers
  <2>8. Do(t, {u}) /\ \A v \in {u} : Stays(v) /\ v.q = t.q
    BY <2>1, <2>2, <2>6, <2>7 DEF Stays
  <2> QED
    BY <1>1, <2>5, <2>8, StaysGoesOn
<1>4. CASE LeaveDone(t)
  <2>1. Do(t, {}) /\ Nothing
    BY <1>1, <1>4 DEF LeaveDone, AfterGroups, Nothing, Stays
  <2> QED
    BY <1>1, <2>1, NothingSame, StaysGoesOn
<1> QED
  BY <1>2, <1>3, <1>4

(* The last of them leaves a person without a right to an address, *)
LEMMA TurnEndsOff ==
  ASSUME NEW t, Alone(t), Do(t, {}), Entitled' = Entitled, Entitled = {},
         Steady', MembersAre({})', keycloak' # "set", ~IsEnabled'
  PROVE  Off'
<1>1. \A u \in tasks' : Stays(u)
  BY DEF Do, Alone
<1>2. \A u \in tasks' : TaskOff(u)'
  BY <1>1 DEF Stays, TaskOff, OffSteps, HoldsCur
<1> QED
  BY <1>2 DEF Off

(* or with one, and an address that is enabled. *)
LEMMA TurnEndsOn ==
  ASSUME NEW t, Alone(t), Do(t, {}), Entitled' = Entitled, Entitled # {},
         Steady', MembersAre(Entitled)', keycloak' = "set", IsEnabled', Entitled \subseteq Schools
  PROVE  On'
<1>1. \A u \in tasks' : Stays(u)
  BY DEF Do, Alone
<1>2. \A u \in tasks' : TaskOn(u)'
  BY <1>1 DEF Stays, TaskOn
<1>3. \A s \in Schools : 1 \in member'[s] <=> s \in Entitled
  BY DEF MembersAre
<1> QED
  BY <1>2, <1>3 DEF On, IsEnabled

(* No address is enabled while one is being made up. *)
LEMMA NoneEnabled ==
  ASSUME Typed, TableInv, Pending \/ \A a \in Known : Former(a)
  PROVE  Enabled = {}
<1>1. ASSUME NEW a \in Enabled PROVE FALSE
  <2>1. a \in Slots /\ row[a].status = "ENABLED"
    BY DEF Enabled
  <2>2. a \in Known
    BY <2>1 DEF TableInv, NoRow
  <2> QED
    BY <2>1, <2>2 DEF Pending, Former
<1> QED
  BY <1>1

(* What is so of whoever has the turn. *)
LEMMA AloneKnows ==
  ASSUME Here, NEW t, Alone(t)
  PROVE  /\ t \in Handlers /\ t \in tasks /\ t.q \in Sessions /\ Chain(t) /\ Shaped(t)
         /\ Typed /\ Base /\ TableInv /\ UserInv /\ SessionInv /\ person.exists
         /\ HasRows => Cur \in Known /\ Cur \in Slots /\ Cur # 0 /\ row[Cur] \in EmailAddress
         /\ ~HasRows => \A a \in Known : Former(a)
         /\ Entitled \subseteq Schools
<1>1. t \in tasks /\ Chain(t) /\ Typed /\ Base /\ TableInv /\ UserInv /\ SessionInv /\ person.exists
  BY DEF Alone, Here, Base
<1>2. t \in Handlers /\ t.q \in Sessions /\ Shaped(t)
  BY <1>1, TaskTyped
<1>3. HasRows => Cur \in Known /\ Cur \in Slots /\ Cur # 0 /\ row[Cur] \in EmailAddress
  BY <1>1, KnownRows
<1>4. ~HasRows => \A a \in Known : Former(a)
  BY <1>1, KnownRows
<1>5. Entitled \subseteq Schools
  BY <1>1, TypedParts DEF Entitled, OthersTyped
<1> QED
  BY <1>1, <1>2, <1>3, <1>4, <1>5

(* A user that was renamed, with a right to an address or without. *)
LEMMA SoloHandleRenamed ==
  ASSUME Here, NEW t, Alone(t), HandleRenamed(t) PROVE Solo' /\ Base'
<1>1. t.at = "renamed" /\ Same
  <2>1. Nothing /\ t.at = "renamed"
    BY DEF HandleRenamed, Nothing, At
  <2> QED
    BY <2>1, NothingSame
<1>2. Renaming(t) /\ Base /\ t.q \in Sessions
  BY <1>1, AloneKnows DEF Chain, Renaming, Generating, Changing, Confirming, Retaining, Beginning, Creating, Joining
<1>3. CASE Entitled # {}
  <2>1. PICK s \in schools : Do(t, {[Task(t.q, "renamedWith") EXCEPT !.school = {s}]})
    BY <1>3 DEF HandleRenamed, Entitled
  <2>2. PICK w : w = Task(t.q, "renamedWith")
    OBVIOUS
  <2>3. PICK v : v = [w EXCEPT !.school = {s}]
    OBVIOUS
  <2>4. "renamedWith" \in Places
    BY DEF Places
  <2>5. w \in Handlers /\ w.at = "renamedWith" /\ w.q = t.q
    BY <1>2, <2>2, <2>4, TaskShaped
  <2>6. v.at = "renamedWith" /\ v.q = t.q
    BY <2>3, <2>5 DEF Handlers
  <2>7. Chain(v) /\ Do(t, {v})
    BY <1>2, <1>3, <2>1, <2>2, <2>3, <2>6 DEF Chain, Renaming
  <2> QED
    BY <1>1, <1>2, <2>6, <2>7, ChainGoesOn
<1>4. CASE Entitled = {}
  <2>1. Do(t, {Task(t.q, "renamedWithout")})
    BY <1>4 DEF HandleRenamed, Entitled
  <2>2. PICK v : v = Task(t.q, "renamedWithout")
    OBVIOUS
  <2>3. "renamedWithout" \in Places
    BY DEF Places
  <2>4. v.at = "renamedWithout" /\ v.q = t.q
    BY <1>2, <2>2, <2>3, TaskShaped
  <2>5. Chain(v) /\ Do(t, {v})
    BY <1>2, <1>4, <2>1, <2>2, <2>4 DEF Chain, Renaming
  <2> QED
    BY <1>1, <1>2, <2>4, <2>5, ChainGoesOn
<1> QED
  BY <1>3, <1>4

(* The address of the old name is to be disabled. *)
LEMMA SoloRenamedWith ==
  ASSUME Here, NEW t, Alone(t), RenamedWith(t) PROVE Solo' /\ Base'
<1>1. t.at = "renamedWith" /\ Same
  <2>1. Nothing /\ t.at = "renamedWith"
    BY DEF RenamedWith, Nothing, At
  <2> QED
    BY <2>1, NothingSame
<1>2. /\ Base /\ TableInv /\ person.exists /\ t \in Handlers
      /\ HasRows => Cur \in Known /\ Cur \in Slots /\ Cur # 0 /\ row[Cur] \in EmailAddress
  BY AloneKnows
<1>3. Renaming(t) /\ Entitled # {} /\ Steady /\ IsEnabled
  BY <1>1 DEF Alone, Chain, Renaming, Generating, Changing, Confirming, Retaining, Beginning, Creating, Joining
<1>4. Enabled = {Cur}
  <2>1. ASSUME NEW a \in Slots, row[a].status = "ENABLED" PROVE a = Cur
    <3>1. a \in Known
      BY <1>2, <2>1 DEF TableInv, NoRow
    <3> QED
      BY <1>3, <2>1, <3>1 DEF Steady
  <2> QED
    BY <1>2, <1>3, <2>1 DEF Enabled, IsEnabled
<1>5. PICK m : m = [row[Cur] EXCEPT !.status = "DISABLED"]
  OBVIOUS
<1>6. PICK x : x = Saves(t, "write", "rename")
  OBVIOUS
<1>7. PICK v : v = Holding(x, Cur, m)
  OBVIOUS
<1>8. Do(t, {v})
  BY <1>4, <1>5, <1>6, <1>7 DEF RenamedWith
<1>9. x \in Handlers /\ x.at = "write" /\ x.for = "rename" /\ x.q = t.q
  BY <1>2, <1>6 DEF Saves, Handlers, Places, Purposes
<1>10. v.at = "write" /\ v.for = "rename" /\ v.q = t.q /\ DOMAIN v.held = {Cur} /\ v.held[Cur] = m
  BY <1>7, <1>9 DEF Holding, Handlers
<1>11. Holds(v, Cur, Disabling(Cur))
  BY <1>5, <1>10 DEF Holds, Disabling
<1>12. Chain(v)
  BY <1>3, <1>10, <1>11 DEF Chain, Renaming
<1> QED
  BY <1>1, <1>2, <1>8, <1>10, <1>12, ChainGoesOn

(* The disabled address is replaced by one of the new name, if there is one. *)
LEMMA SoloRenamedWithout ==
  ASSUME Here, NEW t, Alone(t), RenamedWithout(t) PROVE (Solo \/ Off)' /\ Base'
<1>1. t.at = "renamedWithout" /\ Same
  <2>1. Nothing /\ t.at = "renamedWithout"
    BY DEF RenamedWithout, Nothing, At
  <2> QED
    BY <2>1, NothingSame
<1>2. /\ Base /\ TableInv /\ Typed /\ person.exists /\ t \in Handlers
      /\ HasRows => Cur \in Known /\ Cur \in Slots /\ Cur # 0 /\ row[Cur] \in EmailAddress
      /\ ~HasRows => \A a \in Known : Former(a)
  BY AloneKnows
<1>3. Renaming(t) /\ Entitled = {} /\ Steady /\ ~IsEnabled /\ AsEntitled
  BY <1>1 DEF Alone, Chain, Renaming, Generating, Changing, Confirming, Retaining, Beginning, Creating, Joining
<1>4. CASE HasRows
  <2>1. row[Cur].status = "DISABLED"
    BY <1>2, <1>3, <1>4 DEF Steady, IsEnabled
  <2>2. Newest({"DISABLED"}) = Cur
    BY <1>2, <1>4, <2>1, NewestIs
  <2>3. Do(t, {Saves(t, "generate", "disabled")})
    BY <1>2, <1>4, <2>2 DEF RenamedWithout, TableInv
  <2>4. PICK v : v = Saves(t, "generate", "disabled")
    OBVIOUS
  <2>5. v.at = "generate" /\ v.for = "disabled" /\ v.q = t.q
    BY <1>2, <2>4 DEF Saves, Handlers
  <2>6. \A a \in Known : Former(a)
    BY <1>3, <2>1 DEF Steady, Former
  <2>7. Chain(v) /\ Do(t, {v})
    BY <1>3, <1>4, <2>3, <2>4, <2>5, <2>6 DEF Chain, Generating, Steady
  <2> QED
    BY <1>1, <1>2, <2>5, <2>7, ChainGoesOn
<1>5. CASE ~HasRows
  <2>1. Known = {}
    BY <1>2, <1>5, KnownRows
  <2>2. Newest({"DISABLED"}) = 0
    BY <1>2, <2>1, NewestIs
  <2>3. Do(t, {})
    BY <2>2 DEF RenamedWithout
  <2>4. /\ Entitled' = Entitled /\ Steady' /\ MembersAre({})' /\ keycloak' # "set" /\ ~IsEnabled'
    BY <1>1, <1>3, SameRights, SameState, SameTable, SameGroups DEF Same, AsEntitled
  <2>5. Off'
    BY <1>3, <2>3, <2>4, TurnEndsOff
  <2> QED
    BY <1>1, <1>2, <2>3, <2>5, BaseGoesOn
<1> QED
  BY <1>4, <1>5

(* An address is made up that no row has. *)
LEMMA SoloGenerate ==
  ASSUME Here, ~Fault, NEW t, Alone(t), Generate(t) PROVE Solo' /\ Base'
<1>1. t.at = "generate" /\ UNCHANGED <<table, person, schools, offers, ox, keycloak, copy>>
  BY DEF Generate, At
<1>2. Same
  BY <1>1 DEF Same, table, ox, copy
<1>3. Base /\ t \in Handlers
  BY AloneKnows
<1>4. Slots \ UsedTexts # {}
  BY DEF Generate
<1> DEFINE n == CHOOSE n \in Slots \ UsedTexts : \A m \in Slots \ UsedTexts : n <= m
<1>5. n \in Slots \ UsedTexts
  <2>1. Slots \ UsedTexts \in SUBSET Nat
    BY DEF Slots
  <2>2. \E k \in Slots \ UsedTexts : \A m \in Slots \ UsedTexts : k <= m
    BY <1>4, <2>1, Least
  <2> QED
    BY <2>2
<1>6. Do(t, {Holding(Goes(t, "save"), 0, [status |-> "REQUESTED", ox |-> 0, text |-> n])})
  BY DEF Generate
<1> HIDE DEF n
<1>7. PICK m : m = Requested(n)
  OBVIOUS
<1>8. PICK x : x = Goes(t, "save")
  OBVIOUS
<1>9. PICK v : v = Holding(x, 0, m)
  OBVIOUS
<1>10. Do(t, {v})
  BY <1>6, <1>7, <1>8, <1>9 DEF Requested
<1>11. x \in Handlers /\ x.at = "save" /\ x.for = t.for /\ x.q = t.q /\ x.school = t.school /\ x.todo = t.todo
  BY <1>3, <1>8 DEF Goes, Handlers, Places
<1>12. v.at = "save" /\ v.for = t.for /\ v.q = t.q /\ v.school = t.school /\ v.todo = t.todo
       /\ DOMAIN v.held = {0} /\ v.held[0] = m
  BY <1>9, <1>11 DEF Holding, Handlers
<1>13. \E text \in Slots \ UsedTexts : Holds(v, 0, Requested(text))
  BY <1>5, <1>7, <1>12 DEF Holds
<1>14. Generating(t) \/ Beginning(t)
  BY <1>1 DEF Alone, Chain, Renaming, Changing, Confirming, Retaining, Creating, Joining
<1>15. CASE Generating(t)
  <2>1. Chain(v)
    BY <1>12, <1>13, <1>15 DEF Chain, Generating
  <2> QED
    BY <1>2, <1>3, <1>10, <1>12, <2>1, ChainGoesOn
<1>16. CASE Beginning(t)
  <2>1. Chain(v)
    BY <1>1, <1>12, <1>13, <1>16 DEF Chain, Beginning
  <2> QED
    BY <1>2, <1>3, <1>10, <1>12, <2>1, ChainGoesOn
<1> QED
  BY <1>14, <1>15, <1>16

(* No address is enabled, so that the one made up may be written. *)
LEMMA SoloCheckSave ==
  ASSUME Here, NEW t, Alone(t), CheckSave(t) PROVE Solo' /\ Base'
<1>1. t.at = "save" /\ Same
  <2>1. Nothing /\ t.at = "save"
    BY DEF CheckSave, Nothing, At
  <2> QED
    BY <2>1, NothingSame
<1>2. Base /\ TableInv /\ Typed /\ t \in Handlers /\ (~HasRows => \A a \in Known : Former(a))
  BY AloneKnows
<1>3. Generating(t) \/ Beginning(t) \/ Joining(t) \/ Confirming(t)
  BY <1>1 DEF Alone, Chain, Renaming, Changing, Retaining, Creating
<1>4. Enabled = {}
  BY <1>2, <1>3, NoneEnabled DEF Generating, Beginning, Joining, Confirming
<1>5. PICK v : v = Goes(t, "write")
  OBVIOUS
<1>6. Do(t, {v})
  BY <1>4, <1>5 DEF CheckSave
<1>7. v = [t EXCEPT !.at = "write"] /\ v.at = "write" /\ v.for = t.for /\ v.q = t.q /\ v.school = t.school /\ v.todo = t.todo
      /\ v.held = t.held /\ v.ox = t.ox /\ v.text = t.text
  BY <1>2, <1>5 DEF Goes, Handlers
<1>8. Chain(v)
  <2>1. CASE Generating(t)
    <3>1. Generating(v)
      BY <1>1, <1>7, <2>1 DEF Generating, Holds
    <3> QED
      BY <3>1 DEF Chain
  <2>2. CASE Beginning(t)
    <3>1. Beginning(v)
      BY <1>1, <1>7, <2>2 DEF Beginning, Holds
    <3> QED
      BY <3>1 DEF Chain
  <2>3. CASE Joining(t)
    <3>1. Joining(v)
      BY <1>1, <1>7, <2>3 DEF Joining, Holds, Primary
    <3> QED
      BY <3>1 DEF Chain
  <2>4. CASE Confirming(t)
    <3>1. Confirming(v)
      BY <1>1, <1>7, <2>4 DEF Confirming, Holds, Primary
    <3> QED
      BY <3>1 DEF Chain
  <2> QED
    BY <1>3, <2>1, <2>2, <2>3, <2>4
<1> QED
  BY <1>1, <1>2, <1>6, <1>7, <1>8, ChainGoesOn

(* The latest address is the one being made up. *)
LEMMA RequestedIsCur ==
  ASSUME Typed, TableInv, person.exists, Pending
  PROVE  Newest({"REQUESTED"}) = Cur /\ HasRows
BY NewestIs DEF Pending

(* The first address: for the one school that gives a right to it, *)
LEMMA SoloHandlePerson ==
  ASSUME Here, NEW t, Alone(t), HandlePerson(t) PROVE Solo' /\ Base'
<1>1. t.at = "person" /\ Same
  <2>1. Nothing /\ t.at = "person"
    BY DEF HandlePerson, Nothing, At
  <2> QED
    BY <2>1, NothingSame
<1>2. Base /\ t \in Handlers /\ t.q \in Sessions
  BY AloneKnows
<1>3. Beginning(t) /\ t.school = {} /\ Entitled # {}
  BY <1>1 DEF Alone, Chain, Renaming, Generating, Changing, Confirming, Retaining, Beginning, Creating, Joining
<1>4. Do(t, {[Task(t.q, "school") EXCEPT !.todo = Entitled]})
  <2>1. (IF offers /\ person.exists THEN schools \ t.school ELSE {}) = Entitled
    BY <1>3 DEF Entitled
  <2> QED
    BY <1>3, <2>1 DEF HandlePerson
<1>5. PICK w : w = Task(t.q, "school")
  OBVIOUS
<1>6. PICK v : v = [w EXCEPT !.todo = Entitled]
  OBVIOUS
<1>7. "school" \in Places
  BY DEF Places
<1>8. w \in Handlers /\ w.at = "school" /\ w.q = t.q
  BY <1>2, <1>5, <1>7, TaskShaped
<1>9. v.at = "school" /\ v.todo = Entitled /\ v.q = t.q
  BY <1>6, <1>8 DEF Handlers
<1>10. Chain(v) /\ Do(t, {v})
  BY <1>3, <1>4, <1>5, <1>6, <1>9 DEF Chain, Beginning
<1> QED
  BY <1>1, <1>2, <1>9, <1>10, ChainGoesOn

(* as there is no address yet. *)
LEMMA SoloCreateOrEnable ==
  ASSUME Here, NEW t, Alone(t), CreateOrEnable(t) PROVE Solo' /\ Base'
<1>1. t.at = "school" /\ Same
  <2>1. Nothing /\ t.at = "school"
    BY DEF CreateOrEnable, Nothing, At
  <2> QED
    BY <2>1, NothingSame
<1>2. Base /\ TableInv /\ Typed /\ person.exists /\ t \in Handlers /\ Entitled \subseteq Schools
  BY AloneKnows
<1>3. Beginning(t) /\ t.todo = Entitled /\ ~HasRows
  BY <1>1 DEF Alone, Chain, Renaming, Generating, Changing, Confirming, Retaining, Beginning, Creating, Joining
<1>4. PICK s \in Schools : Entitled = {s}
  BY <1>3 DEF Beginning
<1>5. Newest({"ENABLED", "DISABLED"}) = 0 /\ Addresses = <<>>
  <2>1. Known = {}
    BY <1>2, <1>3, KnownRows
  <2> QED
    BY <1>2, <1>3, <2>1, NewestIs DEF Addresses, HasRows
<1>6. PICK n : n = [t EXCEPT !.school = {s}, !.todo = @ \ {s}]
  OBVIOUS
<1>7. n \in Handlers /\ n.q = t.q /\ n.school = Entitled /\ n.todo = {}
  BY <1>2, <1>3, <1>4, <1>6 DEF Handlers
<1>8. PICK v : v = Saves(n, "generate", "create")
  OBVIOUS
<1>9. v.at = "generate" /\ v.for = "create" /\ v.q = t.q /\ v.school = Entitled /\ v.todo = {}
  BY <1>7, <1>8 DEF Saves, Handlers
<1>10. Do(t, {v})
  <2>1. PICK r \in t.todo :
          LET next == [t EXCEPT !.school = {r}, !.todo = @ \ {r}]
              a    == Newest({"ENABLED", "DISABLED"})
              goes == CASE a = 0 -> {Saves(next, "generate", "create")}
                        [] a # 0 /\ row[a].status = "ENABLED" -> Loop(next)
                        [] a # 0 /\ row[a].status = "DISABLED" ->
                             {Holding(Saves(next, "save", "enable"), a, [row[a] EXCEPT !.status = "ENABLED"])}
          IN Do(t, goes \union {})
    BY <1>5 DEF CreateOrEnable
  <2>2. r = s
    BY <1>3, <1>4
  <2>3. Do(t, {Saves(n, "generate", "create")} \union {})
    BY <1>5, <1>6, <2>1, <2>2
  <2>4. {Saves(n, "generate", "create")} \union {} = {v}
    BY <1>8
  <2> QED
    BY <2>3, <2>4
<1>11. Chain(v)
  BY <1>3, <1>9 DEF Chain, Beginning
<1> QED
  BY <1>1, <1>2, <1>9, <1>10, <1>11, ChainGoesOn

(* The user of OX is to be created, *)
LEMMA SoloCreateRead ==
  ASSUME Here, NEW t, Alone(t), CreateRead(t) PROVE Solo' /\ Base'
<1>1. t.at = "create" /\ Same
  <2>1. Nothing /\ t.at = "create"
    BY DEF CreateRead, Nothing, At
  <2> QED
    BY <2>1, NothingSame
<1>2. /\ Base /\ TableInv /\ Typed /\ person.exists /\ t \in Handlers
      /\ HasRows => Cur \in Known /\ Cur \in Slots /\ Cur # 0 /\ row[Cur] \in EmailAddress
  BY AloneKnows
<1>3. Creating(t) /\ Pending
  BY <1>1 DEF Alone, Chain, Renaming, Generating, Changing, Confirming, Retaining, Beginning, Creating, Joining
<1>4. Newest({"REQUESTED"}) = Cur /\ HasRows
  BY <1>2, <1>3, RequestedIsCur
<1>5. PICK x : x = Goes(t, "exists")
  OBVIOUS
<1>6. PICK v : v = Holding(x, Cur, row[Cur])
  OBVIOUS
<1>7. Do(t, {v})
  BY <1>2, <1>4, <1>5, <1>6 DEF CreateRead
<1>8. x \in Handlers /\ x.at = "exists" /\ x.q = t.q /\ x.school = t.school
  BY <1>2, <1>5 DEF Goes, Handlers, Places
<1>9. v.at = "exists" /\ v.q = t.q /\ v.school = t.school /\ Holds(v, Cur, row[Cur])
  BY <1>6, <1>8 DEF Holding, Handlers, Holds
<1>10. Chain(v)
  BY <1>3, <1>9 DEF Chain, Creating
<1> QED
  BY <1>1, <1>2, <1>7, <1>9, <1>10, ChainGoesOn

(* and the username is free there. *)
LEMMA NotUsed ==
  ASSUME Here, NEW t \in tasks, ~HasUser PROVE ~Used(username[t.q]) /\ username[t.q] \in Names
<1>1. username[t.q] = person.name
  BY DEF Here, Base, SessionInv
<1>2. person.name \in Names
  BY TypedParts DEF Here, OthersTyped
<1>3. \A u \in OxIds : oxUser[u] = NoUser
  BY DEF Here, Base, UserInv, HasUser
<1> QED
  BY <1>1, <1>2, <1>3 DEF Used, NoUser, Names

(* The username is not in use. *)
LEMMA SoloCreateExists ==
  ASSUME Here, NEW t, Alone(t), CreateExists(t) PROVE Solo' /\ Base'
<1>1. t.at = "exists" /\ Same
  <2>1. Nothing /\ t.at = "exists"
    BY DEF CreateExists, Nothing, At
  <2> QED
    BY <2>1, NothingSame
<1>2. Base /\ t \in Handlers /\ t \in tasks
  BY AloneKnows
<1>3. Creating(t) /\ ~HasUser
  BY <1>1 DEF Alone, Chain, Renaming, Generating, Changing, Confirming, Retaining, Beginning, Creating, Joining
<1>4. PICK v : v = Goes(t, "oxCreate")
  OBVIOUS
<1>5. Do(t, {v})
  BY <1>2, <1>3, <1>4, NotUsed DEF CreateExists
<1>6. v.at = "oxCreate" /\ v.q = t.q /\ v.school = t.school /\ v.held = t.held
  BY <1>2, <1>4 DEF Goes, Handlers
<1>7. Chain(v)
  BY <1>1, <1>3, <1>6 DEF Chain, Creating, Holds
<1> QED
  BY <1>1, <1>2, <1>5, <1>6, <1>7, ChainGoesOn

(* The address OX has is to be confirmed. *)
LEMMA SoloConfirm ==
  ASSUME Here, NEW t, Alone(t), Confirm(t) PROVE Solo' /\ Base'
<1>1. t.at = "confirm" /\ Same
  <2>1. Nothing /\ t.at = "confirm"
    BY DEF Confirm, Nothing, At
  <2> QED
    BY <2>1, NothingSame
<1>2. /\ Base /\ TableInv /\ Typed /\ person.exists /\ t \in Handlers
      /\ HasRows => Cur \in Known /\ Cur \in Slots /\ Cur # 0 /\ row[Cur] \in EmailAddress
  BY AloneKnows
<1>3. Confirming(t) /\ Pending /\ Primary(t) /\ keycloak = "set"
  BY <1>1 DEF Alone, Chain, Renaming, Generating, Changing, Confirming, Retaining, Beginning, Creating, Joining
<1>4. Newest({"REQUESTED"}) = Cur /\ HasRows
  BY <1>2, <1>3, RequestedIsCur
<1>5. PICK m : m = [status |-> "ENABLED", ox |-> t.ox, text |-> t.text]
  OBVIOUS
<1>6. PICK x : x = Saves(t, "save", "confirm")
  OBVIOUS
<1>7. PICK v : v = Holding(x, Cur, m)
  OBVIOUS
<1>8. Do(t, {v})
  BY <1>2, <1>4, <1>5, <1>6, <1>7 DEF Confirm
<1>9. x \in Handlers /\ x.at = "save" /\ x.for = "confirm" /\ x.q = t.q /\ x.ox = t.ox /\ x.text = t.text
  BY <1>2, <1>6 DEF Saves, Handlers, Places, Purposes
<1>10. v.at = "save" /\ v.for = "confirm" /\ v.q = t.q /\ v.ox = t.ox /\ v.text = t.text /\ Holds(v, Cur, m)
  BY <1>7, <1>9 DEF Holding, Handlers, Holds
<1>11. m = [status |-> "ENABLED", ox |-> 1, text |-> row[Cur].text] /\ Primary(v)
  BY <1>3, <1>5, <1>10 DEF Primary
<1>12. Chain(v)
  BY <1>3, <1>10, <1>11 DEF Chain, Confirming
<1> QED
  BY <1>1, <1>2, <1>8, <1>10, <1>12, ChainGoesOn

(* The address OX has is to be kept, disabled. *)
LEMMA SoloConfirmDisabled ==
  ASSUME Here, NEW t, Alone(t), ConfirmDisabled(t) PROVE Solo' /\ Base'
<1>1. t.at = "confirmDisabled" /\ Same
  <2>1. Nothing /\ t.at = "confirmDisabled"
    BY DEF ConfirmDisabled, Nothing, At
  <2> QED
    BY <2>1, NothingSame
<1>2. /\ Base /\ TableInv /\ Typed /\ person.exists /\ t \in Handlers
      /\ HasRows => Cur \in Known /\ Cur \in Slots /\ Cur # 0 /\ row[Cur] \in EmailAddress
  BY AloneKnows
<1>3. Retaining(t) /\ Pending /\ Primary(t)
  BY <1>1 DEF Alone, Chain, Renaming, Generating, Changing, Confirming, Retaining, Beginning, Creating, Joining
<1>4. Newest({"REQUESTED"}) = Cur /\ HasRows
  BY <1>2, <1>3, RequestedIsCur
<1>5. PICK m : m = [row[Cur] EXCEPT !.status = "DISABLED", !.ox = t.ox]
  OBVIOUS
<1>6. PICK x : x = Saves(t, "write", "disable")
  OBVIOUS
<1>7. PICK v : v = Holding(x, Cur, m)
  OBVIOUS
<1>8. Do(t, {v})
  BY <1>2, <1>4, <1>5, <1>6, <1>7 DEF ConfirmDisabled
<1>9. x \in Handlers /\ x.at = "write" /\ x.for = "disable" /\ x.q = t.q /\ x.ox = t.ox /\ x.text = t.text
  BY <1>2, <1>6 DEF Saves, Handlers, Places, Purposes
<1>10. v.at = "write" /\ v.for = "disable" /\ v.q = t.q /\ v.ox = t.ox /\ v.text = t.text /\ Holds(v, Cur, m)
  BY <1>7, <1>9 DEF Holding, Handlers, Holds
<1>11. m = [status |-> "DISABLED", ox |-> 1, text |-> row[Cur].text] /\ Primary(v)
  BY <1>2, <1>3, <1>4, <1>5, <1>10 DEF Primary, EmailAddress
<1>12. Chain(v)
  BY <1>3, <1>10, <1>11 DEF Chain, Retaining
<1> QED
  BY <1>1, <1>2, <1>8, <1>10, <1>12, ChainGoesOn

(* The user of OX is to get the new address. *)
LEMMA SoloChangeRead ==
  ASSUME Here, NEW t, Alone(t), ChangeRead(t) PROVE Solo' /\ Base'
<1>1. t.at = "change" /\ Same
  <2>1. Nothing /\ t.at = "change"
    BY DEF ChangeRead, Nothing, At
  <2> QED
    BY <2>1, NothingSame
<1>2. /\ Base /\ TableInv /\ SessionInv /\ Typed /\ person.exists /\ t \in Handlers /\ t \in tasks
      /\ HasRows => Cur \in Known /\ Cur \in Slots /\ Cur # 0 /\ row[Cur] \in EmailAddress
  BY AloneKnows
<1>3. Changing(t) /\ Pending /\ loaded[t.q][1] # Cur
  BY <1>1 DEF Alone, Chain, Renaming, Generating, Changing, Confirming, Retaining, Beginning, Creating, Joining
<1>4. Newest({"REQUESTED"}) = Cur /\ HasRows
  BY <1>2, <1>3, RequestedIsCur
<1>5. OxUserId(t.q) = 1
  BY <1>2, <1>3, <1>4, UserKnown DEF Pending, Former
<1>6. PICK x : x = Goes(t, "oxChange")
  OBVIOUS
<1>7. PICK y : y = Holding(x, Cur, row[Cur])
  OBVIOUS
<1>8. PICK v : v = [y EXCEPT !.ox = 1, !.text = row[Cur].text]
  OBVIOUS
<1>9. Do(t, {v})
  <2> DEFINE a == Newest({"REQUESTED"})
             o == OxUserId(t.q)
             next == [Holding(Goes(t, "oxChange"), a, row[a]) EXCEPT !.ox = o, !.text = row[a].text]
  <2>1. Do(t, IF o = 0 \/ a = 0 THEN {} ELSE {next})
    BY DEF ChangeRead
  <2>2. a = Cur /\ o = 1 /\ a # 0
    BY <1>2, <1>4, <1>5
  <2>3. next = v
    BY <1>6, <1>7, <1>8, <2>2
  <2> HIDE DEF a, o, next
  <2> QED
    BY <2>1, <2>2, <2>3
<1>10. x \in Handlers /\ x.at = "oxChange" /\ x.for = t.for /\ x.q = t.q
  BY <1>2, <1>6 DEF Goes, Handlers, Places
<1>11. row[Cur] \in Mails /\ Cur \in 0 .. MaxAddresses
  BY <1>2, <1>4 DEF EmailAddress, Mails, Slots, Texts
<1>12. y \in Handlers /\ y.at = "oxChange" /\ y.for = t.for /\ y.q = t.q /\ DOMAIN y.held = {Cur} /\ y.held[Cur] = row[Cur]
  BY <1>7, <1>10, <1>11, HoldingShaped DEF Handlers
<1>13. v.at = "oxChange" /\ v.for = t.for /\ v.q = t.q /\ v.ox = 1 /\ v.text = row[Cur].text /\ Holds(v, Cur, row[Cur])
  BY <1>8, <1>12 DEF Handlers, Holds
<1>14. Chain(v)
  BY <1>3, <1>13 DEF Chain, Changing
<1> QED
  BY <1>1, <1>2, <1>9, <1>13, <1>14, ChainGoesOn

(* A call to OX or Keycloak leaves the table as it is. *)
LEMMA BaseCall ==
  ASSUME Base, NEW t, NEW v, Do(t, {v}), v.q = t.q,
         UNCHANGED <<row, order, person, loaded, username>>,
         \A u \in OxIds : u # 1 => oxUser'[u] = NoUser,
         \A s \in Schools : member'[s] \subseteq {1}
  PROVE  Base'
<1>1. TableInv'
  BY SameTable DEF Base
<1>2. UserInv'
  BY DEF UserInv
<1>3. SessionInv'
  <2>1. \A u \in {v} : u.q = t.q
    OBVIOUS
  <2> QED
    BY <2>1, SessionGoesOn DEF Base
<1> QED
  BY <1>1, <1>2, <1>3 DEF Base

(* The user of OX is created. *)
LEMMA SoloCreateUser ==
  ASSUME Here, ~Fault, NEW t, Alone(t), CreateUser(t) PROVE Solo' /\ Base'
<1>1. t.at = "oxCreate"
  BY DEF CreateUser, At
<1>2. /\ Base /\ UserInv /\ Typed /\ t \in Handlers /\ t \in tasks /\ Shaped(t)
      /\ HasRows => Cur \in Known /\ Cur \in Slots /\ Cur # 0 /\ row[Cur] \in EmailAddress
  BY AloneKnows
<1>3. Creating(t) /\ Pending /\ ~HasUser /\ Holds(t, Cur, row[Cur]) /\ HasRows /\ row[Cur].status = "REQUESTED"
  BY <1>1 DEF Alone, Chain, Renaming, Generating, Changing, Confirming, Retaining, Beginning, Creating, Joining, Pending
<1>4. Held(t) = Cur /\ t.held[Cur] = row[Cur]
  BY <1>3, HoldsHeld
<1>5. ~Used(username[t.q]) /\ username[t.q] \in Names
  BY <1>2, <1>3, NotUsed
<1> DEFINE Free == {u \in OxIds : oxUser[u] = NoUser}
           k == CHOOSE u \in Free : \A v \in Free : u <= v
<1>6. k = 1
  <2>1. 1 \in Free /\ \A v \in Free : 1 <= v
    BY <1>3, BoundsAssumption DEF HasUser, OxIds
  <2>2. k \in Free /\ \A v \in Free : k <= v
    BY <2>1
  <2>3. k \in OxIds /\ k <= 1
    BY <2>1, <2>2
  <2> HIDE DEF k, Free
  <2> QED
    BY <2>3 DEF OxIds
<1>7. /\ oxUser' = [oxUser EXCEPT ![k] = [name |-> username[t.q], primary |-> row[Cur].text]]
      /\ Do(t, {[Holding(Saves(t, "save", "oxid"), Cur, [row[Cur] EXCEPT !.ox = k])
                   EXCEPT !.ox = k, !.text = row[Cur].text]})
  BY <1>4, <1>5 DEF CreateUser
<1> HIDE DEF k, Free
<1>8. PICK m : m = [row[Cur] EXCEPT !.ox = 1]
  OBVIOUS
<1>9. PICK x : x = Saves(t, "save", "oxid")
  OBVIOUS
<1>10. PICK y : y = Holding(x, Cur, m)
  OBVIOUS
<1>11. PICK v : v = [y EXCEPT !.ox = 1, !.text = row[Cur].text]
  OBVIOUS
<1>12. Do(t, {v})
  BY <1>6, <1>7, <1>8, <1>9, <1>10, <1>11
<1>13. x \in Handlers /\ x.at = "save" /\ x.for = "oxid" /\ x.q = t.q /\ x.school = t.school
  BY <1>2, <1>9 DEF Saves, Handlers, Places, Purposes
<1>14. m = [status |-> "REQUESTED", ox |-> 1, text |-> row[Cur].text]
  BY <1>2, <1>3, <1>8 DEF EmailAddress
<1>15. m \in Mails /\ Cur \in 0 .. MaxAddresses
  BY <1>2, <1>3, <1>14, BoundsAssumption DEF EmailAddress, EmailAddressStatus, Mails, Slots, Texts, OxIds
<1>16. y \in Handlers /\ y.at = "save" /\ y.for = "oxid" /\ y.q = t.q /\ y.school = t.school
       /\ DOMAIN y.held = {Cur} /\ y.held[Cur] = m
  BY <1>10, <1>13, <1>15, HoldingShaped DEF Handlers
<1>17. v.at = "save" /\ v.for = "oxid" /\ v.q = t.q /\ v.school = t.school /\ v.ox = 1 /\ v.text = row[Cur].text
       /\ Holds(v, Cur, m)
  BY <1>11, <1>16 DEF Handlers, Holds
<1>18. UNCHANGED <<row, order, person, schools, offers, member, keycloak, loaded, username>>
  BY DEF CreateUser, table, copy
<1>19. oxUser'[1] = [name |-> username[t.q], primary |-> row[Cur].text]
       /\ \A u \in OxIds : u # 1 => oxUser'[u] = NoUser
  <2>1. 1 \in OxIds /\ oxUser \in [OxIds -> [name : Names \union {0}, primary : Texts]]
    BY <1>2, TypedParts, BoundsAssumption DEF OthersTyped, OxIds
  <2> QED
    BY <1>2, <1>6, <1>7, <2>1 DEF UserInv
<1>20. Entitled' = Entitled /\ Cur' = Cur /\ (Pending' <=> Pending) /\ (MembersAre({})' <=> MembersAre({}))
  BY <1>18, SameRights, SameTable, SameGroups
<1>21. Primary(v)'
  <2>1. oxUser'[1] # NoUser
    BY <1>5, <1>19 DEF NoUser, Names
  <2> QED
    BY <1>17, <1>18, <1>19, <1>20, <2>1 DEF Primary, HasUser
<1>22. Chain(v)'
  <2>1. Joining(v)'
    BY <1>3, <1>14, <1>17, <1>18, <1>20, <1>21 DEF Joining, Holds, Creating
  <2> QED
    BY <2>1 DEF Chain
<1>23. Solo'
  BY <1>12, <1>20, <1>22, TurnGoesOn
<1>24. Base'
  BY <1>2, <1>12, <1>17, <1>18, <1>19, BaseCall DEF UserInv
<1> QED
  BY <1>23, <1>24

(* The user of OX joins the group. *)
LEMMA SoloJoin ==
  ASSUME Here, ~Fault, NEW t, Alone(t), Join(t) PROVE Solo' /\ Base'
<1>1. t.at = "join"
  BY DEF Join, At
<1>2. Base /\ UserInv /\ Typed /\ t \in Handlers /\ t.q \in Sessions /\ Entitled \subseteq Schools
  BY AloneKnows
<1>3. Joining(t) /\ Pending /\ Primary(t) /\ MembersAre({}) /\ t.school = Entitled /\ DOMAIN t.held = {Cur}
  BY <1>1 DEF Alone, Chain, Renaming, Generating, Changing, Confirming, Retaining, Beginning, Creating, Joining, Holds
<1>4. PICK s \in Schools : Entitled = {s}
  BY <1>3 DEF Joining
<1>5. t.ox = 1 /\ t.ox \notin member[s]
  BY <1>3 DEF Primary, MembersAre
<1>6. PICK x : x = Task(t.q, "keycloakSet")
  OBVIOUS
<1>7. PICK y : y = Saves(x, "keycloakSet", "confirm")
  OBVIOUS
<1>8. PICK v : v = [y EXCEPT !.ox = t.ox, !.text = t.text]
  OBVIOUS
<1>9. member' = [member EXCEPT ![s] = @ \union {1}] /\ Do(t, {v})
  <2>1. PICK r \in t.school :
          \/ /\ member' = [member EXCEPT ![r] = @ \union {t.ox}]
             /\ Do(t, {[Saves(Task(t.q, "keycloakSet"), "keycloakSet", "confirm")
                          EXCEPT !.ox = t.ox, !.text = t.text]})
          \/ t.ox \in member[r]
    BY DEF Join
  <2>2. r = s
    BY <1>3, <1>4
  <2> QED
    BY <1>5, <1>6, <1>7, <1>8, <2>1, <2>2
<1>10. x \in Handlers /\ x.at = "keycloakSet" /\ x.q = t.q
  <2>1. "keycloakSet" \in Places
    BY DEF Places
  <2> QED
    BY <1>2, <1>6, <2>1, TaskShaped
<1>11. y \in Handlers /\ y.at = "keycloakSet" /\ y.q = t.q
  BY <1>7, <1>10 DEF Saves, Handlers, Purposes
<1>12. v.at = "keycloakSet" /\ v.q = t.q /\ v.ox = t.ox /\ v.text = t.text
  BY <1>8, <1>11 DEF Handlers
<1>13. UNCHANGED <<row, order, person, schools, offers, oxUser, keycloak, loaded, username>>
  BY DEF Join, table, copy
<1>14. Entitled' = Entitled /\ Cur' = Cur /\ (Pending' <=> Pending)
  BY <1>13, SameRights, SameTable
<1>15. member'[s] = member[s] \union {1} /\ \A r \in Schools : r # s => member'[r] = member[r]
  <2>1. member \in [Schools -> SUBSET OxIds]
    BY <1>2, TypedParts DEF OthersTyped
  <2> QED
    BY <1>4, <1>9, <2>1
<1>16. MembersAre(Entitled)'
  BY <1>3, <1>4, <1>14, <1>15 DEF MembersAre
<1>17. Primary(v)'
  BY <1>3, <1>12, <1>13, <1>14 DEF Primary, HasUser
<1>18. Chain(v)'
  <2>1. Confirming(v)'
    BY <1>3, <1>4, <1>12, <1>14, <1>16, <1>17 DEF Confirming
  <2> QED
    BY <2>1 DEF Chain
<1>19. Solo'
  BY <1>9, <1>14, <1>18, TurnGoesOn
<1>20. Base'
  <2>1. \A r \in Schools : member'[r] \subseteq {1}
    BY <1>2, <1>15 DEF UserInv
  <2>2. \A u \in OxIds : u # 1 => oxUser'[u] = NoUser
    BY <1>2, <1>13 DEF UserInv
  <2> QED
    BY <1>2, <1>9, <1>12, <1>13, <2>1, <2>2, BaseCall
<1> QED
  BY <1>19, <1>20

(* The user of OX gets the new address. *)
LEMMA SoloChangeUser ==
  ASSUME Here, ~Fault, NEW t, Alone(t), ChangeUser(t) PROVE Solo' /\ Base'
<1>1. t.at = "oxChange"
  BY DEF ChangeUser, At
<1>2. /\ Base /\ UserInv /\ SessionInv /\ Typed /\ t \in Handlers /\ t.q \in Sessions /\ t \in tasks
  BY AloneKnows
<1>3. Changing(t) /\ Pending /\ HasUser /\ AsEntitled /\ t.ox = 1 /\ t.text = row[Cur].text
      /\ t.for = IF Entitled = {} THEN "disabled" ELSE "confirm"
  BY <1>1 DEF Alone, Chain, Renaming, Generating, Changing, Confirming, Retaining, Beginning, Creating, Joining
<1>4. PICK step \in {"keycloakSet", "confirmDisabled"} : step = IF Entitled = {} THEN "confirmDisabled" ELSE "keycloakSet"
  OBVIOUS
<1>5. (IF t.for = "confirm" THEN "keycloakSet" ELSE "confirmDisabled") = step
  BY <1>3, <1>4
<1>6. PICK x : x = Task(t.q, step)
  OBVIOUS
<1>7. PICK y : y = Saves(x, step, t.for)
  OBVIOUS
<1>8. PICK v : v = [y EXCEPT !.ox = t.ox, !.text = t.text]
  OBVIOUS
<1>9. oxUser' = [oxUser EXCEPT ![1] = [name |-> username[t.q], primary |-> t.text]] /\ Do(t, {v})
  BY <1>3, <1>5, <1>6, <1>7, <1>8 DEF ChangeUser
<1>10. x \in Handlers /\ x.q = t.q
  <2>1. step \in Places
    BY <1>4 DEF Places
  <2> QED
    BY <1>2, <1>6, <2>1, TaskShaped
<1>11. y \in Handlers /\ y.at = step /\ y.q = t.q
  BY <1>2, <1>4, <1>7, <1>10 DEF Saves, Handlers, Places
<1>12. v.at = step /\ v.q = t.q /\ v.ox = 1 /\ v.text = row[Cur].text
  BY <1>3, <1>8, <1>11 DEF Handlers
<1>13. UNCHANGED <<row, order, person, schools, offers, member, keycloak, loaded, username>>
  BY DEF ChangeUser, table, copy
<1>14. Entitled' = Entitled /\ Cur' = Cur /\ (Pending' <=> Pending)
  BY <1>13, SameRights, SameTable
<1>15. oxUser'[1] = [name |-> username[t.q], primary |-> row[Cur].text]
       /\ \A u \in OxIds : u # 1 => oxUser'[u] = NoUser
  <2>1. 1 \in OxIds /\ oxUser \in [OxIds -> [name : Names \union {0}, primary : Texts]]
    BY <1>2, TypedParts, BoundsAssumption DEF OthersTyped, OxIds
  <2> QED
    BY <1>2, <1>3, <1>9, <2>1 DEF UserInv
<1>16. Primary(v)'
  <2>1. username[t.q] \in Names
    <3>1. username[t.q] = person.name /\ person.name \in Names
      BY <1>2, TypedParts DEF SessionInv, OthersTyped
    <3> QED
      BY <3>1
  <2>2. oxUser'[1] # NoUser
    BY <1>15, <2>1 DEF NoUser, Names
  <2> QED
    BY <1>12, <1>13, <1>14, <1>15, <2>2 DEF Primary, HasUser
<1>17. MembersAre(Entitled)' /\ AsEntitled'
  BY <1>3, <1>13, <1>14 DEF AsEntitled, MembersAre
<1>18. Chain(v)'
  <2>1. CASE Entitled = {}
    <3>1. Retaining(v)'
      BY <1>3, <1>4, <1>12, <1>14, <1>16, <1>17, <2>1 DEF Retaining
    <3> QED
      BY <3>1 DEF Chain
  <2>2. CASE Entitled # {}
    <3>1. Confirming(v)'
      BY <1>3, <1>4, <1>12, <1>14, <1>16, <1>17, <2>2 DEF Confirming
    <3> QED
      BY <3>1 DEF Chain
  <2> QED
    BY <2>1, <2>2
<1>19. Solo'
  BY <1>9, <1>14, <1>18, TurnGoesOn
<1>20. Base'
  <2>1. \A r \in Schools : member'[r] \subseteq {1}
    BY <1>2, <1>13 DEF UserInv
  <2> QED
    BY <1>2, <1>9, <1>12, <1>13, <1>15, <2>1, BaseCall
<1> QED
  BY <1>19, <1>20

(* The attribute is written to Keycloak. *)
LEMMA SoloKeycloakSet ==
  ASSUME Here, ~Fault, NEW t, Alone(t), KeycloakSet(t) PROVE Solo' /\ Base' /\ keycloak' = "set"
<1>1. t.at = "keycloakSet"
  BY DEF KeycloakSet, At
<1>2. /\ Base /\ UserInv /\ SessionInv /\ Typed /\ t \in Handlers /\ t.q \in Sessions /\ t \in tasks
  BY AloneKnows
<1>3. Confirming(t) /\ Pending /\ Primary(t) /\ MembersAre(Entitled) /\ Entitled # {}
  BY <1>1 DEF Alone, Chain, Renaming, Generating, Changing, Confirming, Retaining, Beginning, Creating, Joining
<1>4. Finds(t)
  BY <1>2 DEF Here, SessionInv, Finds
<1>5. PICK x : x = Task(t.q, "confirm")
  OBVIOUS
<1>6. PICK v : v = [x EXCEPT !.ox = t.ox, !.text = t.text]
  OBVIOUS
<1>7. keycloak' = "set" /\ Do(t, {v})
  BY <1>4, <1>5, <1>6 DEF KeycloakSet
<1>8. x \in Handlers /\ x.at = "confirm" /\ x.q = t.q
  <2>1. "confirm" \in Places
    BY DEF Places
  <2> QED
    BY <1>2, <1>5, <2>1, TaskShaped
<1>9. v.at = "confirm" /\ v.q = t.q /\ v.ox = t.ox /\ v.text = t.text
  BY <1>6, <1>8 DEF Handlers
<1>10. UNCHANGED <<row, order, person, schools, offers, oxUser, member, loaded, username>>
  BY DEF KeycloakSet, table, copy, ox
<1>11. Entitled' = Entitled /\ Cur' = Cur /\ (Pending' <=> Pending)
  BY <1>10, SameRights, SameTable
<1>12. MembersAre(Entitled)' /\ Primary(v)'
  BY <1>3, <1>9, <1>10, <1>11 DEF Primary, HasUser, MembersAre
<1>13. Chain(v)'
  <2>1. Confirming(v)'
    BY <1>3, <1>7, <1>9, <1>11, <1>12 DEF Confirming
  <2> QED
    BY <2>1 DEF Chain
<1>14. Solo'
  BY <1>7, <1>11, <1>13, TurnGoesOn
<1>15. Base'
  BY <1>2, <1>7, <1>9, <1>10, BaseCall DEF UserInv
<1> QED
  BY <1>7, <1>14, <1>15

(* A row for an address that was made up. *)
LEMMA RowCreated ==
  ASSUME Typed, TableInv, NEW q \in Sessions, NEW text \in Slots \ UsedTexts, Create(q, Requested(text))
  PROVE  /\ TableInv' /\ HasRows' /\ Cur' \in Slots \ Known /\ Known' = Known \union {Cur'}
         /\ row'[Cur'] = Requested(text) /\ \A b \in Slots : b # Cur' => row'[b] = row[b]
         /\ loaded' = [loaded EXCEPT ![q] = Append(@, Cur')]
<1> DEFINE a == Len(order) + 1
<1>1. order \in Seq(Slots) /\ Len(order) \in Nat /\ a \in Nat
  BY KnownRows
<1>2. /\ a \in Slots /\ row' = [row EXCEPT ![a] = Requested(text)] /\ order' = <<a>> \o order
      /\ loaded' = [loaded EXCEPT ![q] = Append(@, a)]
  BY DEF Create
<1>3. /\ Len(order') = Len(order) + 1 /\ order'[1] = a
      /\ \A i \in 1 .. Len(order) : order'[i + 1] = order[i]
  BY <1>1, <1>2
<1>4. HasRows' /\ Cur' = a
  BY <1>1, <1>3 DEF HasRows, Cur
<1>5. a \notin Known /\ Known' = Known \union {a} /\ Known \subseteq Slots
  BY <1>1, <1>2, <1>3 DEF Known, Slots
<1>6. row'[a] = Requested(text) /\ \A b \in Slots : b # a => row'[b] = row[b]
  BY <1>2, TypedParts DEF TableTyped
<1>7. /\ Requested(text) # NoRow /\ Requested(text).text = text /\ Requested(text).status = "REQUESTED"
      /\ IsAddress(text) /\ \A b \in Slots : row[b].text # text
  BY DEF Requested, NoRow, IsAddress, Slots, UsedTexts
<1>8. TableInv'
  <2>1. \A b \in Slots : row'[b] = NoRow <=> b \notin Known'
    BY <1>5, <1>6, <1>7 DEF TableInv
  <2>2. \A i \in 1 .. Len(order') : order'[i] \in Known'
    <3>1. ASSUME NEW i \in 1 .. Len(order'), i # 1 PROVE order'[i] \in Known'
      <4>1. i - 1 \in 1 .. Len(order) /\ (i - 1) + 1 = i
        BY <1>1, <1>3, <3>1
      <4>2. order'[i] = order[i - 1]
        BY <1>3, <4>1
      <4> QED
        BY <1>5, <4>1, <4>2 DEF TableInv
    <3> QED
      BY <1>3, <1>5, <3>1
  <2>3. \A b \in Known' : row'[b].status # "FAILED" /\ IsAddress(row'[b].text)
    BY <1>5, <1>6, <1>7 DEF TableInv
  <2>4. \A b, c \in Known' : row'[b].text = row'[c].text => b = c
    BY <1>5, <1>6, <1>7 DEF TableInv
  <2> QED
    BY <2>1, <2>2, <2>3, <2>4 DEF TableInv, IsAddress
<1> HIDE DEF a
<1> QED
  BY <1>2, <1>4, <1>5, <1>6, <1>8

(* The copy of the person has the new row, too. *)
LEMMA SessionCreated ==
  ASSUME Typed, SessionInv, NEW t \in tasks, HasRows', Known \subseteq Known', Cur' \in Known',
         loaded' = [loaded EXCEPT ![t.q] = Append(@, Cur')], UNCHANGED <<person, username>>,
         \A u \in tasks' : u.q = t.q
  PROVE  SessionInv' /\ (HasRows => loaded'[t.q][1] \in Known)
<1>1. t.q \in Sessions /\ loaded \in [Sessions -> Seq(Slots)]
  BY TaskTyped, TypedParts DEF TableTyped
<1>2. username[t.q] = person.name /\ (HasRows <=> loaded[t.q] # <<>>) /\ (loaded[t.q] # <<>> => loaded[t.q][1] \in Known)
  BY DEF SessionInv
<1>3. PICK l : l = loaded[t.q]
  OBVIOUS
<1>4. l \in Seq(Slots)
  BY <1>1, <1>3
<1>5. loaded'[t.q] = Append(l, Cur')
  BY <1>1, <1>3
<1>6. Append(l, Cur') # <<>> /\ Append(l, Cur')[1] = IF l = <<>> THEN Cur' ELSE l[1]
  <2>1. PICK c \in Slots : c = Cur'
    BY DEF Known
  <2>2. Append(l, c) # <<>> /\ (l = <<>> => Append(l, c)[1] = c) /\ (l # <<>> => Append(l, c)[1] = l[1])
    BY <1>4
  <2> QED
    BY <2>1, <2>2
<1> QED
  BY <1>2, <1>3, <1>5, <1>6 DEF SessionInv

(* The new row is written, *)
LEMMA ChainCreates ==
  ASSUME Here, NEW t, Alone(t), Write(t), Generating(t) \/ Beginning(t)
  PROVE  /\ TableInv' /\ HasRows' /\ Cur' \notin Known /\ Known' = Known \union {Cur'} /\ Known \subseteq Slots
         /\ row'[Cur'].status = "REQUESTED" /\ \A b \in Known : row'[b] = row[b]
         /\ loaded' = [loaded EXCEPT ![t.q] = Append(@, Cur')]
         /\ Do(t, AfterSaved(t))
         /\ UNCHANGED <<person, schools, offers, oxUser, member, keycloak, username>>
<1>1. Typed /\ TableInv /\ t.q \in Sessions /\ person.exists
  BY AloneKnows
<1>2. PICK text \in Slots \ UsedTexts : Holds(t, 0, Requested(text))
  BY DEF Generating, Beginning, Write, At
<1>3. Held(t) = 0 /\ t.held[0] = Requested(text)
  BY <1>2, HoldsHeld
<1>4. CanWrite(0, Requested(text))
  BY <1>1, <1>2 DEF CanWrite, Requested, UsedTexts
<1>5. Create(t.q, Requested(text)) /\ Do(t, AfterSaved(t))
  BY <1>3, <1>4 DEF Write
<1>6. UNCHANGED <<person, schools, offers, oxUser, member, keycloak, username>>
  BY DEF Write, ox
<1>7. Known \subseteq Slots
  BY DEF Known
<1> QED
  BY <1>1, <1>5, <1>6, <1>7, RowCreated DEF Requested

(* after which the user of OX is to get its address, *)
LEMMA SoloWriteNew ==
  ASSUME Here, NEW t, Alone(t), Write(t), Generating(t) PROVE Solo' /\ Base'
<1>1. /\ TableInv' /\ HasRows' /\ Cur' \notin Known /\ Known' = Known \union {Cur'} /\ Known \subseteq Slots
      /\ row'[Cur'].status = "REQUESTED" /\ \A b \in Known : row'[b] = row[b]
      /\ loaded' = [loaded EXCEPT ![t.q] = Append(@, Cur')]
      /\ Do(t, AfterSaved(t))
      /\ UNCHANGED <<person, schools, offers, oxUser, member, keycloak, username>>
  BY ChainCreates
<1>2. Typed /\ Base /\ SessionInv /\ UserInv /\ t.q \in Sessions /\ t \in tasks
  BY AloneKnows
<1>3. /\ t.for = IF Entitled = {} THEN "disabled" ELSE "change"
      /\ HasRows /\ HasUser /\ (\A a \in Known : Former(a)) /\ AsEntitled
  BY DEF Generating
<1>4. PICK for \in {"disabled", "confirm"} : for = IF Entitled = {} THEN "disabled" ELSE "confirm"
  OBVIOUS
<1>5. PICK x : x = Task(t.q, "change")
  OBVIOUS
<1>6. PICK v : v = Saves(x, "change", for)
  OBVIOUS
<1>7. Do(t, {v})
  <2>1. AfterSaved(t) = {v}
    <3>1. CASE Entitled = {}
      BY <1>3, <1>4, <1>5, <1>6, <3>1 DEF AfterSaved
    <3>2. CASE Entitled # {}
      BY <1>3, <1>4, <1>5, <1>6, <3>2 DEF AfterSaved
    <3> QED
      BY <3>1, <3>2
  <2> QED
    BY <1>1, <2>1
<1>8. v.at = "change" /\ v.for = for /\ v.q = t.q
  <2>1. "change" \in Places
    BY DEF Places
  <2>2. x \in Handlers /\ x.q = t.q
    BY <1>2, <1>5, <2>1, TaskShaped
  <2> QED
    BY <1>6, <2>2 DEF Saves, Handlers
<1>9. \A u \in tasks' : u.q = t.q
  BY <1>2, <1>7, <1>8 DEF Do, SessionInv
<1>10. SessionInv' /\ loaded'[t.q][1] \in Known
  BY <1>1, <1>2, <1>3, <1>9, SessionCreated
<1>11. Entitled' = Entitled
  BY <1>1, SameRights
<1>12. AsEntitled' /\ HasUser'
  BY <1>1, <1>3, <1>11 DEF AsEntitled, MembersAre, HasUser
<1>13. Pending'
  <2>1. \A a \in Known : row'[a].status = "DISABLED" /\ row'[a].ox = 1
    BY <1>1, <1>3 DEF Former
  <2>2. \A a \in Known' : a # Cur' => Former(a)'
    BY <1>1, <2>1 DEF Former
  <2> QED
    BY <1>1, <2>2 DEF Pending
<1>14. Chain(v)'
  <2>1. loaded'[v.q][1] # Cur'
    BY <1>1, <1>8, <1>10
  <2>2. Changing(v)'
    BY <1>4, <1>8, <1>11, <1>12, <1>13, <2>1 DEF Changing
  <2> QED
    BY <2>2 DEF Chain
<1>15. Solo'
  BY <1>7, <1>11, <1>14, TurnGoesOn
<1>16. UserInv'
  BY <1>1, <1>2 DEF UserInv
<1> QED
  BY <1>1, <1>10, <1>15, <1>16 DEF Base

(* or to be created. *)
LEMMA SoloWriteFirst ==
  ASSUME Here, NEW t, Alone(t), Write(t), Beginning(t) PROVE Solo' /\ Base'
<1>1. /\ TableInv' /\ HasRows' /\ Cur' \notin Known /\ Known' = Known \union {Cur'} /\ Known \subseteq Slots
      /\ row'[Cur'].status = "REQUESTED" /\ \A b \in Known : row'[b] = row[b]
      /\ loaded' = [loaded EXCEPT ![t.q] = Append(@, Cur')]
      /\ Do(t, AfterSaved(t))
      /\ UNCHANGED <<person, schools, offers, oxUser, member, keycloak, username>>
  BY ChainCreates
<1>2. Typed /\ Base /\ SessionInv /\ UserInv /\ TableInv /\ t.q \in Sessions /\ t \in tasks /\ t \in Handlers
  BY AloneKnows
<1>3. /\ t.for = "create" /\ t.school = Entitled /\ t.todo = {}
      /\ ~HasRows /\ ~HasUser /\ MembersAre({}) /\ \E s \in Schools : Entitled = {s}
  BY DEF Beginning, Write, At
<1>4. PICK x : x = Task(t.q, "create")
  OBVIOUS
<1>5. PICK v : v = [x EXCEPT !.school = t.school]
  OBVIOUS
<1>6. Do(t, {v})
  <2>1. AfterSaved(t) = {} \union {v}
    BY <1>3, <1>4, <1>5 DEF AfterSaved, Loop, Generated
  <2>2. {} \union {v} = {v}
    OBVIOUS
  <2> QED
    BY <1>1, <2>1, <2>2
<1>7. v.at = "create" /\ v.school = Entitled /\ v.q = t.q
  <2>1. "create" \in Places
    BY DEF Places
  <2>2. x \in Handlers /\ x.at = "create" /\ x.q = t.q
    BY <1>2, <1>4, <2>1, TaskShaped
  <2> QED
    BY <1>3, <1>5, <2>2 DEF Handlers
<1>8. \A u \in tasks' : u.q = t.q
  BY <1>2, <1>6, <1>7 DEF Do, SessionInv
<1>9. SessionInv'
  BY <1>1, <1>2, <1>8, SessionCreated
<1>10. Entitled' = Entitled
  BY <1>1, SameRights
<1>11. MembersAre({})' /\ ~HasUser'
  BY <1>1, <1>3 DEF MembersAre, HasUser
<1>12. Pending'
  <2>1. Known = {}
    BY <1>2, <1>3, KnownRows
  <2> QED
    BY <1>1, <2>1 DEF Pending
<1>13. Chain(v)'
  <2>1. Creating(v)'
    BY <1>3, <1>7, <1>10, <1>11, <1>12 DEF Creating
  <2> QED
    BY <2>1 DEF Chain
<1>14. Solo'
  BY <1>6, <1>10, <1>13, TurnGoesOn
<1>15. UserInv'
  BY <1>1, <1>2 DEF UserInv
<1> QED
  BY <1>1, <1>9, <1>14, <1>15 DEF Base

(* The current row is written. *)
LEMMA ChainWrites ==
  ASSUME Here, NEW t, Alone(t), Write(t), HasRows, NEW m \in EmailAddress, Holds(t, Cur, m),
         m.text = row[Cur].text, m.status # "FAILED"
  PROVE  /\ TableInv' /\ HasRows' /\ Cur' = Cur /\ Known' = Known /\ Known \subseteq Slots
         /\ row'[Cur] = m /\ \A b \in Known : b # Cur => row'[b] = row[b]
         /\ Do(t, AfterSaved(t))
         /\ UNCHANGED <<person, schools, offers, oxUser, member, keycloak, username, loaded>>
         /\ Entitled' = Entitled /\ UserInv' /\ (HasUser' <=> HasUser) /\ (AsEntitled' <=> AsEntitled)
         /\ \A u : Primary(u)' <=> Primary(u)
         /\ (\A u \in tasks' : u.q = t.q) => SessionInv'
<1>1. Typed /\ TableInv /\ SessionInv /\ UserInv /\ person.exists /\ t \in tasks /\ Cur # 0
  BY AloneKnows
<1>2. Held(t) = Cur /\ t.held[Cur] = m
  BY HoldsHeld
<1>3. CanWrite(Cur, m)
  BY <1>1, CanWriteCur
<1>4. Update(Cur, m) /\ Do(t, AfterSaved(t))
  BY <1>1, <1>2, <1>3 DEF Write
<1>5. UNCHANGED <<person, schools, offers, oxUser, member, keycloak, username>>
  BY DEF Write, ox
<1>6. /\ TableInv' /\ HasRows' /\ Cur' = Cur /\ Known' = Known /\ UNCHANGED loaded
      /\ row'[Cur] = m /\ \A a \in Slots : a # Cur => row'[a] = row[a]
  BY <1>1, <1>4, CurWritten
<1>7. Known \subseteq Slots
  BY DEF Known
<1>8. Entitled' = Entitled
  BY <1>5, SameRights
<1>9. UserInv' /\ (HasUser' <=> HasUser)
  BY <1>1, <1>5 DEF UserInv, HasUser
<1>10. AsEntitled' <=> AsEntitled
  BY <1>5, <1>8 DEF AsEntitled, MembersAre
<1>11. \A u : Primary(u)' <=> Primary(u)
  <2>1. row'[Cur'].text = row[Cur].text /\ oxUser' = oxUser
    BY <1>5, <1>6
  <2> QED
    BY <1>9, <2>1 DEF Primary
<1>12. (\A u \in tasks' : u.q = t.q) => SessionInv'
  BY <1>1, <1>5, <1>6, SessionWritten
<1> QED
  BY <1>4, <1>5, <1>6, <1>7, <1>8, <1>9, <1>10, <1>11, <1>12

(* Nobody but handlers of the same session goes on. *)
LEMMA SameSession ==
  ASSUME SessionInv, NEW t, NEW T, Do(t, T), \A u \in T : u.q = t.q
  PROVE  \A u \in tasks' : u.q = t.q
BY DEF Do, SessionInv

(* The address of the old name is disabled. *)
LEMMA SoloWriteRenamed ==
  ASSUME Here, NEW t, Alone(t), Write(t), Renaming(t) PROVE Solo' /\ Base'
<1>1. t.at = "write" /\ t.for = "rename" /\ Entitled # {} /\ Holds(t, Cur, Disabling(Cur)) /\ Steady /\ AsEntitled /\ HasRows
  BY DEF Write, At, Renaming, IsEnabled
<1>2. /\ Base /\ SessionInv /\ UserInv /\ t.q \in Sessions /\ t \in tasks
      /\ Cur \in Known /\ row[Cur] \in EmailAddress
  BY <1>1, AloneKnows
<1>3. PICK m : m = Disabling(Cur)
  OBVIOUS
<1>4. m \in EmailAddress /\ m.text = row[Cur].text /\ m.ox = 1 /\ m.status = "DISABLED"
  BY <1>1, <1>2, <1>3 DEF Disabling, EmailAddress, EmailAddressStatus, Steady
<1>5. Holds(t, Cur, m) /\ m.status # "FAILED"
  BY <1>1, <1>3, <1>4
<1>6. /\ TableInv' /\ HasRows' /\ Cur' = Cur /\ Known' = Known
      /\ row'[Cur] = m /\ \A b \in Known : b # Cur => row'[b] = row[b]
      /\ Do(t, AfterSaved(t))
      /\ Entitled' = Entitled /\ UserInv' /\ (HasUser' <=> HasUser) /\ (AsEntitled' <=> AsEntitled)
      /\ (\A u \in tasks' : u.q = t.q) => SessionInv'
  BY <1>1, <1>4, <1>5, ChainWrites
<1>7. PICK x : x = Task(t.q, "generate")
  OBVIOUS
<1>8. PICK y : y = Saves(x, "generate", "change")
  OBVIOUS
<1>9. PICK v : v = [y EXCEPT !.school = t.school]
  OBVIOUS
<1>10. Do(t, {v})
  BY <1>1, <1>6, <1>7, <1>8, <1>9 DEF AfterSaved
<1>11. x \in Handlers /\ x.q = t.q
  <2>1. "generate" \in Places
    BY DEF Places
  <2> QED
    BY <1>2, <1>7, <2>1, TaskShaped
<1>12. y \in Handlers /\ y.at = "generate" /\ y.for = "change" /\ y.q = t.q
  BY <1>8, <1>11 DEF Saves, Handlers, Places, Purposes
<1>13. v.at = "generate" /\ v.for = "change" /\ v.q = t.q
  BY <1>9, <1>12 DEF Handlers
<1>14. \A a \in Known' : Former(a)'
  BY <1>1, <1>4, <1>6 DEF Steady, Former
<1>15. Chain(v)'
  <2>1. Generating(v)'
    BY <1>1, <1>6, <1>13, <1>14 DEF Generating, Steady
  <2> QED
    BY <2>1 DEF Chain
<1>16. Solo'
  BY <1>6, <1>10, <1>15, TurnGoesOn
<1>17. SessionInv'
  <2>1. \A u \in {v} : u.q = t.q
    BY <1>13
  <2> QED
    BY <1>2, <1>6, <1>10, <2>1, SameSession
<1> QED
  BY <1>6, <1>16, <1>17 DEF Base

(* The row has its user of OX. *)
LEMMA SoloWriteUser ==
  ASSUME Here, NEW t, Alone(t), Write(t), Joining(t) PROVE Solo' /\ Base'
<1> DEFINE m == [status |-> "REQUESTED", ox |-> 1, text |-> row[Cur].text]
<1>1. t.at = "write" /\ t.for = "oxid" /\ Holds(t, Cur, m) /\ Pending /\ HasRows /\ t.school = Entitled /\ Primary(t)
      /\ MembersAre({}) /\ \E s \in Schools : Entitled = {s}
  BY DEF Write, At, Joining, Pending
<1>2. /\ Base /\ SessionInv /\ UserInv /\ t.q \in Sessions /\ t \in tasks /\ t \in Handlers
      /\ Cur \in Known /\ row[Cur] \in EmailAddress
  BY <1>1, AloneKnows
<1>3. m \in EmailAddress /\ m.text = row[Cur].text /\ m.status = "REQUESTED"
  BY <1>2, BoundsAssumption DEF EmailAddress, EmailAddressStatus, OxIds
<1> HIDE DEF m
<1>4. /\ TableInv' /\ HasRows' /\ Cur' = Cur /\ Known' = Known
      /\ row'[Cur] = m /\ \A b \in Known : b # Cur => row'[b] = row[b]
      /\ Do(t, AfterSaved(t))
      /\ UNCHANGED <<person, schools, offers, oxUser, member, keycloak, username, loaded>>
      /\ Entitled' = Entitled /\ UserInv' /\ (HasUser' <=> HasUser)
      /\ \A u : Primary(u)' <=> Primary(u)
      /\ (\A u \in tasks' : u.q = t.q) => SessionInv'
  BY <1>1, <1>3, ChainWrites
<1>5. PICK v : v = Goes(t, "join")
  OBVIOUS
<1>6. Do(t, {v})
  BY <1>1, <1>4, <1>5 DEF AfterSaved
<1>7. v.at = "join" /\ v.q = t.q /\ v.school = t.school /\ v.held = t.held /\ v.ox = t.ox /\ v.text = t.text
  BY <1>2, <1>5 DEF Goes, Handlers
<1>8. Pending'
  <2>1. row'[Cur].status = "REQUESTED" /\ \A a \in Known : a # Cur => row'[a].status = "DISABLED" /\ row'[a].ox = 1
    BY <1>1, <1>3, <1>4 DEF Pending, Former
  <2> QED
    BY <1>4, <2>1 DEF Pending, Former
<1>9. MembersAre({})' /\ Primary(v)'
  BY <1>1, <1>4, <1>7 DEF MembersAre, Primary
<1>10. Holds(v, Cur, [status |-> "REQUESTED", ox |-> 1, text |-> row[Cur].text])'
  <2>1. row'[Cur'].text = row[Cur].text /\ Cur' = Cur
    BY <1>3, <1>4
  <2> QED
    BY <1>1, <1>7, <2>1 DEF Holds, m
<1>11. Chain(v)'
  <2>1. Joining(v)'
    BY <1>1, <1>4, <1>7, <1>8, <1>9, <1>10 DEF Joining
  <2> QED
    BY <2>1 DEF Chain
<1>12. Solo'
  BY <1>4, <1>6, <1>11, TurnGoesOn
<1>13. SessionInv'
  <2>1. \A u \in {v} : u.q = t.q
    BY <1>7
  <2> QED
    BY <1>2, <1>4, <1>6, <2>1, SameSession
<1> QED
  BY <1>4, <1>12, <1>13 DEF Base

(* The row is the one enabled address. *)
LEMMA SoloWriteConfirmed ==
  ASSUME Here, NEW t, Alone(t), Write(t), Confirming(t) PROVE On' /\ Base'
<1> DEFINE m == [status |-> "ENABLED", ox |-> 1, text |-> row[Cur].text]
<1>1. t.at = "write" /\ t.for = "confirm" /\ Holds(t, Cur, m) /\ Pending /\ HasRows /\ Primary(t)
      /\ MembersAre(Entitled) /\ Entitled # {} /\ keycloak = "set"
  BY DEF Write, At, Confirming, Pending
<1>2. /\ Base /\ SessionInv /\ UserInv /\ t.q \in Sessions /\ t \in tasks /\ Entitled \subseteq Schools
      /\ Cur \in Known /\ row[Cur] \in EmailAddress
  BY <1>1, AloneKnows
<1>3. m \in EmailAddress /\ m.text = row[Cur].text /\ m.status = "ENABLED" /\ m.ox = 1
  BY <1>2, BoundsAssumption DEF EmailAddress, EmailAddressStatus, OxIds
<1> HIDE DEF m
<1>4. /\ TableInv' /\ HasRows' /\ Cur' = Cur /\ Known' = Known
      /\ row'[Cur] = m /\ \A b \in Known : b # Cur => row'[b] = row[b]
      /\ Do(t, AfterSaved(t))
      /\ UNCHANGED <<person, schools, offers, oxUser, member, keycloak, username, loaded>>
      /\ Entitled' = Entitled /\ UserInv' /\ (HasUser' <=> HasUser)
      /\ (\A u \in tasks' : u.q = t.q) => SessionInv'
  BY <1>1, <1>3, ChainWrites
<1>5. Do(t, {})
  BY <1>1, <1>4 DEF AfterSaved
<1>6. Steady'
  <2>1. \A a \in Known' : row'[a].ox = 1 /\ row'[a].status \in {"ENABLED", "DISABLED"} /\ (row'[a].status = "ENABLED" => a = Cur')
    BY <1>1, <1>3, <1>4 DEF Pending, Former
  <2>2. oxUser'[1].primary = row'[Cur'].text /\ HasUser'
    BY <1>1, <1>3, <1>4 DEF Primary
  <2> QED
    BY <1>4, <2>1, <2>2 DEF Steady
<1>7. MembersAre(Entitled)' /\ keycloak' = "set" /\ IsEnabled'
  BY <1>1, <1>3, <1>4 DEF MembersAre, IsEnabled
<1>8. On'
  BY <1>1, <1>2, <1>4, <1>5, <1>6, <1>7, TurnEndsOn
<1>9. SessionInv'
  BY <1>2, <1>4, <1>5, SameSession
<1> QED
  BY <1>4, <1>8, <1>9 DEF Base

(* The row is the address kept, which is disabled. *)
LEMMA SoloWriteRetained ==
  ASSUME Here, NEW t, Alone(t), Write(t), Retaining(t) PROVE Off' /\ Base'
<1> DEFINE m == [status |-> "DISABLED", ox |-> 1, text |-> row[Cur].text]
<1>1. t.at = "write" /\ t.for = "disable" /\ Holds(t, Cur, m) /\ Pending /\ HasRows /\ Primary(t)
      /\ AsEntitled /\ Entitled = {}
  BY DEF Write, At, Retaining, Pending
<1>2. /\ Base /\ SessionInv /\ UserInv /\ t.q \in Sessions /\ t \in tasks
      /\ Cur \in Known /\ row[Cur] \in EmailAddress
  BY <1>1, AloneKnows
<1>3. m \in EmailAddress /\ m.text = row[Cur].text /\ m.status = "DISABLED" /\ m.ox = 1
  BY <1>2, BoundsAssumption DEF EmailAddress, EmailAddressStatus, OxIds
<1> HIDE DEF m
<1>4. /\ TableInv' /\ HasRows' /\ Cur' = Cur /\ Known' = Known
      /\ row'[Cur] = m /\ \A b \in Known : b # Cur => row'[b] = row[b]
      /\ Do(t, AfterSaved(t))
      /\ UNCHANGED <<person, schools, offers, oxUser, member, keycloak, username, loaded>>
      /\ Entitled' = Entitled /\ UserInv' /\ (HasUser' <=> HasUser)
      /\ (\A u \in tasks' : u.q = t.q) => SessionInv'
  BY <1>1, <1>3, ChainWrites
<1>5. Do(t, {})
  BY <1>1, <1>4 DEF AfterSaved
<1>6. Steady'
  <2>1. \A a \in Known' : row'[a].ox = 1 /\ row'[a].status = "DISABLED"
    BY <1>1, <1>3, <1>4 DEF Pending, Former
  <2>2. oxUser'[1].primary = row'[Cur'].text /\ HasUser'
    BY <1>1, <1>3, <1>4 DEF Primary
  <2> QED
    BY <1>4, <2>1, <2>2 DEF Steady
<1>7. MembersAre({})' /\ keycloak' # "set" /\ ~IsEnabled'
  BY <1>1, <1>3, <1>4 DEF MembersAre, IsEnabled, AsEntitled
<1>8. Off'
  BY <1>1, <1>4, <1>5, <1>6, <1>7, TurnEndsOff
<1>9. SessionInv'
  BY <1>2, <1>4, <1>5, SameSession
<1> QED
  BY <1>4, <1>8, <1>9 DEF Base

(* Whatever was written for the one whose turn it is. *)
LEMMA SoloWrite ==
  ASSUME Here, NEW t, Alone(t), Write(t) PROVE (Off \/ On \/ Solo)' /\ Base'
<1>1. t.at = "write"
  BY DEF Write, At
<1>2. Renaming(t) \/ Generating(t) \/ Beginning(t) \/ Joining(t) \/ Confirming(t) \/ Retaining(t)
  BY <1>1 DEF Alone, Chain, Changing, Creating
<1> QED
  BY <1>2, SoloWriteRenamed, SoloWriteNew, SoloWriteFirst, SoloWriteUser, SoloWriteConfirmed, SoloWriteRetained

(* A step for a person without a right to an address. *)
LEMMA OffStep ==
  ASSUME Here, Off, ~Fault, NEW t \in tasks, Step(t) PROVE Off' /\ Base'
<1>1. t.at \in OffSteps
  BY DEF Off, TaskOff
<1>2. ~CheckSave(t) /\ ~Write(t) /\ ~CreateOrEnable(t) /\ ~Generate(t) /\ ~HandleRenamed(t) /\ ~RenamedWith(t)
  BY <1>1 DEF OffSteps, At, CheckSave, Write, CreateOrEnable, Generate, HandleRenamed, RenamedWith
<1>3. ~RenamedWithout(t) /\ ~Confirm(t) /\ ~ConfirmDisabled(t) /\ ~Deactivate(t) /\ ~CreateRead(t) /\ ~CreateExists(t)
  BY <1>1 DEF OffSteps, At, RenamedWithout, Confirm, ConfirmDisabled, Deactivate, CreateRead, CreateExists
<1>4. ~CreateUser(t) /\ ~AlreadyExists(t) /\ ~Join(t) /\ ~ChangeRead(t) /\ ~ChangeUser(t) /\ ~DeletedInOx(t)
  BY <1>1 DEF OffSteps, At, CreateUser, AlreadyExists, Join, ChangeRead, ChangeUser, DeletedInOx
<1>5. ~Retire(t) /\ ~KeycloakSet(t) /\ ~DeleteRow(t)
  BY <1>1 DEF OffSteps, At, Retire, KeycloakSet, DeleteRow
<1>6. CASE HandlePerson(t) \/ DisableRead(t) \/ DisableOne(t) \/ DisableDone(t) \/ LeaveRead(t)
  BY <1>6, OffHandlePerson, OffDisableRead, OffDisableOne, OffDisableDone, OffLeaveRead
<1>7. CASE DisabledInOx(t) \/ ListGroups(t) \/ Leave(t) \/ LeaveDone(t) \/ KeycloakUnset(t)
  BY <1>7, OffDisabledInOx, OffListGroups, OffLeave, OffLeaveDone, OffKeycloakUnset
<1> QED
  BY <1>2, <1>3, <1>4, <1>5, <1>6, <1>7 DEF Step

(* A step for a person with a right to the address there is. *)
LEMMA OnStep ==
  ASSUME Here, On, ~Fault, NEW t \in tasks, Step(t) PROVE On' /\ Base'
<1>1. t.at \in {"person", "school", "save", "write", "alreadyExists", "join", "create", "keycloakSet", "confirm",
                "leaveRead", "leave"}
  BY DEF On, TaskOn, Stays
<1>2. ~Generate(t) /\ ~DisableRead(t) /\ ~DisableOne(t) /\ ~DisableDone(t) /\ ~HandleRenamed(t) /\ ~RenamedWith(t)
  BY <1>1 DEF At, Generate, DisableRead, DisableOne, DisableDone, HandleRenamed, RenamedWith
<1>3. ~RenamedWithout(t) /\ ~ConfirmDisabled(t) /\ ~Deactivate(t) /\ ~CreateExists(t)
  BY <1>1 DEF At, RenamedWithout, ConfirmDisabled, Deactivate, CreateExists
<1>4. ~CreateUser(t) /\ ~ChangeRead(t) /\ ~ChangeUser(t) /\ ~DeletedInOx(t) /\ ~DisabledInOx(t)
  BY <1>1 DEF At, CreateUser, ChangeRead, ChangeUser, DeletedInOx, DisabledInOx
<1>5. ~Retire(t) /\ ~ListGroups(t) /\ ~KeycloakUnset(t) /\ ~DeleteRow(t)
  BY <1>1 DEF At, Retire, ListGroups, KeycloakUnset, DeleteRow
<1>6. CASE CheckSave(t) \/ Write(t) \/ HandlePerson(t) \/ CreateOrEnable(t) \/ Confirm(t) \/ CreateRead(t)
  BY <1>6, OnCheckSave, OnWrite, OnHandlePerson, OnCreateOrEnable, OnConfirm, OnCreateRead
<1>7. CASE AlreadyExists(t) \/ Join(t) \/ LeaveRead(t) \/ Leave(t) \/ LeaveDone(t) \/ KeycloakSet(t)
  BY <1>7, OnAlreadyExists, OnJoin, OnLeaveRead, OnLeave, OnLeaveDone, OnKeycloakSet
<1> QED
  BY <1>2, <1>3, <1>4, <1>5, <1>6, <1>7 DEF Step

(* A step while an address is being made up. *)
LEMMA SoloStep ==
  ASSUME Here, Solo, ~Fault, NEW t \in tasks, Step(t) PROVE (Off \/ On \/ Solo)' /\ Base'
<1>1. PICK c \in tasks : Alone(c)
  BY DEF Solo, Alone
<1>2. CASE t # c
  <2>1. t.at \in {"leaveRead", "leave"}
    BY <1>1, <1>2 DEF Alone, Stays
  <2>2. LeaveRead(t) \/ Leave(t) \/ LeaveDone(t)
    <3>1. ~Generate(t) /\ ~DisableRead(t) /\ ~DisableOne(t) /\ ~DisableDone(t) /\ ~HandleRenamed(t) /\ ~RenamedWith(t)
      BY <2>1 DEF At, Generate, DisableRead, DisableOne, DisableDone, HandleRenamed, RenamedWith
    <3>2. ~RenamedWithout(t) /\ ~ConfirmDisabled(t) /\ ~Deactivate(t) /\ ~CreateExists(t) /\ ~CheckSave(t) /\ ~Write(t)
      BY <2>1 DEF At, RenamedWithout, ConfirmDisabled, Deactivate, CreateExists, CheckSave, Write
    <3>3. ~CreateUser(t) /\ ~ChangeRead(t) /\ ~ChangeUser(t) /\ ~DeletedInOx(t) /\ ~DisabledInOx(t) /\ ~HandlePerson(t)
      BY <2>1 DEF At, CreateUser, ChangeRead, ChangeUser, DeletedInOx, DisabledInOx, HandlePerson
    <3>4. ~Retire(t) /\ ~ListGroups(t) /\ ~KeycloakUnset(t) /\ ~DeleteRow(t) /\ ~CreateOrEnable(t) /\ ~Confirm(t)
      BY <2>1 DEF At, Retire, ListGroups, KeycloakUnset, DeleteRow, CreateOrEnable, Confirm
    <3>5. ~CreateRead(t) /\ ~AlreadyExists(t) /\ ~Join(t) /\ ~KeycloakSet(t)
      BY <2>1 DEF At, CreateRead, AlreadyExists, Join, KeycloakSet
    <3> QED
      BY <3>1, <3>2, <3>3, <3>4, <3>5 DEF Step
  <2> QED
    BY <1>1, <1>2, <2>2, SoloStays
<1>3. CASE t = c
  <2>1. Alone(t) /\ Chain(t)
    BY <1>1, <1>3 DEF Alone
  <2>2. t.at \in {"renamed", "renamedWith", "renamedWithout", "generate", "save", "write", "change", "oxChange",
                  "person", "school", "create", "exists", "oxCreate", "join", "keycloakSet", "confirm",
                  "confirmDisabled"}
    BY <2>1, ChainPlaces
  <2>3. ~DisableRead(t) /\ ~DisableOne(t) /\ ~DisableDone(t) /\ ~Deactivate(t) /\ ~AlreadyExists(t) /\ ~LeaveRead(t)
    BY <2>2 DEF At, DisableRead, DisableOne, DisableDone, Deactivate, AlreadyExists, LeaveRead
  <2>4. ~DisabledInOx(t) /\ ~DeletedInOx(t) /\ ~ListGroups(t) /\ ~Leave(t) /\ ~LeaveDone(t) /\ ~Retire(t)
    BY <2>2 DEF At, DisabledInOx, DeletedInOx, ListGroups, Leave, LeaveDone, Retire
  <2>5. ~KeycloakUnset(t) /\ ~DeleteRow(t)
    BY <2>2 DEF At, KeycloakUnset, DeleteRow
  <2>6. CASE CheckSave(t) \/ Write(t) \/ HandlePerson(t) \/ CreateOrEnable(t) \/ Generate(t)
    BY <2>1, <2>6, SoloCheckSave, SoloWrite, SoloHandlePerson, SoloCreateOrEnable, SoloGenerate
  <2>7. CASE HandleRenamed(t) \/ RenamedWith(t) \/ RenamedWithout(t) \/ Confirm(t) \/ ConfirmDisabled(t)
    BY <2>1, <2>7, SoloHandleRenamed, SoloRenamedWith, SoloRenamedWithout, SoloConfirm, SoloConfirmDisabled
  <2>8. CASE CreateRead(t) \/ CreateExists(t) \/ CreateUser(t) \/ Join(t)
    BY <2>1, <2>8, SoloCreateRead, SoloCreateExists, SoloCreateUser, SoloJoin
  <2>9. CASE ChangeRead(t) \/ ChangeUser(t) \/ KeycloakSet(t)
    BY <2>1, <2>9, SoloChangeRead, SoloChangeUser, SoloKeycloakSet
  <2> QED
    BY <2>3, <2>4, <2>5, <2>6, <2>7, <2>8, <2>9 DEF Step
<1> QED
  BY <1>2, <1>3

(* No handler but the one that deletes the row makes the person go away. *)
LEMMA StepKeeps ==
  ASSUME NEW t \in tasks, Step(t), t.at # "deleteRow", keycloak # "gone"
  PROVE  person' = person /\ keycloak' # "gone"
<1>1. CASE CheckSave(t) \/ Write(t) \/ HandlePerson(t) \/ CreateOrEnable(t) \/ Generate(t)
  BY <1>1 DEF CheckSave, Write, HandlePerson, CreateOrEnable, Generate
<1>2. CASE DisableRead(t) \/ DisableOne(t) \/ DisableDone(t) \/ HandleRenamed(t) \/ RenamedWith(t) \/ RenamedWithout(t)
  BY <1>2 DEF DisableRead, DisableOne, DisableDone, HandleRenamed, RenamedWith, RenamedWithout
<1>3. CASE Confirm(t) \/ ConfirmDisabled(t) \/ Deactivate(t) \/ CreateRead(t) \/ CreateExists(t) \/ CreateUser(t)
  BY <1>3 DEF Confirm, ConfirmDisabled, Deactivate, CreateRead, CreateExists, CreateUser
<1>4. CASE AlreadyExists(t) \/ Join(t) \/ ChangeRead(t) \/ ChangeUser(t) \/ LeaveRead(t) \/ DisabledInOx(t) \/ DeletedInOx(t)
  BY <1>4 DEF AlreadyExists, Join, ChangeRead, ChangeUser, LeaveRead, DisabledInOx, DeletedInOx
<1>5. CASE ListGroups(t) \/ Leave(t) \/ LeaveDone(t) \/ Retire(t) \/ KeycloakSet(t) \/ KeycloakUnset(t)
  BY <1>5 DEF ListGroups, Leave, LeaveDone, Retire, KeycloakSet, KeycloakUnset
<1>6. ~DeleteRow(t)
  BY DEF DeleteRow, At
<1> QED
  BY <1>1, <1>2, <1>3, <1>4, <1>5, <1>6 DEF Step

(* A step for a person that is not being deleted. *)
LEMMA LivingStep ==
  ASSUME Typed, Base, Living, ~Fault, NEW t \in tasks, Step(t) PROVE Living' /\ Base'
<1>1. Here /\ (Off \/ On \/ Solo)
  BY DEF Here, Living
<1>2. t.at # "deleteRow"
  <2>1. CASE Off
    BY <2>1 DEF Off, TaskOff, OffSteps
  <2>2. CASE On
    BY <2>2 DEF On, TaskOn, Stays
  <2>3. CASE Solo
    <3>1. PICK c \in tasks : Chain(c) /\ \A u \in tasks \ {c} : Stays(u)
      BY <2>3 DEF Solo
    <3> QED
      BY <3>1, ChainPlaces DEF Stays
  <2> QED
    BY <1>1, <2>1, <2>2, <2>3
<1>3. person' = person /\ keycloak' # "gone"
  BY <1>2, StepKeeps DEF Living
<1>4. (Off \/ On \/ Solo)' /\ Base'
  BY <1>1, OffStep, OnStep, SoloStep
<1> QED
  BY <1>3, <1>4 DEF Living

-----------------------------------------------------------------------------
(* The person is being deleted, or gone                                    *)

(* Nothing of the user's is left in OX. *)
Retired == MembersAre({}) /\ oxUser[1].name = 0

(* Whoever goes on takes over what the handler had yet to do. *)
LEMMA GoneGoesOn ==
  ASSUME Base, Gone, Same, NEW t, NEW T, Do(t, T), \A u \in T : TaskGone(u) /\ u.q = t.q,
         t.at # "deleteRow", Retires(t) /\ HasRows => Retired \/ \E u \in T : Retires(u)
  PROVE  Gone' /\ Base'
<1>1. t \in tasks /\ tasks' = (tasks \ {t}) \union T
  BY DEF Do
<1>2. /\ (Steady' <=> Steady) /\ (HasRows' <=> HasRows)
      /\ (MembersAre({})' <=> MembersAre({})) /\ oxUser' = oxUser
      /\ keycloak' = keycloak /\ person' = person
      /\ \A u : (TaskGone(u)' <=> TaskGone(u)) /\ (Retires(u)' <=> Retires(u))
  BY SameTable, SameGroups, SameState DEF Same
<1>3. \A u \in tasks' : TaskGone(u)'
  BY <1>1, <1>2 DEF Gone
<1>4. person.exists => \E u \in tasks' : u.at = "deleteRow"
  BY <1>1 DEF Gone
<1>5. Retired \/ (HasRows /\ \E u \in tasks' : Retires(u))
  BY <1>1 DEF Gone, Retired
<1>6. Gone'
  BY <1>2, <1>3, <1>4, <1>5 DEF Gone, Retired
<1>7. Base'
  BY BaseGoesOn
<1> QED
  BY <1>6, <1>7

(* Every handler is one of those. *)
LEMMA GoneTask ==
  ASSUME Typed, Base, Gone, NEW t \in tasks
  PROVE  t \in Handlers /\ TaskGone(t) /\ t.q \in Sessions /\ TableInv /\ SessionInv /\ UserInv /\ Steady
         /\ OxUserId(t.q) = IF HasRows THEN 1 ELSE 0
<1>1. TableInv /\ SessionInv /\ UserInv /\ Steady
  BY DEF Base, Gone
<1>2. t \in Handlers /\ t.q \in Sessions
  BY TaskTyped
<1>3. TaskGone(t)
  BY DEF Gone
<1>4. OxUserId(t.q) = IF HasRows THEN 1 ELSE 0
  BY <1>1, UserKnown DEF Steady
<1> QED
  BY <1>1, <1>2, <1>3, <1>4

(* A handler that has nothing left to do. *)
LEMMA GoneEnds ==
  ASSUME Base, Gone, Same, NEW t, Do(t, {}), t.at # "deleteRow", ~Retires(t)
  PROVE  Gone' /\ Base'
BY GoneGoesOn

(* The Kontexte that count are none. *)
LEMMA GoneHandlePerson ==
  ASSUME Typed, Base, Gone, NEW t \in tasks, HandlePerson(t) PROVE Gone' /\ Base'
<1>1. t.at = "person" /\ TaskGone(t)
  BY GoneTask DEF HandlePerson, At
<1>2. (IF offers /\ person.exists THEN schools \ t.school ELSE {}) = {}
  BY <1>1 DEF TaskGone
<1>3. Do(t, {Task(t.q, "without")}) /\ Same
  <2>1. Do(t, {Task(t.q, "without")}) /\ Nothing
    BY <1>2 DEF HandlePerson, Nothing
  <2> QED
    BY <2>1, NothingSame
<1>4. PICK u : u = Task(t.q, "without")
  OBVIOUS
<1>5. "without" \in Places
  BY DEF Places
<1>6. u.at = "without" /\ u.q = t.q /\ u.for = "none"
  BY <1>4, <1>5, Started
<1>7. ~Retires(t)
  BY <1>1 DEF Retires
<1>8. Do(t, {u}) /\ \A v \in {u} : TaskGone(v) /\ v.q = t.q
  BY <1>3, <1>4, <1>6 DEF TaskGone, OffSteps, HoldsCur
<1> QED
  BY <1>1, <1>3, <1>7, <1>8, GoneGoesOn

(* The enabled address is to be disabled. *)
LEMMA GoneDisableRead ==
  ASSUME Typed, Base, Gone, NEW t \in tasks, DisableRead(t) PROVE Gone' /\ Base'
<1> DEFINE A == {a \in Slots : person.exists /\ row[a].status \in EmailAddressStatus \ {"DISABLED"}}
           h == [a \in A |-> [row[a] EXCEPT !.status = "DISABLED"]]
<1>1. A = {} \/ (A = {Cur} /\ IsEnabled)
  <2>1. CASE person.exists
    BY <2>1, GoneTask, ToDisable
  <2>2. CASE ~person.exists
    BY <2>2
  <2> QED
    BY <2>1, <2>2
<1>2. t.at = "without" /\ t.for = "none" /\ t \in Handlers /\ ~Retires(t)
  BY GoneTask DEF DisableRead, At, TaskGone, Retires
<1>3. Same
  <2>1. Nothing
    BY DEF DisableRead, Nothing
  <2> QED
    BY <2>1, NothingSame
<1>4. Do(t, IF A = {} THEN {} ELSE {[Goes(t, "disable") EXCEPT !.held = h]})
  BY DEF DisableRead
<1>5. DOMAIN h = A /\ \A a \in A : h[a] = Disabling(a)
  BY DEF Disabling
<1> HIDE DEF A, h
<1>6. CASE A = {Cur} /\ IsEnabled
  <2>1. PICK u : u = [Goes(t, "disable") EXCEPT !.held = h]
    OBVIOUS
  <2>2. u.at = "disable" /\ u.q = t.q /\ u.for = "none" /\ u.held = h
    BY <1>2, <2>1 DEF Goes, Handlers
  <2>3. Do(t, {u})
    BY <1>4, <1>6, <2>1
  <2>4. Cur \in Known
    BY <1>6, GoneTask, KnownRows DEF IsEnabled
  <2>5. HoldsCur(u)
    BY <1>5, <1>6, <2>2, <2>4 DEF HoldsCur
  <2>6. \A v \in {u} : TaskGone(v) /\ v.q = t.q
    BY <2>2, <2>5 DEF TaskGone, OffSteps
  <2> QED
    BY <1>2, <1>3, <2>3, <2>6, GoneGoesOn
<1>7. CASE A = {}
  <2>1. Do(t, {})
    BY <1>4, <1>7
  <2> QED
    BY <1>2, <1>3, <2>1, GoneEnds
<1> QED
  BY <1>1, <1>6, <1>7

(* Saved or not, both events are published, or none. *)
LEMMA GoneDisableDone ==
  ASSUME Typed, Base, Gone, NEW t \in tasks, DisableDone(t) PROVE Gone' /\ Base'
<1>1. t.at = "disable" /\ ~Retires(t)
  BY DEF DisableDone, At, Retires
<1>2. Same
  <2>1. Nothing
    BY DEF DisableDone, Nothing
  <2> QED
    BY <2>1, NothingSame
<1>3. Do(t, IF t.any THEN {Task(t.q, "disabledInOx"), Task(t.q, "disabledInKeycloak")} ELSE {})
  BY DEF DisableDone
<1>4. PICK u : u = Task(t.q, "disabledInOx")
  OBVIOUS
<1>5. PICK v : v = Task(t.q, "disabledInKeycloak")
  OBVIOUS
<1>6. "disabledInOx" \in Places /\ "disabledInKeycloak" \in Places
  BY DEF Places
<1>7. /\ u.at = "disabledInOx" /\ u.q = t.q /\ u.for = "none"
      /\ v.at = "disabledInKeycloak" /\ v.q = t.q /\ v.for = "none"
  BY <1>4, <1>5, <1>6, Started
<1>8. \A w \in {u, v} : TaskGone(w) /\ w.q = t.q
  BY <1>7 DEF TaskGone, OffSteps, HoldsCur
<1>9. CASE t.any
  <2>1. Do(t, {u, v})
    BY <1>3, <1>4, <1>5, <1>9
  <2> QED
    BY <1>1, <1>2, <1>8, <2>1, GoneGoesOn
<1>10. CASE ~t.any
  <2>1. Do(t, {})
    BY <1>3, <1>10
  <2> QED
    BY <1>1, <1>2, <2>1, GoneEnds
<1> QED
  BY <1>9, <1>10

(* The groups of the person's schools are to be left. *)
LEMMA GoneLeaveRead ==
  ASSUME Typed, Base, Gone, NEW t \in tasks, LeaveRead(t) PROVE Gone' /\ Base'
<1> DEFINE x == OxUserId(t.q)
<1>1. t.at = "leaveRead" /\ t.for = "none" /\ t \in Handlers /\ ~Retires(t)
  BY GoneTask DEF LeaveRead, At, TaskGone, Retires
<1>2. Same
  <2>1. Nothing
    BY DEF LeaveRead, Nothing
  <2> QED
    BY <2>1, NothingSame
<1>3. Do(t, {}) \/ Do(t, {[Goes(t, "leave") EXCEPT !.ox = x, !.todo = t.school]})
  BY DEF LeaveRead
<1> HIDE DEF x
<1>4. PICK u : u = [Goes(t, "leave") EXCEPT !.ox = x, !.todo = t.school]
  OBVIOUS
<1>5. u.at = "leave" /\ u.q = t.q /\ u.for = "none"
  BY <1>1, <1>4 DEF Goes, Handlers
<1>6. \A v \in {u} : TaskGone(v) /\ v.q = t.q
  BY <1>5 DEF TaskGone, OffSteps, HoldsCur
<1>7. CASE Do(t, {})
  BY <1>1, <1>2, <1>7, GoneEnds
<1>8. CASE Do(t, {u})
  BY <1>1, <1>2, <1>6, <1>8, GoneGoesOn
<1> QED
  BY <1>3, <1>4, <1>7, <1>8

(* All groups are to be left. *)
LEMMA GoneDisabledInOx ==
  ASSUME Typed, Base, Gone, NEW t \in tasks, DisabledInOx(t) PROVE Gone' /\ Base'
<1> DEFINE x == OxUserId(t.q)
<1>1. t.at = "disabledInOx" /\ t.for = "none" /\ t \in Handlers /\ ~Retires(t)
  BY GoneTask DEF DisabledInOx, At, TaskGone, Retires
<1>2. Same
  <2>1. Nothing
    BY DEF DisabledInOx, Nothing
  <2> QED
    BY <2>1, NothingSame
<1>3. Do(t, IF ~person.exists \/ x = 0 THEN {} ELSE {[Goes(t, "list") EXCEPT !.ox = x]})
  BY DEF DisabledInOx
<1>4. x \in {0, 1}
  BY GoneTask
<1> HIDE DEF x
<1>5. PICK u : u = [Goes(t, "list") EXCEPT !.ox = x]
  OBVIOUS
<1>6. u.at = "list" /\ u.q = t.q /\ u.for = "none" /\ u.ox = x
  BY <1>1, <1>5 DEF Goes, Handlers
<1>7. CASE Do(t, {})
  BY <1>1, <1>2, <1>7, GoneEnds
<1>8. CASE Do(t, {u}) /\ x # 0
  <2>1. \A v \in {u} : TaskGone(v) /\ v.q = t.q
    BY <1>4, <1>6, <1>8 DEF TaskGone, OffSteps, HoldsCur
  <2> QED
    BY <1>1, <1>2, <1>8, <2>1, GoneGoesOn
<1> QED
  BY <1>3, <1>5, <1>7, <1>8

(* The user of OX is found by the address. *)
LEMMA GoneDeletedInOx ==
  ASSUME Typed, Base, Gone, NEW t \in tasks, DeletedInOx(t) PROVE Gone' /\ Base'
<1> DEFINE A == {a \in Slots : row[a] # NoRow /\ row[a].text = t.text /\ row[a].ox # 0}
           f(a) == [Saves(t, "list", "deleted") EXCEPT !.ox = row[a].ox]
           T == {f(a) : a \in A}
<1>1. t.at = "deleted" /\ t \in Handlers
  BY GoneTask DEF DeletedInOx, At
<1>2. Same
  <2>1. Nothing
    BY DEF DeletedInOx, Nothing
  <2> QED
    BY <2>1, NothingSame
<1>3. Do(t, T)
  BY DEF DeletedInOx
<1>4. ASSUME NEW u \in T PROVE u.at = "list" /\ u.for = "deleted" /\ u.q = t.q /\ u.ox = 1
  <2>1. PICK a \in A : u = f(a)
    OBVIOUS
  <2>2. a \in Known
    BY <2>1, GoneTask DEF TableInv
  <2>3. row[a].ox = 1
    BY <2>2, GoneTask DEF Steady
  <2> QED
    BY <1>1, <2>1, <2>3 DEF Saves, Handlers
<1>5. \A u \in T : TaskGone(u) /\ u.q = t.q
  BY <1>4 DEF TaskGone, OffSteps, HoldsCur
<1>6. Retires(t) /\ HasRows => \E u \in T : Retires(u)
  <2>1. ASSUME Retires(t), HasRows PROVE Cur \in A
    <3>1. t.text = row[Cur].text
      BY <1>1, <2>1 DEF Retires
    <3>2. Cur \in Known /\ Cur \in Slots
      BY <2>1, GoneTask, KnownRows
    <3>3. row[Cur].ox = 1 /\ row[Cur] # NoRow
      BY <3>2, GoneTask DEF Steady, NoRow
    <3> QED
      BY <3>1, <3>2, <3>3
  <2>2. ASSUME Retires(t), HasRows PROVE f(Cur) \in T
    BY <2>1, <2>2
  <2> HIDE DEF T
  <2>3. \A u \in T : Retires(u)
    BY <1>4 DEF Retires
  <2> QED
    BY <2>2, <2>3
<1> HIDE DEF T
<1> QED
  BY <1>1, <1>2, <1>3, <1>5, <1>6, GoneGoesOn

(* The user's groups are listed. *)
LEMMA GoneListGroups ==
  ASSUME Typed, Base, Gone, ~Fault, NEW t \in tasks, ListGroups(t) PROVE Gone' /\ Base'
<1>1. t.at = "list" /\ TaskGone(t) /\ t.ox = 1 /\ t \in Handlers
  BY GoneTask DEF ListGroups, At, TaskGone
<1> DEFINE S == {s \in Schools : t.ox \in member[s]}
<1>2. Do(t, {[Goes(t, "leave") EXCEPT !.todo = S]}) /\ Same
  <2>1. Do(t, {[Goes(t, "leave") EXCEPT !.todo = S]}) /\ Nothing
    BY DEF ListGroups, Nothing
  <2> QED
    BY <2>1, NothingSame
<1>3. \A s \in Schools : 1 \in member[s] => s \in S
  BY <1>1
<1> HIDE DEF S
<1>4. PICK u : u = [Goes(t, "leave") EXCEPT !.todo = S]
  OBVIOUS
<1>5. u.at = "leave" /\ u.q = t.q /\ u.for = t.for /\ u.ox = 1 /\ u.todo = S
  BY <1>1, <1>4 DEF Goes, Handlers
<1>6. Retires(t) => Retires(u)
  BY <1>1, <1>3, <1>5 DEF Retires
<1>7. TaskGone(u)
  BY <1>1, <1>5 DEF TaskGone, OffSteps, HoldsCur
<1>8. Do(t, {u}) /\ \A v \in {u} : TaskGone(v) /\ v.q = t.q
  BY <1>2, <1>4, <1>5, <1>7
<1>9. Retires(t) => \E v \in {u} : Retires(v)
  BY <1>6
<1> QED
  BY <1>1, <1>2, <1>8, <1>9, GoneGoesOn

(* All of the groups were left. *)
LEMMA GoneLeaveDone ==
  ASSUME Typed, Base, Gone, NEW t \in tasks, LeaveDone(t) PROVE Gone' /\ Base'
<1>1. t.at = "leave" /\ t.todo = {} /\ TaskGone(t) /\ t \in Handlers
  BY GoneTask DEF LeaveDone, At
<1>2. Same /\ Do(t, AfterGroups(t))
  <2>1. Nothing /\ Do(t, AfterGroups(t))
    BY DEF LeaveDone, Nothing
  <2> QED
    BY <2>1, NothingSame
<1>3. CASE t.for = "deleted"
  <2>1. PICK u : u = Goes(t, "retire")
    OBVIOUS
  <2>2. u.at = "retire" /\ u.q = t.q /\ u.for = "deleted" /\ u.ox = 1
    BY <1>1, <1>3, <2>1 DEF Goes, Handlers, TaskGone
  <2>3. Do(t, {u})
    BY <1>2, <1>3, <2>1 DEF AfterGroups
  <2>4. \A v \in {u} : TaskGone(v) /\ v.q = t.q
    BY <2>2 DEF TaskGone, OffSteps, HoldsCur
  <2>5. Retires(t) => Retires(u)
    BY <1>1, <2>2 DEF Retires, MembersAre
  <2>6. Retires(t) => \E v \in {u} : Retires(v)
    BY <2>5
  <2> QED
    BY <1>1, <1>2, <2>3, <2>4, <2>6, GoneGoesOn
<1>4. CASE t.for # "deleted"
  <2>1. Do(t, {}) /\ ~Retires(t)
    BY <1>1, <1>2, <1>4 DEF AfterGroups, Retires
  <2> QED
    BY <1>1, <1>2, <2>1, GoneEnds
<1> QED
  BY <1>3, <1>4

(* The user is not there any more. *)
LEMMA GoneKeycloakUnset ==
  ASSUME Typed, Base, Gone, ~Fault, NEW t \in tasks, KeycloakUnset(t) PROVE Gone' /\ Base'
<1>1. t.at = "disabledInKeycloak" /\ ~Retires(t)
  BY DEF KeycloakUnset, At, Retires
<1>2. ~Finds(t)
  BY DEF Gone, Finds
<1>3. Do(t, {}) /\ Same
  BY <1>2 DEF KeycloakUnset, Same, table, copy, ox
<1> QED
  BY <1>1, <1>3, GoneEnds

(* The addresses are the same, but for their status: the tasks know them still. *)
LEMMA GoneKnows ==
  ASSUME NEW t, TaskGone(t), HasRows => Cur' = Cur /\ Disabling(Cur)' = Disabling(Cur) /\ row'[Cur].text = row[Cur].text,
         Known' = Known, HasRows' <=> HasRows, schools' \subseteq schools,
         \A s \in Schools : member'[s] \subseteq member[s], Typed, TableInv
  PROVE  TaskGone(t)' /\ (HasRows /\ Retires(t) => Retires(t)')
<1>1. HoldsCur(t)'
  <2>1. HoldsCur(t)
    BY DEF TaskGone
  <2>2. CASE HasRows
    BY <2>1, <2>2 DEF HoldsCur
  <2>3. CASE ~HasRows
    <3>1. Known = {}
      BY <2>3, KnownRows
    <3> QED
      BY <2>1, <3>1 DEF HoldsCur
  <2> QED
    BY <2>2, <2>3
<1>2. TaskGone(t)'
  BY <1>1 DEF TaskGone
<1>3. ASSUME HasRows, Retires(t) PROVE Retires(t)'
  BY <1>3 DEF Retires, MembersAre
<1> QED
  BY <1>2, <1>3

(* An address saved as DISABLED. *)
LEMMA GoneDisableOne ==
  ASSUME Typed, Base, Gone, ~Fault, NEW t \in tasks, DisableOne(t) PROVE Gone' /\ Base'
<1>1. t.at = "disable" /\ t \in Handlers /\ t.for = "none" /\ TaskGone(t) /\ ~Retires(t)
  BY GoneTask DEF DisableOne, At, TaskGone, Retires
<1>2. TableInv /\ SessionInv /\ UserInv /\ Steady
  BY GoneTask
<1>3. DOMAIN t.held \subseteq {Cur} /\ DOMAIN t.held \subseteq Known /\ \A a \in DOMAIN t.held : t.held[a] = Disabling(a)
  BY <1>1 DEF TaskGone, HoldsCur
<1>4. PICK a \in DOMAIN t.held :
        LET rest == [t EXCEPT !.held = [b \in DOMAIN t.held \ {a} |-> t.held[b]]] IN
        \/ CanWrite(a, t.held[a]) /\ Update(a, t.held[a]) /\ Do(t, {[rest EXCEPT !.any = TRUE]})
        \/ ~CanWrite(a, t.held[a]) /\ Do(t, {rest}) /\ UNCHANGED <<table, loaded>>
  BY DEF DisableOne
<1>5. a = Cur /\ a \in Known /\ t.held[a] = Disabling(Cur)
  BY <1>3
<1>6. HasRows /\ Cur \in Known /\ row[Cur] \in EmailAddress
  BY <1>2, <1>5, KnownRows
<1>7. PICK m : m = Disabling(Cur)
  OBVIOUS
<1>8. m \in EmailAddress /\ m.text = row[Cur].text /\ m.ox = row[Cur].ox /\ m.status = "DISABLED"
  BY <1>6, <1>7 DEF Disabling, EmailAddress, EmailAddressStatus
<1>9. PICK r : r = [t EXCEPT !.held = [b \in DOMAIN t.held \ {a} |-> t.held[b]]]
  OBVIOUS
<1>10. r.at = "disable" /\ r.q = t.q /\ r.for = "none" 
       /\ r \in [q : Sessions, at : {"disable"}, for : {"none"}, school : SUBSET Schools, todo : SUBSET Schools,
                 held : {r.held}, ox : OxIds \union {0}, text : Texts, any : BOOLEAN]
  BY <1>1, <1>9 DEF Handlers
<1>11. DOMAIN r.held = {}
  <2>1. r.held = [b \in DOMAIN t.held \ {a} |-> t.held[b]]
    BY <1>1, <1>9 DEF Handlers
  <2> QED
    BY <1>3, <1>5, <2>1
<1>12. UNCHANGED <<person, schools, offers, oxUser, member, keycloak, username>>
  BY DEF DisableOne, ox
<1>13. CASE ~CanWrite(a, t.held[a])
  <2>1. Do(t, {r}) /\ Same
    BY <1>4, <1>9, <1>12, <1>13 DEF Same, table
  <2>2. \A v \in {r} : TaskGone(v) /\ v.q = t.q
    BY <1>10, <1>11 DEF TaskGone, OffSteps, HoldsCur
  <2> QED
    BY <1>1, <2>1, <2>2, GoneGoesOn
<1>14. CASE CanWrite(a, t.held[a])
  <2>1. PICK u : u = [r EXCEPT !.any = TRUE]
    OBVIOUS
  <2>2. u.at = "disable" /\ u.q = t.q /\ u.for = "none" /\ u.held = r.held
    BY <1>10, <2>1
  <2>3. Update(Cur, m) /\ Do(t, {u})
    BY <1>4, <1>5, <1>7, <1>9, <1>14, <2>1
  <2>4. /\ TableInv' /\ HasRows' /\ Cur' = Cur /\ Known' = Known /\ UNCHANGED loaded
        /\ row'[Cur] = m /\ \A b \in Slots : b # Cur => row'[b] = row[b]
    BY <1>2, <1>6, <1>8, <2>3, CurWritten
  <2>5. \A b \in Known : b \in Slots
    BY DEF Known
  <2>6. Steady'
    <3>1. \A b \in Known : row'[b].ox = 1 /\ row'[b].status = "DISABLED"
      BY <1>2, <1>8, <2>4, <2>5 DEF Steady
    <3>2. HasUser' <=> HasUser
      BY <1>12 DEF HasUser
    <3>3. row'[Cur].text = row[Cur].text
      BY <1>8, <2>4
    <3> QED
      BY <1>2, <1>6, <1>12, <2>4, <3>1, <3>2, <3>3 DEF Steady
  <2>7. Disabling(Cur)' = Disabling(Cur)
    <3>1. row'[Cur] = [row[Cur] EXCEPT !.status = "DISABLED"]
      BY <1>7, <2>4 DEF Disabling
    <3>2. [row'[Cur] EXCEPT !.status = "DISABLED"] = [row[Cur] EXCEPT !.status = "DISABLED"]
      BY <1>6, <3>1 DEF EmailAddress
    <3> QED
      BY <2>4, <3>2 DEF Disabling
  <2>8. TaskGone(u)
    BY <1>11, <2>2 DEF TaskGone, OffSteps, HoldsCur
  <2>9. schools' \subseteq schools /\ \A s \in Schools : member'[s] \subseteq member[s]
    BY <1>12
  <2>10. row'[Cur].text = row[Cur].text
    BY <1>8, <2>4
  <2>11. ASSUME NEW v, TaskGone(v) PROVE TaskGone(v)' /\ (Retires(v) => Retires(v)')
    BY <1>2, <1>6, <2>4, <2>7, <2>9, <2>10, <2>11, GoneKnows
  <2>12. \A v \in tasks' : TaskGone(v)'
    BY <2>3, <2>8, <2>11 DEF Do, Gone
  <2>13. person.exists => \E v \in tasks' : v.at = "deleteRow"
    BY <1>1, <2>3 DEF Do, Gone
  <2>14. Retired' \/ \E v \in tasks' : Retires(v)'
    <3>1. CASE Retired
      BY <1>12, <3>1, SameGroups DEF Retired
    <3>2. CASE ~Retired
      <4>1. PICK v \in tasks : Retires(v)
        BY <3>2 DEF Gone, Retired
      <4>2. v # t /\ TaskGone(v)
        BY <1>1, <4>1 DEF Gone
      <4> QED
        BY <2>3, <2>11, <4>1, <4>2 DEF Do
    <3> QED
      BY <3>1, <3>2
  <2>15. Gone'
    BY <1>12, <2>4, <2>6, <2>12, <2>13, <2>14 DEF Gone, Retired
  <2>16. SessionInv'
    <3>1. \A v \in tasks' : v.q = t.q
      BY <1>2, <2>2, <2>3 DEF Do, SessionInv
    <3>2. username[t.q] = person.name /\ (HasRows <=> loaded[t.q] # <<>>) /\ (loaded[t.q] # <<>> => loaded[t.q][1] \in Known)
      BY <1>2 DEF SessionInv
    <3> QED
      BY <1>6, <1>12, <2>4, <3>1, <3>2 DEF SessionInv
  <2>17. UserInv'
    BY <1>2, <1>12 DEF UserInv
  <2> QED
    BY <2>4, <2>15, <2>16, <2>17 DEF Base
<1> QED
  BY <1>13, <1>14

(* What remains to be done, after a step of a handler that is not to retire the *)
(* user, or is to go on with it.                                               *)
LEMMA GoneKept ==
  ASSUME Typed, Base, Gone, NEW t, NEW T, Do(t, T), \A u \in T : u.q = t.q /\ TaskGone(u)',
         UNCHANGED <<order, oxUser, loaded, username, keycloak>>,
         person'.name = person.name, schools' \subseteq schools,
         \A s \in Schools : member'[s] \subseteq member[s],
         Steady', TableInv', HasRows => Disabling(Cur)' = Disabling(Cur) /\ row'[Cur].text = row[Cur].text,
         person'.exists => person.exists /\ t.at # "deleteRow",
         HasRows /\ Retires(t) => (MembersAre({})' /\ oxUser[1].name = 0) \/ \E u \in T : Retires(u)'
  PROVE  Gone' /\ Base'
<1>1. t \in tasks /\ tasks' = (tasks \ {t}) \union T
  BY DEF Do
<1>2. TableInv /\ UserInv /\ SessionInv /\ Steady
  BY DEF Base, Gone
<1>3. Cur' = Cur /\ Known' = Known /\ (HasRows' <=> HasRows)
  BY DEF Cur, Known, HasRows
<1>4. ASSUME NEW v, TaskGone(v) PROVE TaskGone(v)' /\ (HasRows /\ Retires(v) => Retires(v)')
  BY <1>2, <1>3, <1>4, GoneKnows
<1>5. \A v \in tasks' : TaskGone(v)'
  BY <1>1, <1>4 DEF Gone
<1>6. person'.exists => \E v \in tasks' : v.at = "deleteRow"
  BY <1>1 DEF Gone
<1>7. MembersAre({}) => MembersAre({})'
  BY DEF MembersAre
<1>8. (MembersAre({})' /\ oxUser'[1].name = 0) \/ (HasRows' /\ \E v \in tasks' : Retires(v)')
  BY <1>1, <1>3, <1>4, <1>7 DEF Gone
<1>9. Gone'
  BY <1>5, <1>6, <1>8 DEF Gone
<1>10. UserInv'
  BY <1>2 DEF UserInv
<1>11. SessionInv'
  BY <1>2, SessionGoesOn
<1> QED
  BY <1>9, <1>10, <1>11 DEF Base

(* The user is taken out of a group. *)
LEMMA GoneLeave ==
  ASSUME Typed, Base, Gone, ~Fault, NEW t \in tasks, Leave(t) PROVE Gone' /\ Base'
<1>1. t.at = "leave" /\ t \in Handlers /\ TaskGone(t) /\ TableInv /\ Steady
  BY GoneTask DEF Leave, At
<1>2. PICK s \in t.todo : Do(t, {[t EXCEPT !.todo = @ \ {s}]}) /\ member' = [member EXCEPT ![s] = @ \ {t.ox}]
  BY DEF Leave
<1>3. UNCHANGED <<row, order, person, schools, offers, oxUser, keycloak, loaded, username>>
  BY DEF Leave, table, copy
<1>4. PICK u : u = [t EXCEPT !.todo = @ \ {s}]
  OBVIOUS
<1>5. u.at = "leave" /\ u.for = t.for /\ u.q = t.q /\ u.ox = t.ox /\ u.todo = t.todo \ {s}
  BY <1>1, <1>4 DEF Handlers
<1>6. Do(t, {u})
  BY <1>2, <1>4
<1>7. \A r \in Schools : member'[r] \subseteq member[r] /\ (r = s => t.ox \notin member'[r])
  <2>1. member \in [Schools -> SUBSET OxIds]
    BY TypedParts DEF OthersTyped
  <2> QED
    BY <1>2, <2>1
<1>8. Steady' /\ TableInv' /\ (HasRows => Disabling(Cur)' = Disabling(Cur) /\ row'[Cur].text = row[Cur].text)
  <2>1. Cur' = Cur /\ (TableInv' <=> TableInv) /\ \A a : Disabling(a)' = Disabling(a)
    BY <1>3, SameTable
  <2>2. Steady' <=> Steady
    BY <1>3, SteadyKept
  <2>3. Disabling(Cur)' = Disabling(Cur)
    BY <1>3 DEF Disabling, Cur
  <2> QED
    BY <1>1, <1>3, <2>1, <2>2, <2>3
<1>9. TaskGone(u)'
  BY <1>1, <1>5 DEF TaskGone, OffSteps, HoldsCur
<1>10. \A v \in {u} : v.q = t.q /\ TaskGone(v)'
  BY <1>5, <1>9
<1>11. Retires(t) => Retires(u)'
  <2>1. ASSUME Retires(t) PROVE u.for = "deleted" /\ \A r \in Schools : 1 \in member'[r] => r \in u.todo
    <3>1. t.for = "deleted" /\ \A r \in Schools : 1 \in member[r] => r \in t.todo
      BY <1>1, <2>1 DEF Retires
    <3>2. t.ox = 1
      BY <1>1, <3>1 DEF TaskGone
    <3> QED
      BY <1>5, <1>7, <3>1, <3>2
  <2> QED
    BY <1>5, <2>1 DEF Retires
<1>12. Retires(t) => \E v \in {u} : Retires(v)'
  BY <1>11
<1>13. \A r \in Schools : member'[r] \subseteq member[r]
  BY <1>7
<1> QED
  BY <1>1, <1>3, <1>6, <1>8, <1>10, <1>12, <1>13, GoneKept

(* The user of OX gives the username free. *)
LEMMA GoneRetire ==
  ASSUME Typed, Base, Gone, ~Fault, NEW t \in tasks, Retire(t) PROVE Gone' /\ Base'
<1>1. t.at = "retire" /\ t.ox = 1 /\ TableInv /\ SessionInv /\ UserInv /\ Steady
  BY GoneTask DEF Retire, At, TaskGone
<1>2. oxUser' = [oxUser EXCEPT ![1].name = 0] /\ Do(t, {})
  BY <1>1 DEF Retire
<1>3. UNCHANGED <<row, order, person, schools, offers, member, keycloak, loaded, username>>
  BY DEF Retire, table, copy
<1>4. oxUser \in [OxIds -> [name : Names \union {0}, primary : Texts]] /\ 1 \in OxIds
  BY TypedParts, BoundsAssumption DEF OthersTyped, OxIds
<1>5. oxUser'[1].name = 0 /\ oxUser'[1].primary = oxUser[1].primary /\ \A u \in OxIds : u # 1 => oxUser'[u] = oxUser[u]
  BY <1>2, <1>4
<1>6. oxUser'[1] = [name |-> 0, primary |-> oxUser[1].primary]
  BY <1>2, <1>4
<1>7. /\ Cur' = Cur /\ Known' = Known /\ (HasRows' <=> HasRows) /\ (TableInv' <=> TableInv)
      /\ \A v : HoldsCur(v)' <=> HoldsCur(v)
  BY <1>3, SameTable
<1>8. HasUser' <=> HasUser
  <2>1. CASE HasRows
    <3>1. row[Cur].text # 0 /\ oxUser[1].primary = row[Cur].text
      BY <1>1, <2>1, KnownRows, BoundsAssumption DEF TableInv, IsAddress, Steady
    <3> QED
      BY <1>1, <1>6, <2>1, <3>1 DEF HasUser, NoUser, Steady
  <2>2. CASE ~HasRows
    BY <1>1, <1>6, <2>2 DEF HasUser, NoUser, Steady
  <2> QED
    BY <2>1, <2>2
<1>9. Steady'
  BY <1>1, <1>3, <1>5, <1>7, <1>8 DEF Steady
<1>10. \A S : MembersAre(S)' <=> MembersAre(S)
  BY <1>3, SameGroups
<1>11. \A v \in tasks' : TaskGone(v)'
  BY <1>2, <1>3, <1>7 DEF Do, Gone, TaskGone
<1>12. person'.exists => \E v \in tasks' : v.at = "deleteRow"
  BY <1>1, <1>2, <1>3 DEF Do, Gone
<1>13. (MembersAre({})' /\ oxUser'[1].name = 0) \/ (HasRows' /\ \E v \in tasks' : Retires(v)')
  <2>1. CASE MembersAre({})
    BY <1>5, <1>10, <2>1
  <2>2. CASE ~MembersAre({})
    <3>1. HasRows /\ \E v \in tasks : Retires(v)
      BY <2>2 DEF Gone
    <3>2. ~Retires(t)
      BY <1>1, <2>2 DEF Retires
    <3>3. \A v : Retires(v)' <=> Retires(v)
      BY <1>3, <1>7, <1>10 DEF Retires
    <3> QED
      BY <1>2, <1>7, <3>1, <3>2, <3>3 DEF Do
  <2> QED
    BY <2>1, <2>2
<1>14. Gone'
  BY <1>3, <1>9, <1>11, <1>12, <1>13 DEF Gone
<1>15. UserInv'
  BY <1>1, <1>3, <1>5 DEF UserInv
<1>16. SessionInv'
  BY <1>1, <1>2, <1>3, SessionGoesOn
<1> QED
  BY <1>1, <1>7, <1>14, <1>15, <1>16 DEF Base

(* The address by which mail reached the person is disabled. *)
LEMMA GoneDeactivate ==
  ASSUME Typed, Base, Gone, NEW t \in tasks, Deactivate(t) PROVE Gone' /\ Base'
<1>1. t.at = "deactivate" /\ TableInv /\ Steady /\ ~Retires(t)
  BY GoneTask DEF Deactivate, At, Retires
<1>2. Do(t, {}) /\ UNCHANGED <<order, person, schools, offers, oxUser, member, keycloak, loaded, username>>
  BY DEF Deactivate, ox, copy
<1>3. row' = [a \in Slots |-> IF row[a] # NoRow /\ row[a].text = t.text
                             THEN [row[a] EXCEPT !.status = "DISABLED"] ELSE row[a]]
  BY DEF Deactivate
<1>4. ASSUME NEW a \in Known
      PROVE  /\ row'[a] # NoRow /\ row'[a].text = row[a].text /\ row'[a].ox = row[a].ox
             /\ row'[a].status \in {row[a].status, "DISABLED"}
             /\ [row'[a] EXCEPT !.status = "DISABLED"] = [row[a] EXCEPT !.status = "DISABLED"]
  <2>1. a \in Slots /\ row[a] \in EmailAddress
    BY <1>1, KnownRows
  <2>2. row'[a] = row[a] \/ row'[a] = [row[a] EXCEPT !.status = "DISABLED"]
    BY <1>3, <2>1
  <2>3. CASE row'[a] = row[a]
    BY <1>1, <2>1, <2>3 DEF TableInv
  <2>4. CASE row'[a] = [row[a] EXCEPT !.status = "DISABLED"]
    <3>1. PICK m : m = row[a]
      OBVIOUS
    <3>2. m \in EmailAddress
      BY <2>1, <3>1
    <3>3. PICK n : n = [m EXCEPT !.status = "DISABLED"]
      OBVIOUS
    <3>4. n \in EmailAddress /\ n.text = m.text /\ n.ox = m.ox /\ n.status = "DISABLED"
          /\ [n EXCEPT !.status = "DISABLED"] = [m EXCEPT !.status = "DISABLED"]
      BY <3>2, <3>3 DEF EmailAddress, EmailAddressStatus
    <3>5. n # NoRow
      BY <3>4 DEF NoRow
    <3> QED
      BY <2>4, <3>1, <3>3, <3>4, <3>5
  <2> QED
    BY <2>2, <2>3, <2>4
<1>5. \A a \in Slots \ Known : row'[a] = NoRow
  BY <1>1, <1>3, KnownRows
<1>6. Cur' = Cur /\ Known' = Known /\ (HasRows' <=> HasRows) /\ (HasUser' <=> HasUser)
  BY <1>2 DEF Cur, Known, HasRows, HasUser
<1>7. HasRows => Cur \in Known
  BY <1>1, KnownRows
<1>8. TableInv'
  <2>1. \A a \in Slots : row'[a] = NoRow <=> a \notin Known
    BY <1>4, <1>5
  <2>2. \A a \in Known : row'[a].status # "FAILED" /\ IsAddress(row'[a].text)
    BY <1>1, <1>4 DEF TableInv
  <2>3. \A a, b \in Known : row'[a].text = row'[b].text => a = b
    <3>1. \A a \in Known : row'[a].text = row[a].text
      BY <1>4
    <3>2. \A a, b \in Known : row[a].text = row[b].text => a = b
      BY <1>1 DEF TableInv
    <3> QED
      BY <3>1, <3>2
  <2> QED
    BY <1>1, <1>2, <1>6, <2>1, <2>2, <2>3 DEF TableInv, IsAddress
<1>9. Steady'
  BY <1>1, <1>2, <1>4, <1>6, <1>7 DEF Steady
<1>10. HasRows => Disabling(Cur)' = Disabling(Cur) /\ row'[Cur].text = row[Cur].text
  BY <1>4, <1>6, <1>7 DEF Disabling
<1>11. schools' \subseteq schools /\ \A s \in Schools : member'[s] \subseteq member[s]
  BY <1>2
<1> QED
  BY <1>1, <1>2, <1>8, <1>9, <1>10, <1>11, GoneKept

(* The row of the person is deleted. *)
LEMMA GoneDeleteRow ==
  ASSUME Typed, Base, Gone, NEW t \in tasks, DeleteRow(t) PROVE Gone' /\ Base'
<1>1. t.at = "deleteRow" /\ TableInv /\ Steady /\ ~Retires(t)
  BY GoneTask DEF DeleteRow, At, Retires
<1>2. Do(t, {}) /\ UNCHANGED <<row, order, offers, oxUser, member, keycloak, loaded, username>> /\ schools' = {}
  BY DEF DeleteRow, table, ox, copy
<1>3. person'.name = person.name /\ ~person'.exists
  <2>1. person \in [exists : BOOLEAN, name : Names] /\ person' = [person EXCEPT !.exists = FALSE]
    BY TypedParts DEF OthersTyped, DeleteRow
  <2> QED
    BY <2>1
<1>4. TableInv' /\ Cur' = Cur /\ Known' = Known /\ (HasRows' <=> HasRows)
  BY <1>1, <1>2, SameTable
<1>5. Steady'
  BY <1>1, <1>2, <1>4 DEF Steady, HasUser
<1>6. Disabling(Cur)' = Disabling(Cur) /\ row'[Cur].text = row[Cur].text
  BY <1>2, <1>4 DEF Disabling
<1>7. schools' \subseteq schools /\ \A s \in Schools : member'[s] \subseteq member[s]
  BY <1>2
<1> QED
  BY <1>1, <1>2, <1>3, <1>4, <1>5, <1>6, <1>7, GoneKept

(* A step while the person is being deleted, or gone. *)
LEMMA GoneStep ==
  ASSUME Typed, Base, Gone, ~Fault, NEW t \in tasks, Step(t) PROVE Gone' /\ Base'
<1>1. t.at \in OffSteps \union {"deactivate", "deleted", "retire", "deleteRow"}
  BY DEF Gone, TaskGone
<1>2. ~CheckSave(t) /\ ~Write(t) /\ ~CreateOrEnable(t) /\ ~Generate(t) /\ ~HandleRenamed(t) /\ ~RenamedWith(t)
  BY <1>1 DEF OffSteps, At, CheckSave, Write, CreateOrEnable, Generate, HandleRenamed, RenamedWith
<1>3. ~RenamedWithout(t) /\ ~Confirm(t) /\ ~ConfirmDisabled(t) /\ ~CreateRead(t) /\ ~CreateExists(t)
  BY <1>1 DEF OffSteps, At, RenamedWithout, Confirm, ConfirmDisabled, CreateRead, CreateExists
<1>4. ~CreateUser(t) /\ ~AlreadyExists(t) /\ ~Join(t) /\ ~ChangeRead(t) /\ ~ChangeUser(t) /\ ~KeycloakSet(t)
  BY <1>1 DEF OffSteps, At, CreateUser, AlreadyExists, Join, ChangeRead, ChangeUser, KeycloakSet
<1>5. CASE HandlePerson(t) \/ DisableRead(t) \/ DisableOne(t) \/ DisableDone(t) \/ LeaveRead(t) \/ DisabledInOx(t)
  BY <1>5, GoneHandlePerson, GoneDisableRead, GoneDisableOne, GoneDisableDone, GoneLeaveRead, GoneDisabledInOx
<1>6. CASE ListGroups(t) \/ Leave(t) \/ LeaveDone(t) \/ KeycloakUnset(t) \/ DeletedInOx(t)
  BY <1>6, GoneListGroups, GoneLeave, GoneLeaveDone, GoneKeycloakUnset, GoneDeletedInOx
<1>7. CASE Retire(t) \/ Deactivate(t) \/ DeleteRow(t)
  BY <1>7, GoneRetire, GoneDeactivate, GoneDeleteRow
<1> QED
  BY <1>2, <1>3, <1>4, <1>5, <1>6, <1>7 DEF Step

-----------------------------------------------------------------------------
(* Requests that begin when nothing is in progress                         *)

Rested ==
  /\ Steady /\ AsEntitled
  /\ IsEnabled <=> Entitled # {}
  /\ ~HasRows => Entitled = {}

(* When no handler is in progress, everything is as the rights are. *)
LEMMA LivingRests ==
  ASSUME Typed, Living, tasks = {} PROVE Rested /\ Entitled \subseteq Schools
<1>1. Entitled \subseteq Schools
  BY TypedParts DEF OthersTyped, Entitled
<1>2. CASE Off
  BY <1>2 DEF Off, Rested, AsEntitled
<1>3. CASE On
  <2>1. \A s \in Schools : 1 \in member[s] <=> s \in Entitled
    BY <1>1, <1>3 DEF On
  <2>2. keycloak = "set"
    BY <1>1, <1>3, <2>1 DEF On, MembersAre
  <2>3. MembersAre(Entitled)
    BY <2>1 DEF MembersAre
  <2>4. Entitled # {} /\ HasRows /\ Steady /\ row[Cur].status = "ENABLED"
    BY <1>3 DEF On
  <2> QED
    BY <1>1, <2>2, <2>3, <2>4 DEF Rested, AsEntitled, IsEnabled
<1>4. ~Solo
  BY DEF Solo
<1> QED
  BY <1>1, <1>2, <1>3, <1>4 DEF Living

(* The copy a request loads has all rows. *)
LEMMA BaseBegins ==
  ASSUME Typed, Base, tasks = {}, NEW q \in Sessions, NEW name, Begin(q, name), \A t \in tasks' : t.q = q,
         UNCHANGED <<row, order, oxUser, member>>, person'.name = name
  PROVE  Base'
<1>1. loaded'[q] = order /\ username'[q] = name
  BY TypedParts DEF TableTyped, OthersTyped, Begin
<1>2. TableInv' /\ Known' = Known /\ (HasRows' <=> HasRows)
  BY SameTable DEF Base
<1>3. UserInv'
  BY DEF Base, UserInv
<1>4. HasRows => order[1] \in Known
  BY KnownRows DEF Base, Cur
<1>5. SessionInv'
  BY <1>1, <1>2, <1>4 DEF SessionInv, HasRows
<1> QED
  BY <1>2, <1>3, <1>5 DEF Base

(* A change of the person's rights begins. *)
LEMMA RightsChange ==
  ASSUME Typed, Base, Rested, NEW p, p.at = "person", p.school = {}, p.for = "none", NEW L, tasks' = {p} \union L,
         \A l \in L : l.at = "leaveRead" /\ l.for = "none" /\ l.school \intersect Entitled' = {},
         \A s \in Entitled \ Entitled' : Entitled' = {} \/ \E l \in L : s \in l.school,
         UNCHANGED <<row, order, oxUser, member, keycloak>>, Entitled' \subseteq Schools,
         ~HasRows /\ Entitled' # {} => \E s \in Schools : Entitled' = {s}
  PROVE  (Off \/ On \/ Solo)'
<1>1. /\ Cur' = Cur /\ Known' = Known /\ (HasRows' <=> HasRows) /\ (IsEnabled' <=> IsEnabled)
  BY SameTable
<1>2. HasUser' <=> HasUser
  BY DEF HasUser
<1>3. Steady'
  BY <1>1, <1>2 DEF Rested, Steady
<1>4. \A S : MembersAre(S)' <=> MembersAre(S)
  BY SameGroups
<1>5. p \in tasks'
  OBVIOUS
<1>6. \A l \in L : Stays(l)'
  BY DEF Stays
<1>7. CASE Entitled' = {}
  <2>1. \A t \in tasks' : TaskOff(t)'
    BY DEF TaskOff, OffSteps, HoldsCur
  <2>2. Disables(p)'
    BY DEF Disables
  <2>3. ~IsEnabled => MembersAre({}) /\ keycloak # "set"
    BY DEF Rested, AsEntitled
  <2>4. ~HasRows => MembersAre({}) /\ keycloak # "set"
    BY DEF Rested, AsEntitled
  <2>5. Off'
    BY <1>1, <1>3, <1>4, <1>5, <1>7, <2>1, <2>2, <2>3, <2>4 DEF Off
  <2> QED
    BY <2>5
<1>8. CASE Entitled' # {} /\ HasRows
  <2>1. \A t \in tasks' : TaskOn(t)'
    BY <1>6 DEF TaskOn
  <2>2. Enables(p)'
    BY DEF Enables
  <2>3. \A s : Joins(p, s)'
    BY DEF Joins
  <2>4. keycloak = "set" \/ MembersAre({})
    BY DEF Rested, AsEntitled
  <2>5. ASSUME NEW s \in Schools \ Entitled', 1 \in member'[s] PROVE \E t \in tasks' : Leaves(t, s)'
    <3>1. s \in Entitled
      BY <2>5 DEF Rested, AsEntitled, MembersAre
    <3>2. PICK l \in L : s \in l.school
      BY <1>8, <2>5, <3>1
    <3>3. Leaves(l, s)'
      BY <3>2 DEF Leaves
    <3> QED
      BY <3>3
  <2>6. On'
    BY <1>1, <1>3, <1>4, <1>5, <1>8, <2>1, <2>2, <2>3, <2>4, <2>5 DEF On
  <2> QED
    BY <2>6
<1>9. CASE Entitled' # {} /\ ~HasRows
  <2>1. MembersAre({})' /\ ~HasUser'
    BY <1>2, <1>4, <1>9 DEF Rested, AsEntitled, Steady
  <2>2. Beginning(p)'
    BY <1>1, <1>9, <2>1 DEF Beginning
  <2>3. Chain(p)'
    BY <2>2 DEF Chain
  <2>4. Solo'
    BY <1>5, <1>6, <2>3 DEF Solo
  <2> QED
    BY <2>4
<1> QED
  BY <1>7, <1>8, <1>9

(* Where there is no row, a first address may become due. *)
LEMMA FirstDue ==
  ASSUME Typed, Base, person.exists, ~HasRows, NEW S \in SUBSET Schools, S # {}, NEW offered, offered, ~Crowds(S, offered)
  PROVE  \E s \in Schools : S = {s}
<1>1. Newest({"ENABLED", "DISABLED"}) = 0
  <2>1. Known = {}
    BY KnownRows DEF Base
  <2> QED
    BY <2>1, NewestIs DEF Base
<1>2. \A s, t \in S : s = t
  BY <1>1 DEF Crowds
<1> QED
  BY <1>2

(* What a task begins with. *)
LEMMA Begun ==
  ASSUME NEW q \in Sessions, NEW at \in Places
  PROVE  /\ Task(q, at) \in Handlers /\ Task(q, at).q = q /\ Task(q, at).at = at
         /\ Task(q, at).for = "none" /\ Task(q, at).school = {}
BY TaskShaped

(* The Kontexte change. *)
LEMMA ChangeKontexteKeeps ==
  ASSUME Typed, Base, Living, tasks = {}, NEW q \in Sessions, NEW S \in SUBSET Schools,
         ChangeKontexte(q, S), ~crowd'
  PROVE  Living' /\ Base'
<1>1. Rested /\ Entitled \subseteq Schools /\ person.exists
  BY LivingRests DEF Living
<1>2. PICK p : p = Task(q, "person")
  OBVIOUS
<1>3. PICK r : r = Task(q, "leaveRead")
  OBVIOUS
<1>4. PICK l : l = [r EXCEPT !.school = schools \ S]
  OBVIOUS
<1>5. "person" \in Places /\ "leaveRead" \in Places
  BY DEF Places
<1>6. /\ p.q = q /\ p.at = "person" /\ p.for = "none" /\ p.school = {}
      /\ r \in Handlers /\ r.q = q /\ r.at = "leaveRead" /\ r.for = "none"
  BY <1>2, <1>3, <1>5, Begun
<1>7. l.q = q /\ l.at = "leaveRead" /\ l.for = "none" /\ l.school = schools \ S
  BY <1>4, <1>6 DEF Handlers
<1>8. tasks' = {p} \union {l}
  BY <1>2, <1>3, <1>4 DEF ChangeKontexte
<1>9. UNCHANGED <<row, order, oxUser, member, keycloak, person, offers>> /\ schools' = S /\ Begin(q, person.name)
      /\ ~Crowds(S, offers)
  BY DEF ChangeKontexte, table, ox
<1>10. Entitled' = IF offers THEN S ELSE {}
  BY <1>1, <1>9 DEF Entitled
<1>11. \A v \in {l} : v.at = "leaveRead" /\ v.for = "none" /\ v.school \intersect Entitled' = {}
  BY <1>7, <1>10
<1>12. \A s \in Entitled \ Entitled' : Entitled' = {} \/ \E v \in {l} : s \in v.school
  BY <1>1, <1>7, <1>10 DEF Entitled
<1>13. ~HasRows /\ Entitled' # {} => \E s \in Schools : Entitled' = {s}
  BY <1>1, <1>9, <1>10, FirstDue
<1>14. Entitled' \subseteq Schools
  BY <1>10
<1>15. (Off \/ On \/ Solo)'
  <2>1. PICK L : L = {l}
    OBVIOUS
  <2>2. \A v \in L : v.at = "leaveRead" /\ v.for = "none" /\ v.school \intersect Entitled' = {}
    BY <1>11, <2>1
  <2>3. \A s \in Entitled \ Entitled' : Entitled' = {} \/ \E v \in L : s \in v.school
    BY <1>12, <2>1
  <2>4. tasks' = {p} \union L
    BY <1>8, <2>1
  <2>5. UNCHANGED <<row, order, oxUser, member, keycloak>>
    BY <1>9
  <2> QED
    BY <1>1, <1>6, <1>13, <1>14, <2>2, <2>3, <2>4, <2>5, RightsChange
<1>16. \A t \in tasks' : t.q = q
  BY <1>6, <1>7, <1>8
<1>17. Base'
  BY <1>9, <1>16, BaseBegins
<1> QED
  BY <1>9, <1>15, <1>17 DEF Living

(* The Rolle offers an address, or no longer does. *)
LEMMA ChangeRolleKeeps ==
  ASSUME Typed, Base, Living, tasks = {}, NEW q \in Sessions, ChangeRolle(q), ~crowd'
  PROVE  Living' /\ Base'
<1>1. Rested /\ Entitled \subseteq Schools /\ person.exists
  BY LivingRests DEF Living
<1>2. PICK p : p = Task(q, "person")
  OBVIOUS
<1>3. "person" \in Places
  BY DEF Places
<1>4. p.q = q /\ p.at = "person" /\ p.for = "none" /\ p.school = {}
  BY <1>2, <1>3, Begun
<1>5. tasks' = {p} \union {}
  BY <1>2 DEF ChangeRolle
<1>6. UNCHANGED <<row, order, oxUser, member, keycloak, person, schools>> /\ offers' = ~offers /\ Begin(q, person.name)
      /\ ~Crowds(schools, ~offers)
  BY DEF ChangeRolle, table, ox
<1>7. Entitled' = (IF offers THEN {} ELSE schools) /\ Entitled = (IF offers THEN schools ELSE {})
  BY <1>1, <1>6 DEF Entitled
<1>8. schools \subseteq Schools
  BY TypedParts DEF OthersTyped
<1>9. ~HasRows /\ Entitled' # {} => \E s \in Schools : Entitled' = {s}
  <2>1. ASSUME ~HasRows, Entitled' # {} PROVE \E s \in Schools : schools = {s}
    <3>1. schools # {} /\ ~offers
      BY <1>7, <2>1
    <3>2. PICK offered \in BOOLEAN : offered = ~offers
      OBVIOUS
    <3>3. offered /\ ~Crowds(schools, offered)
      BY <1>6, <3>1, <3>2
    <3> QED
      BY <1>1, <1>8, <2>1, <3>1, <3>3, FirstDue
  <2> QED
    BY <1>7, <2>1
<1>10. Entitled' \subseteq Schools /\ \A s \in Entitled \ Entitled' : Entitled' = {}
  BY <1>7, <1>8
<1>11. (Off \/ On \/ Solo)'
  BY <1>1, <1>4, <1>5, <1>6, <1>9, <1>10, RightsChange
<1>12. \A t \in tasks' : t.q = q
  BY <1>4, <1>5
<1>13. Base'
  BY <1>6, <1>12, BaseBegins
<1> QED
  BY <1>6, <1>11, <1>13 DEF Living

(* The person is renamed. *)
LEMMA RenameKeeps ==
  ASSUME Typed, Base, Living, tasks = {}, NEW q \in Sessions, Rename(q)
  PROVE  Living' /\ Base'
<1>1. Rested /\ person.exists
  BY LivingRests DEF Living
<1>2. PICK r : r = Task(q, "renamed")
  OBVIOUS
<1>3. "renamed" \in Places
  BY DEF Places
<1>4. r.q = q /\ r.at = "renamed"
  BY <1>2, <1>3, Begun
<1>5. tasks' = {r}
  BY <1>2 DEF Rename
<1>6. UNCHANGED <<row, order, oxUser, member, keycloak, schools, offers>> /\ Begin(q, person.name + 1)
  BY DEF Rename, table, ox
<1>7. person'.name = person.name + 1 /\ person'.exists = person.exists
  <2>1. person \in [exists : BOOLEAN, name : Names] /\ person' = [person EXCEPT !.name = @ + 1]
    BY TypedParts DEF OthersTyped, Rename
  <2> QED
    BY <2>1
<1>8. Entitled' = Entitled
  BY <1>6, <1>7 DEF Entitled
<1>9. /\ Cur' = Cur /\ Known' = Known /\ (HasRows' <=> HasRows) /\ (IsEnabled' <=> IsEnabled)
  BY <1>6, SameTable
<1>10. HasUser' <=> HasUser
  BY <1>6 DEF HasUser
<1>11. Steady'
  BY <1>1, <1>6, <1>9, <1>10 DEF Rested, Steady
<1>12. AsEntitled'
  BY <1>1, <1>6, <1>8 DEF Rested, AsEntitled, MembersAre
<1>13. Renaming(r)'
  BY <1>1, <1>4, <1>8, <1>9, <1>11, <1>12 DEF Renaming, Rested
<1>14. Solo'
  BY <1>5, <1>13 DEF Solo, Chain
<1>15. \A t \in tasks' : t.q = q
  BY <1>4, <1>5
<1>16. Base'
  BY <1>6, <1>7, <1>15, BaseBegins
<1> QED
  BY <1>1, <1>6, <1>7, <1>14, <1>16 DEF Living

(* The address by which mail reaches the person is that of the latest row. *)
LEMMA MailReaches ==
  ASSUME Typed, TableInv, Steady, HasRows PROVE EmailOf(order) = row[Cur].text
<1>1. order \in Seq(Slots) /\ order # <<>> /\ \A i \in 1 .. Len(order) : order[i] \in Known
  BY KnownRows DEF TableInv, HasRows
<1>2. Cur \in Slots /\ Cur # 0 /\ Cur \in Known
  BY KnownRows
<1> DEFINE a == FirstOf(order, {"ENABLED"})
<1>3. EmailOf(order) = CASE a # 0                 -> row[a].text
                         [] a = 0 /\ order = <<>> -> 0
                         [] a = 0 /\ order # <<>> -> row[Head(order)].text
  BY DEF EmailOf
<1>4. a = Cur \/ a = 0
  <2>1. CASE row[Cur].status = "ENABLED"
    BY <1>1, <2>1, FirstIs DEF Cur
  <2>2. CASE row[Cur].status # "ENABLED"
    <3>1. \A i \in 1 .. Len(order) : row[order[i]].status \notin {"ENABLED"}
      BY <1>1, <2>2 DEF Steady
    <3> QED
      BY <1>1, <3>1, FirstIs
  <2> QED
    BY <2>1, <2>2
<1>5. Head(order) = Cur
  BY <1>1 DEF Cur
<1> HIDE DEF a
<1> QED
  BY <1>1, <1>2, <1>3, <1>4, <1>5

(* The person is to be deleted. *)
LEMMA DeleteKeeps ==
  ASSUME Typed, Base, Living, tasks = {}, NEW q \in Sessions, Delete(q)
  PROVE  Gone' /\ Base'
<1>1. Rested /\ TableInv
  BY LivingRests DEF Base
<1>2. PICK p : p = [Task(q, "person") EXCEPT !.school = schools]
  OBVIOUS
<1>3. PICK l : l = [Task(q, "leaveRead") EXCEPT !.school = schools]
  OBVIOUS
<1>4. PICK d : d = [Task(q, "deactivate") EXCEPT !.text = EmailOf(order)]
  OBVIOUS
<1>5. PICK x : x = [Task(q, "deleted") EXCEPT !.text = EmailOf(order)]
  OBVIOUS
<1>6. PICK r : r = Task(q, "deleteRow")
  OBVIOUS
<1>7. "person" \in Places /\ "leaveRead" \in Places /\ "deactivate" \in Places /\ "deleted" \in Places
      /\ "deleteRow" \in Places
  BY DEF Places
<1>8. p.q = q /\ p.at = "person" /\ p.for = "none" /\ p.school = schools
  BY <1>2, <1>7, Begun DEF Handlers
<1>9. l.q = q /\ l.at = "leaveRead" /\ l.for = "none"
  BY <1>3, <1>7, Begun DEF Handlers
<1>10. d.q = q /\ d.at = "deactivate" /\ d.for = "none"
  BY <1>4, <1>7, Begun DEF Handlers
<1>11. x.q = q /\ x.at = "deleted" /\ x.for = "none" /\ x.text = EmailOf(order)
  BY <1>5, <1>7, Begun DEF Handlers
<1>12. r.q = q /\ r.at = "deleteRow" /\ r.for = "none"
  BY <1>6, <1>7, Begun
<1>13. tasks' = {p, l, d, x, r}
  BY <1>2, <1>3, <1>4, <1>5, <1>6 DEF Delete
<1>14. UNCHANGED <<row, order, oxUser, member, person, schools, offers>> /\ keycloak' = "gone" /\ Begin(q, person.name)
  BY DEF Delete, table, ox
<1>15. /\ Cur' = Cur /\ (HasRows' <=> HasRows)
  BY <1>14, SameTable
<1>16. Steady'
  BY <1>1, <1>14, SteadyKept DEF Rested
<1>17. \A t \in tasks' : TaskGone(t)'
  <2>1. \A t \in {p, l, d, x, r} : t.at \notin {"disable", "list", "retire"} /\ t.for = "none"
          /\ t.at \in OffSteps \union {"deactivate", "deleted", "retire", "deleteRow"}
          /\ (t.at = "person" => schools \subseteq t.school)
    BY <1>8, <1>9, <1>10, <1>11, <1>12 DEF OffSteps
  <2> QED
    BY <1>13, <1>14, <2>1 DEF TaskGone, HoldsCur
<1>18. CASE HasRows
  <2>1. x.text = row'[Cur].text
    BY <1>1, <1>11, <1>14, <1>18, MailReaches DEF Rested
  <2>2. Retires(x)'
    BY <1>11, <1>15, <2>1 DEF Retires
  <2> QED
    BY <1>8, <1>9, <1>10, <1>11, <1>12, <1>13, <1>14, <1>15, <1>16, <1>17, <1>18, <2>2, BaseBegins DEF Gone
<1>19. CASE ~HasRows
  <2>1. MembersAre({}) /\ oxUser[1].name = 0
    BY <1>1, <1>19 DEF Rested, AsEntitled, Steady, HasUser, NoUser
  <2>2. MembersAre({})' /\ oxUser'[1].name = 0
    BY <1>14, <2>1, SameGroups
  <2> QED
    BY <1>8, <1>9, <1>10, <1>11, <1>12, <1>13, <1>14, <1>16, <1>17, <2>2, BaseBegins DEF Gone
<1> QED
  BY <1>18, <1>19

-----------------------------------------------------------------------------
(* The theorems                                                            *)

(* The person has one address, enabled if a Rolle gives a right to it, or none. *)
LEMMA InitCalm == Init => CalmInv
<1> SUFFICES ASSUME Init PROVE Base /\ Living
  BY DEF CalmInv
<1>1. PICK known \in BOOLEAN :
       LET entitled == IF offers THEN schools ELSE {} IN
       /\ entitled # {} => known
       /\ row = [a \in Slots |->
                  IF known /\ a = 1
                  THEN [status |-> IF entitled = {} THEN "DISABLED" ELSE "ENABLED", ox |-> 1, text |-> 1]
                  ELSE NoRow]
       /\ order = IF known THEN <<1>> ELSE <<>>
       /\ oxUser = [u \in OxIds |-> IF known /\ u = 1 THEN [name |-> 1, primary |-> 1] ELSE NoUser]
       /\ member = [s \in Schools |-> IF s \in entitled THEN {1} ELSE {}]
       /\ keycloak = IF entitled = {} THEN "unset" ELSE "set"
  BY DEF Init
<1> DEFINE status == IF Entitled = {} THEN "DISABLED" ELSE "ENABLED"
           m == [status |-> status, ox |-> 1, text |-> 1]
<1>2. person.exists /\ person.name = 1 /\ tasks = {}
  BY DEF Init
<1>3. Entitled = (IF offers THEN schools ELSE {}) /\ Entitled \subseteq Schools
  BY <1>2 DEF Entitled, Init
<1>4. 1 \in Slots /\ 1 \in OxIds
  BY BoundsAssumption DEF Slots, OxIds
<1>5. /\ Entitled # {} => known
      /\ row = [a \in Slots |-> IF known /\ a = 1 THEN m ELSE NoRow]
      /\ order = IF known THEN <<1>> ELSE <<>>
      /\ oxUser = [u \in OxIds |-> IF known /\ u = 1 THEN [name |-> 1, primary |-> 1] ELSE NoUser]
      /\ member = [s \in Schools |-> IF s \in Entitled THEN {1} ELSE {}]
      /\ keycloak = IF Entitled = {} THEN "unset" ELSE "set"
  BY <1>1, <1>3
<1>6. m.status = status /\ m.ox = 1 /\ m.text = 1 /\ m # NoRow
  BY DEF NoRow
<1>7. PICK n : n = m
  OBVIOUS
<1> HIDE DEF m
<1>8. CASE known
  <2>1. order = <<1>> /\ HasRows /\ Cur = 1 /\ Len(order) = 1
    BY <1>5, <1>8 DEF HasRows, Cur
  <2>2. Known = {1}
    BY <1>4, <2>1 DEF Known, Slots
  <2>3. row[1] = m /\ \A a \in Slots \ {1} : row[a] = NoRow
    BY <1>4, <1>5, <1>8
  <2>4. IsAddress(1)
    BY <1>4 DEF IsAddress, Slots
  <2>5. TableInv
    BY <1>6, <2>1, <2>2, <2>3, <2>4 DEF TableInv
  <2>6. oxUser[1] = [name |-> 1, primary |-> 1] /\ \A u \in OxIds : u # 1 => oxUser[u] = NoUser
    BY <1>4, <1>5, <1>8
  <2>7. HasUser /\ oxUser[1].primary = 1
    BY <2>6 DEF HasUser, NoUser
  <2>8. Steady
    BY <1>6, <2>1, <2>2, <2>3, <2>7 DEF Steady
  <2>9. row[Cur].status = "ENABLED" <=> Entitled # {}
    BY <1>6, <2>1, <2>3
  <2>10. ASSUME Entitled = {} PROVE Off
    <3>1. MembersAre({}) /\ keycloak # "set" /\ ~IsEnabled
      BY <1>5, <2>9, <2>10 DEF MembersAre, IsEnabled
    <3> QED
      BY <1>2, <2>1, <2>8, <2>10, <3>1 DEF Off
  <2>11. ASSUME Entitled # {} PROVE On
    <3>1. keycloak = "set" /\ \A s \in Schools : 1 \in member[s] <=> s \in Entitled
      BY <1>5, <2>11
    <3> QED
      BY <1>2, <1>3, <2>1, <2>8, <2>9, <2>11, <3>1 DEF On
  <2>12. UserInv
    BY <1>5, <2>6 DEF UserInv
  <2> QED
    BY <1>2, <1>5, <2>5, <2>10, <2>11, <2>12 DEF Base, SessionInv, Living
<1>9. CASE ~known
  <2>1. order = <<>> /\ ~HasRows /\ Len(order) = 0
    BY <1>5, <1>9 DEF HasRows
  <2>2. Known = {}
    BY <2>1 DEF Known, Slots
  <2>3. \A a \in Slots : row[a] = NoRow
    BY <1>5, <1>9
  <2>4. TableInv
    BY <2>1, <2>2, <2>3 DEF TableInv
  <2>5. \A u \in OxIds : oxUser[u] = NoUser
    BY <1>5, <1>9
  <2>6. Steady
    BY <1>4, <2>1, <2>2, <2>5 DEF Steady, HasUser
  <2>7. Entitled = {} /\ MembersAre({}) /\ keycloak # "set"
    BY <1>5, <1>9 DEF MembersAre
  <2>8. Off
    BY <1>2, <2>1, <2>6, <2>7 DEF Off, IsEnabled
  <2>9. UserInv
    BY <1>5, <2>5 DEF UserInv
  <2> QED
    BY <1>2, <1>5, <2>4, <2>8, <2>9 DEF Base, SessionInv, Living
<1> QED
  BY <1>8, <1>9

(* A step that changes nothing. *)
LEMMA CalmStutters ==
  ASSUME Base, Living \/ Gone, UNCHANGED vars PROVE Base' /\ (Living \/ Gone)'
<1>1. Same /\ tasks' = tasks
  BY DEF Same, vars, table, ox, copy
<1>2. /\ UNCHANGED <<row, order>> /\ UNCHANGED member /\ UNCHANGED <<person, schools, offers>>
      /\ keycloak' = keycloak /\ oxUser' = oxUser /\ username' = username /\ loaded' = loaded
  BY <1>1 DEF Same
<1>3. /\ Cur' = Cur /\ Known' = Known /\ (HasRows' <=> HasRows) /\ (IsEnabled' <=> IsEnabled) /\ (TableInv' <=> TableInv)
      /\ \A t : (HoldsCur(t)' <=> HoldsCur(t)) /\ (Disables(t)' <=> Disables(t))
  BY <1>2, SameTable
<1>4. (\A S : MembersAre(S)' <=> MembersAre(S)) /\ \A t : LeavesAll(t)' <=> LeavesAll(t)
  BY <1>2, SameGroups
<1>5. Entitled' = Entitled /\ \A t : Stays(t)' <=> Stays(t)
  BY <1>2, SameRights
<1>6. /\ (Steady' <=> Steady) /\ (UserInv' <=> UserInv)
      /\ \A t : (TaskOn(t)' <=> TaskOn(t)) /\ (TaskGone(t)' <=> TaskGone(t)) /\ (Retires(t)' <=> Retires(t))
  BY <1>1, SameState
<1>7. SessionInv' <=> SessionInv
  BY <1>1, <1>2, <1>3 DEF SessionInv
<1>8. Base'
  BY <1>3, <1>6, <1>7 DEF Base
<1>9. Off => Off'
  <2> SUFFICES ASSUME Off PROVE Off'
    OBVIOUS
  <2>1. Entitled' = {} /\ Steady' /\ (~HasRows' => MembersAre({})' /\ keycloak' # "set")
    BY <1>2, <1>3, <1>4, <1>5, <1>6 DEF Off
  <2>2. \A t \in tasks' : TaskOff(t)'
    BY <1>1, <1>3 DEF Off, TaskOff
  <2>3. IsEnabled' => \E t \in tasks' : Disables(t)'
    BY <1>1, <1>3 DEF Off
  <2>4. ~IsEnabled' => MembersAre({})' \/ \E t \in tasks' : LeavesAll(t)'
    BY <1>1, <1>3, <1>4 DEF Off
  <2>5. ~IsEnabled' => keycloak' # "set" \/ \E t \in tasks' : Unsets(t)'
    BY <1>1, <1>2, <1>3 DEF Off, Unsets
  <2> QED
    BY <2>1, <2>2, <2>3, <2>4, <2>5 DEF Off
<1>10. On => On'
  <2> SUFFICES ASSUME On PROVE On'
    OBVIOUS
  <2>1. Entitled' # {} /\ HasRows' /\ Steady' /\ \A t \in tasks' : TaskOn(t)'
    BY <1>1, <1>3, <1>5, <1>6 DEF On
  <2>2. row'[Cur'].status = "ENABLED" \/ \E t \in tasks' : Enables(t)'
    BY <1>1, <1>2, <1>3 DEF On, Enables
  <2>3. keycloak' = "set" \/ MembersAre({})' \/ \E t \in tasks' : t.at = "keycloakSet"
    BY <1>1, <1>2, <1>4 DEF On
  <2>4. \A s \in Entitled' : 1 \in member'[s] \/ \E t \in tasks' : Joins(t, s)'
    BY <1>1, <1>2, <1>5 DEF On, Joins
  <2>5. \A s \in Schools \ Entitled' : 1 \in member'[s] => \E t \in tasks' : Leaves(t, s)'
    BY <1>1, <1>2, <1>5 DEF On, Leaves
  <2> QED
    BY <2>1, <2>2, <2>3, <2>4, <2>5 DEF On
<1>11. Solo => Solo'
  <2>1. \A t : Chain(t)' <=> Chain(t)
    BY <1>1, SameChain
  <2> QED
    BY <1>1, <1>5, <2>1 DEF Solo
<1>12. Gone => Gone'
  <2> SUFFICES ASSUME Gone PROVE Gone'
    OBVIOUS
  <2>1. keycloak' = "gone" /\ Steady' /\ \A t \in tasks' : TaskGone(t)'
    BY <1>1, <1>2, <1>6 DEF Gone
  <2>2. person'.exists => \E t \in tasks' : t.at = "deleteRow"
    BY <1>1, <1>2 DEF Gone
  <2>3. (MembersAre({})' /\ oxUser'[1].name = 0) \/ (HasRows' /\ \E t \in tasks' : Retires(t)')
    BY <1>1, <1>2, <1>3, <1>4, <1>6 DEF Gone
  <2> QED
    BY <2>1, <2>2, <2>3 DEF Gone
<1>13. Living => Living'
  BY <1>2, <1>9, <1>10, <1>11 DEF Living
<1> QED
  BY <1>8, <1>12, <1>13

(* A request begins when the one before it has been answered in full. *)
LEMMA BeginsAtRest ==
  ASSUME Typed, Calm', NEW q, NEW name, Begin(q, name) PROVE tasks = {} /\ keycloak # "gone"
<1>1. overlaps \in Nat /\ overlaps' = 0
  BY TypedParts, BoundsAssumption DEF OthersTyped, Calm
<1> QED
  BY <1>1 DEF Begin

(* Every step keeps what it takes. *)
LEMMA NextCalm == Typed /\ CalmInv /\ [Next]_vars => CalmInv'
<1> SUFFICES ASSUME Typed, CalmInv, [Next]_vars, Calm' PROVE Base' /\ (Living \/ Gone)'
  BY DEF CalmInv
<1>1. Base /\ (Living \/ Gone)
  BY StaysCalm DEF CalmInv
<1>2. ~Fault
  <2>1. faults \in Nat /\ faults' = 0
    BY TypedParts, BoundsAssumption DEF OthersTyped, Calm
  <2> QED
    BY <2>1 DEF Fault
<1>3. ASSUME NEW q, NEW name, Begin(q, name) PROVE tasks = {} /\ Living
  BY <1>1, <1>3, BeginsAtRest DEF Gone
<1>4. ~crowd'
  BY DEF Calm
<1>5. ASSUME NEW q \in Sessions, NEW S \in SUBSET Schools, ChangeKontexte(q, S) PROVE Base' /\ Living'
  <2>1. tasks = {} /\ Living
    BY <1>3, <1>5 DEF ChangeKontexte
  <2> QED
    BY <1>1, <1>4, <1>5, <2>1, ChangeKontexteKeeps
<1>6. ASSUME NEW q \in Sessions, ChangeRolle(q) PROVE Base' /\ Living'
  <2>1. tasks = {} /\ Living
    BY <1>3, <1>6 DEF ChangeRolle
  <2> QED
    BY <1>1, <1>4, <1>6, <2>1, ChangeRolleKeeps
<1>7. ASSUME NEW q \in Sessions, Rename(q) PROVE Base' /\ Living'
  <2>1. tasks = {} /\ Living
    BY <1>3, <1>7 DEF Rename
  <2> QED
    BY <1>1, <1>7, <2>1, RenameKeeps
<1>8. ASSUME NEW q \in Sessions, Delete(q) PROVE Base' /\ Gone'
  <2>1. tasks = {} /\ Living
    BY <1>3, <1>8 DEF Delete
  <2> QED
    BY <1>1, <1>8, <2>1, DeleteKeeps
<1>9. ASSUME NEW t \in tasks, Step(t) PROVE Base' /\ (Living \/ Gone)'
  <2>1. CASE Living
    BY <1>1, <1>2, <1>9, <2>1, LivingStep
  <2>2. CASE Gone
    BY <1>1, <1>2, <1>9, <2>2, GoneStep
  <2> QED
    BY <1>1, <2>1, <2>2
<1>10. ~Restart /\ \A t : ~Throws(t)
  BY <1>2 DEF Restart, Throws
<1>11. CASE UNCHANGED vars
  BY <1>1, <1>11, CalmStutters
<1> QED
  BY <1>5, <1>6, <1>7, <1>8, <1>9, <1>10, <1>11 DEF Next

(* The enabled address is the latest, and the user's. *)
LEMMA EnabledIsCur ==
  ASSUME Typed, Base, Living \/ Gone, NEW a \in Enabled
  PROVE  HasRows /\ a = Cur /\ row[a].ox = 1 /\ oxUser[1].primary = row[a].text
<1>1. TableInv /\ person.exists /\ row[a].status = "ENABLED"
  BY DEF Base, Enabled
<1>2. a \in Known
  <2>1. row[a] # NoRow
    BY <1>1 DEF NoRow
  <2> QED
    BY <1>1, <2>1 DEF TableInv, Enabled
<1>3. Steady
  <2>1. CASE Off \/ On \/ Gone
    BY <2>1 DEF Off, On, Gone
  <2>2. CASE Solo
    <3>1. PICK t \in tasks : Chain(t)
      BY <2>2 DEF Solo
    <3>2. ~HasRows => Known = {}
      BY <1>1, KnownRows
    <3> QED
      BY <1>1, <1>2, <3>1, <3>2 DEF Chain, Renaming, Generating, Changing, Confirming, Retaining, Beginning,
                                    Creating, Joining, Pending, Former
  <2> QED
    BY <2>1, <2>2 DEF Living
<1>4. HasRows
  BY <1>1, <1>2, KnownRows
<1> QED
  BY <1>1, <1>2, <1>3, <1>4 DEF Steady

(* Without a failure, and with one request after the other, the address that is *)
(* enabled is the one mail reaches.                                            *)
LEMMA CalmPrimary ==
  ASSUME Typed, CalmInv, Calm
  PROVE  /\ Cardinality({u \in OxIds : oxUser[u] # NoUser}) <= 1
         /\ \A a \in Enabled : row[a].ox # 0 /\ oxUser[row[a].ox].primary = row[a].text
         /\ Cardinality(Enabled) <= 1
<1>1. Base /\ (Living \/ Gone)
  BY DEF CalmInv
<1>2. ASSUME NEW S, NEW x, S \subseteq {x} PROVE Cardinality(S) <= 1
  <2>1. S = {} \/ S = {x}
    BY <1>2
  <2>2. Cardinality({}) = 0
    BY FS_EmptySet
  <2>3. Cardinality({x}) = 1
    BY FS_Singleton
  <2> QED
    BY <2>1, <2>2, <2>3
<1>3. {u \in OxIds : oxUser[u] # NoUser} \subseteq {1}
  BY <1>1 DEF Base, UserInv
<1>4. \A a \in Enabled : a = Cur /\ row[a].ox = 1 /\ oxUser[1].primary = row[a].text
  BY <1>1, EnabledIsCur
<1>5. Enabled \subseteq {Cur}
  BY <1>4
<1>6. Cardinality({u \in OxIds : oxUser[u] # NoUser}) <= 1 /\ Cardinality(Enabled) <= 1
  BY <1>2, <1>3, <1>5
<1>7. \A a \in Enabled : row[a].ox # 0 /\ oxUser[row[a].ox].primary = row[a].text
  BY <1>4
<1> QED
  BY <1>6, <1>7

(* When every request has been answered in full, everything agrees. *)
LEMMA CalmAgrees == Typed /\ CalmInv => QuietAgrees
<1> SUFFICES ASSUME Typed, CalmInv, Quiet PROVE QuietAgrees
  BY DEF QuietAgrees
<1>1. Base /\ (Living \/ Gone) /\ tasks = {} /\ TableInv /\ UserInv
  BY DEF CalmInv, Quiet, Calm, Base
<1>2. \A a \in Known : a \in Slots
  BY DEF Known
<1>3. CASE Living
  <2>1. Rested /\ Entitled \subseteq Schools /\ person.exists
    BY <1>1, <1>3, LivingRests DEF Living
  <2>2. Enabled = {} <=> Entitled = {}
    <3>1. Enabled # {} => IsEnabled
      BY <1>1, <2>1, EnabledIsCur DEF Enabled, IsEnabled
    <3>2. IsEnabled => Cur \in Enabled
      BY <1>1, <2>1, KnownRows DEF Enabled, IsEnabled
    <3> QED
      BY <2>1, <3>1, <3>2 DEF Rested
  <2>3. keycloak = "set" <=> Entitled # {}
    BY <2>1 DEF Rested, AsEntitled
  <2>4. \A s \in Schools : member[s] # {} <=> s \in Entitled
    BY <1>1, <2>1 DEF Rested, AsEntitled, MembersAre, UserInv
  <2>5. Newest({"REQUESTED", "FAILED"}) = 0
    <3>1. \A a \in Known : row[a].status \notin {"REQUESTED", "FAILED"}
      BY <2>1 DEF Rested, Steady
    <3> QED
      BY <1>1, <2>1, <3>1, NewestIs
  <2> QED
    BY <2>1, <2>2, <2>3, <2>4, <2>5 DEF QuietAgrees
<1>4. CASE Gone
  <2>1. ~person.exists /\ MembersAre({}) /\ oxUser[1].name = 0
    BY <1>1, <1>4 DEF Gone
  <2>2. \A u \in OxIds : oxUser[u].name = 0
    BY <1>1, <2>1 DEF UserInv, NoUser
  <2>3. \A s \in Schools : member[s] = {}
    BY <1>1, <2>1 DEF UserInv, MembersAre
  <2> QED
    BY <2>1, <2>2, <2>3 DEF QuietAgrees, Enabled
<1> QED
  BY <1>1, <1>3, <1>4

(* Both hold of every state of the system. *)
LEMMA SpecCalm == Spec => [](Typed /\ CalmInv)
<1>1. Init => Typed /\ CalmInv
  BY InitTyped, InitCalm
<1>2. (Typed /\ CalmInv) /\ [Next]_vars => (Typed /\ CalmInv)'
  BY NextTyped, NextCalm
<1> QED
  BY <1>1, <1>2, PTL DEF Spec

(* When the requests were answered one after the other, with no call failing,  *)
(* and none is in progress, the table, OX and Keycloak agree with the rights.  *)
THEOREM Agreement == Spec => []QuietAgrees
<1>1. Typed /\ CalmInv => QuietAgrees
  BY CalmAgrees
<1> QED
  BY <1>1, SpecCalm, PTL
=============================================================================
