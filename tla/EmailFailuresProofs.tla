-------------------------- MODULE EmailFailuresProofs --------------------------
(***************************************************************************)
(* For any number of requests answered one after the other, schools,       *)
(* addresses and names: one failure, or an address that is due for several *)
(* schools, does not leave a person with two enabled addresses.  After     *)
(* either nothing tells any more what is yet to be done; the invariant     *)
(* says instead which address may still be enabled, and by whom.           *)
(***************************************************************************)
EXTENDS EmailAddressesProofs

-----------------------------------------------------------------------------
(* The invariant                                                           *)

(* Only one request at a time; and no failure, or one, if no address was due for *)
(* several schools.                                                             *)
Single == overlaps = 0 /\ (faults = 0 \/ (faults = 1 /\ ~crowd))

(* The table: rows stay, with the text they have, and no two have the same.     *)
HasText(x) == \E h \in Slots : row[h] # NoRow /\ row[h].text = x
RowsFit ==
  /\ \A a \in Slots : row[a] # NoRow <=> a <= Len(order)
  /\ \A a \in Slots : row[a] # NoRow => row[a].text # 0 /\ \E i \in 1 .. Len(order) : order[i] = a
  /\ \A i \in 1 .. Len(order) : row[order[i]] # NoRow
  /\ \A q \in Sessions : \A i \in 1 .. Len(loaded[q]) : row[loaded[q][i]] # NoRow
  /\ \A a, b \in Slots : row[a] # NoRow /\ row[b] # NoRow /\ row[a].text = row[b].text => a = b

(* What the status of a row that a handler saves is, by what it is saved for.   *)
StatusFits(t, m) ==
  /\ t.at = "disable" => m.status = "DISABLED"
  /\ t.at \in {"exists", "oxCreate", "oxChange", "join"} => m.status = "REQUESTED"
  /\ t.at \in {"save", "write"} =>
       /\ t.for \in {"enable", "confirm"} => m.status = "ENABLED"
       /\ t.for \in {"create", "change", "disabled"} => m.status = "REQUESTED" /\ m.ox = 0
       /\ t.for = "oxid" => m.status = "REQUESTED"
       /\ t.for \in {"rename", "disable"} => m.status = "DISABLED"
       /\ t.for = "failed" => m.status = "FAILED"
ForNew(t) == t.at \in {"save", "write"} /\ t.for \in {"create", "change", "disabled"}
Confirms(t) == t.at \in {"save", "write"} /\ t.for = "confirm"
HeldFits(t) ==
  /\ t.at \in {"join", "keycloakSet", "confirm", "oxChange"} => HasText(t.text)
  /\ \A a \in DOMAIN t.held :
       LET m == t.held[a] IN
       /\ m.text # 0 /\ StatusFits(t, m)
       /\ a # 0 => a \in Slots /\ row[a] # NoRow /\ (m.text = row[a].text \/ (Confirms(t) /\ HasText(m.text)))
       /\ ForNew(t) => a = 0
       /\ t.at = "join" \/ (t.at \in {"save", "write"} /\ t.for = "oxid") => t.text = m.text
HandlersFit == \A t \in tasks : HeldFits(t)
InTurn == overlaps = 0 => (\A t, u \in tasks : t.q = u.q) /\ (\A t \in tasks : username[t.q] = person.name)
Fit == RowsFit /\ HandlersFit /\ InTurn

(* The row that is taken up when an answer comes from OX.                       *)
Due == Newest({"REQUESTED"})

(* An address that was once valid; one that is to be confirmed, and so may be   *)
(* picked up by a handler that confirms another.                                *)
Settled(a) == row[a].status \in {"ENABLED", "DISABLED"}
NoneSettled == \A a \in Slots : ~Settled(a)
NothingEnabled == \A a \in Slots : row[a].status # "ENABLED"
OneEnabled == \A a, b \in Slots : row[a].status = "ENABLED" /\ row[b].status = "ENABLED" => a = b
Waits(b) == row[b].status = "REQUESTED" /\ row[b].ox # 0
Ahead(b) == \A j \in 1 .. Len(order) : order[j] = b => \E i \in 1 .. Len(order) : i < j /\ Settled(order[i])
Served == NoneSettled /\ Used(person.name) /\ Entitled # {}

Aside(t) == t.at \in {"leaveRead", "leave"} /\ t.for # "deleted"
Gives(t) == t.at \in {"join", "keycloakSet", "confirm"}
\* The save would give a row the text of another.
Blocked(t) == \E h \in Slots : row[h] # NoRow /\ \A a \in DOMAIN t.held : h # a /\ row[h].text = t.held[a].text
Unsettles(t) == \A a \in Slots : Settled(a) => a \notin DOMAIN t.held

(* An address is enabled, and what is in progress does not change it.           *)
Harmless(t) ==
  \/ Aside(t)
  \/ t.at \in {"school", "alreadyExists", "create"}
  \/ t.at = "generate" /\ t.for = "create"
  \/ t.at \in {"exists", "oxCreate"} /\ Unsettles(t)
  \/ t.at = "exists" /\ Used(username[t.q])
  \/ Gives(t) /\ t.held = <<>>
  \/ t.at = "save" /\ t.for \in {"enable", "confirm", "create"}
  \/ t.at = "save" /\ t.for = "oxid" /\ Unsettles(t)
  \/ t.at = "write" /\ t.for \in {"enable", "confirm"} /\ (Blocked(t) \/ DOMAIN t.held \subseteq Enabled)
  \/ t.at = "write" /\ t.for \in {"create", "failed"} /\ Unsettles(t)
After ==
  /\ ~NothingEnabled
  /\ \A b \in Slots : Waits(b) => Ahead(b)
  /\ \A t \in tasks : Harmless(t)

(* An address is to be enabled again, for one school or several.                *)
Enables1(t) ==
  \/ Aside(t)
  \/ t.at \in {"school", "alreadyExists"} /\ loaded[t.q] = order
  \/ t.at \in {"save", "write"} /\ t.for = "enable" /\ Newest({"ENABLED", "DISABLED"}) \in DOMAIN t.held /\ loaded[t.q] = order
  \/ Gives(t) /\ t.held = <<>> /\ \E h \in Slots : row[h] # NoRow /\ row[h].status # "REQUESTED" /\ row[h].text = t.text
  \/ Confirms(t) /\ Blocked(t)
Before ==
  /\ NothingEnabled /\ ~NoneSettled
  /\ \A b \in Slots : Waits(b) => Ahead(b)
  /\ \A t \in tasks : Enables1(t)

(* The first address, or none.                                                  *)
FirstTask(t) ==
  \/ Aside(t)
  \/ t.at \in {"school", "create", "exists", "alreadyExists"}
  \/ t.at \in {"generate", "save"} /\ t.for = "create"
  \/ t.at = "write" /\ t.for \in {"create", "failed"}
\* The user was there: the address it has is that of the first row.
FirstRow(q) == loaded[q][1]
ToUser(t, q) ==
  /\ FirstTask(t) \/ Gives(t) \/ Confirms(t)
  /\ t.at = "write" /\ t.for = "failed" => \A a \in DOMAIN t.held : a = 0
  /\ Gives(t) => loaded[q] # <<>> /\ t.held = <<>> /\ t.text = row[FirstRow(q)].text
  /\ Confirms(t) => loaded[q] # <<>> /\ \A a \in DOMAIN t.held : t.held[a].text = row[FirstRow(q)].text
UserWas == Served /\ \E q \in Sessions : \A t \in tasks : t.q = q /\ ToUser(t, q)
\* There is no user, and no row that names one.
NoUserYet ==
  /\ Entitled # {} /\ ~Used(person.name) /\ NoneSettled /\ \A b \in Slots : ~Waits(b)
  /\ \A t \in tasks : FirstTask(t) \/ t.at = "oxCreate"
\* The user was made for row w.
ForUser(t, w) ==
  /\ \/ FirstTask(t) \/ Gives(t) \/ Confirms(t) \/ t.at = "oxCreate"
     \/ t.at \in {"save", "write"} /\ t.for = "oxid" /\ DOMAIN t.held = {w}
  /\ t.at = "join" => t.held = <<>> \/ DOMAIN t.held = {w}
  /\ Gives(t) => t.text = row[w].text \/ \E h \in Slots : h # w /\ row[h].status = "FAILED" /\ row[h].text = t.text
  /\ Confirms(t) => DOMAIN t.held = {w} \/ Blocked(t)
UserOf(w) ==
  /\ Entitled # {} /\ Used(person.name) /\ row[w] # NoRow
  /\ \A a \in Slots : Settled(a) => a = w /\ row[a].status = "ENABLED"
  /\ \A b \in Slots : Waits(b) => b = w
  /\ \A t \in tasks : ForUser(t, w)
First == UserWas \/ NoUserYet \/ \E w \in Slots : UserOf(w)

(* One handler after the other. *)
Line(t) == t.at \notin {"leaveRead", "leave", "list", "disabledInOx", "disabledInKeycloak"}
LinePlaces == {"person", "generate", "save", "write", "without", "disable", "renamed", "renamedWith", "renamedWithout",
               "confirm", "confirmDisabled", "create", "exists", "oxCreate", "join", "change", "oxChange", "keycloakSet"}
Requesting(t) == t.at \in {"create", "exists", "oxCreate", "join"} \/ (t.at \in {"generate", "save", "write"} /\ t.for \in {"create", "oxid"})
AboutNewest(t) == \A a \in DOMAIN t.held : a # 0 => Due = a
InLine(t) ==
  /\ t.at \in LinePlaces
  /\ t.at \in {"save", "write"} => t.for # "enable"
  /\ t.todo = {}
  /\ t.at = "person" => t.school = {} /\ loaded[t.q] = order /\ \A u \in tasks \ {t} : Aside(u)
  /\ t.at = "write" /\ t.for \in {"oxid", "confirm"} => NothingEnabled
  /\ t.at = "join" => t.held # <<>> /\ NothingEnabled
  /\ t.at \in {"exists", "oxCreate", "oxChange", "join"} \/ (t.at \in {"save", "write"} /\ t.for \in {"oxid", "failed"}) => AboutNewest(t)
  /\ ForNew(t) => \A a \in DOMAIN t.held : ~HasText(t.held[a].text)
  /\ Requesting(t) => ~Calm
Answers(t, b) ==
  \/ t.at = "join" /\ DOMAIN t.held = {b}
  \/ t.at \in {"keycloakSet", "confirm"} /\ t.text = row[b].text
  \/ Confirms(t) /\ DOMAIN t.held = {b} /\ t.held[b].text = row[b].text
WillServe(t) ==
  \/ t.at \in {"renamed", "renamedWith", "create", "exists", "oxCreate"}
  \/ t.at \in {"generate", "save", "write"} /\ t.for = "create"
Fixes(t, b) ==
  \/ Entitled = {} /\ t.at \in {"person", "without"}
  \/ t.at = "disable" /\ b \in DOMAIN t.held
  \/ Due = b /\ NothingEnabled /\ Answers(t, b)
  \/ t.at = "write" /\ t.for = "failed" /\ DOMAIN t.held = {b}
  \/ NoneSettled /\ Entitled # {} /\ WillServe(t)
Settles == \A b \in Slots : Waits(b) => Ahead(b) \/ Served \/ \E t \in tasks : Fixes(t, b)
OneLine ==
  /\ \A t, u \in tasks : Line(t) /\ Line(u) => t = u
  /\ \A t \in tasks : IF Line(t) THEN InLine(t) ELSE t.for # "deleted"
  /\ Settles
  /\ Calm => \A b \in Slots : ~Waits(b)

GonePlaces == {"person", "without", "disable", "disabledInOx", "disabledInKeycloak", "list", "leave", "leaveRead",
               "deactivate", "deleted", "retire", "deleteRow"}
Leaving == keycloak = "gone" /\ \A t \in tasks : t.at \in GonePlaces /\ (t.at = "person" => schools \subseteq t.school)
Asked == keycloak # "gone" /\ person.exists /\ (OneLine \/ After \/ Before \/ First)
OneInv == Single => OneEnabled /\ (Leaving \/ Asked)

-----------------------------------------------------------------------------
(* Rows and their order                                                    *)

(* What the types say of the rows. *)
LEMMA Rows ==
  ASSUME Typed
  PROVE  /\ row \in [Slots -> EmailAddress \union {NoRow}]
         /\ order \in Seq(Slots) /\ Len(order) \in Nat /\ Len(order) <= MaxAddresses
         /\ loaded \in [Sessions -> Seq(Slots)]
         /\ \A a \in Slots : row[a] # NoRow => row[a] \in EmailAddress
         /\ \A a \in Slots : row[a] # NoRow <=> row[a].status \in EmailAddressStatus
         /\ \A a \in Slots : row[a].status = "none" <=> row[a] = NoRow
         /\ \A a \in Slots : a \in Nat /\ a # 0
<1>1. /\ row \in [Slots -> EmailAddress \union {NoRow}]
      /\ order \in Seq(Slots) /\ Len(order) \in Nat /\ Len(order) <= MaxAddresses
      /\ loaded \in [Sessions -> Seq(Slots)]
  BY TypedParts DEF TableTyped
<1>2. \A m \in EmailAddress : m.status \in EmailAddressStatus /\ m.status # "none"
  BY DEF EmailAddress, EmailAddressStatus
<1>3. NoRow.status = "none" /\ "none" \notin EmailAddressStatus
  BY DEF NoRow, EmailAddressStatus
<1>4. \A a \in Slots : row[a] \in EmailAddress \/ row[a] = NoRow
  BY <1>1
<1>5. \A a \in Slots : a \in Nat /\ a # 0
  BY BoundsAssumption DEF Slots
<1> QED
  BY <1>1, <1>2, <1>3, <1>4, <1>5

(* A sequence has the same elements as another. *)
Permutes(f, seq) ==
  /\ \A i \in 1 .. Len(seq) : \E j \in 1 .. Len(seq) : f[i] = seq[j]
  /\ \A j \in 1 .. Len(seq) : \E i \in 1 .. Len(seq) : f[i] = seq[j]

(* One element of it has been moved to the front. *)
Shifts(f, seq, a) ==
  \E p \in 1 .. Len(seq) :
    /\ seq[p] = a
    /\ \A i \in 1 .. Len(seq) : i > 1 /\ i <= p => f[i] = seq[i - 1]
    /\ \A i \in 1 .. Len(seq) : i > p => f[i] = seq[i]

(* A row that is updated is the first, the ones before it are one place back. *)
LEMMA InFront ==
  ASSUME NEW seq \in Seq(Slots), NEW a \in Slots, \E i \in 1 .. Len(seq) : seq[i] = a,
         NEW f, f = ToFront(seq, a)
  PROVE  /\ Len(f) = Len(seq) /\ f[1] = a
         /\ Shifts(f, seq, a) /\ Permutes(f, seq)
<1> DEFINE p == CHOOSE i \in 1 .. Len(seq) : seq[i] = a
           g(i) == CASE i = 1 -> a [] i > 1 /\ i <= p -> seq[i - 1] [] OTHER -> seq[i]
<1>1. Len(seq) \in Nat
  OBVIOUS
<1>2. p \in 1 .. Len(seq) /\ seq[p] = a
  OBVIOUS
<1>3. ToFront(seq, a) = [i \in 1 .. Len(seq) |-> g(i)]
  BY DEF ToFront
<1>4. Len(ToFront(seq, a)) = Len(seq)
  BY ToFrontTyped
<1> HIDE DEF p
<1>5. g(1) = a
  OBVIOUS
<1>6. \A i \in 1 .. Len(seq) : (i > 1 /\ i <= p => g(i) = seq[i - 1]) /\ (i > p => g(i) = seq[i])
  BY <1>1, <1>2
<1> HIDE DEF g
<1>8. \A i \in 1 .. Len(seq) : f[i] = g(i)
  BY <1>3
<1>9. /\ f[1] = a
      /\ \A i \in 1 .. Len(seq) : i > 1 /\ i <= p => f[i] = seq[i - 1]
      /\ \A i \in 1 .. Len(seq) : i > p => f[i] = seq[i]
  BY <1>1, <1>2, <1>5, <1>6, <1>8
<1>10. ASSUME NEW i \in 1 .. Len(seq) PROVE \E j \in 1 .. Len(seq) : f[i] = seq[j]
  <2>1. CASE i = 1
    BY <1>2, <1>9, <2>1
  <2>2. CASE i > 1 /\ i <= p
    <3>1. i - 1 \in 1 .. Len(seq)
      BY <1>1, <2>2
    <3> QED
      BY <1>9, <2>2, <3>1
  <2>3. CASE i > p
    BY <1>9, <2>3
  <2> QED
    BY <1>1, <1>2, <2>1, <2>2, <2>3
<1>11. ASSUME NEW j \in 1 .. Len(seq) PROVE \E i \in 1 .. Len(seq) : f[i] = seq[j]
  <2>1. CASE j < p
    <3>1. j + 1 \in 1 .. Len(seq) /\ j + 1 > 1 /\ j + 1 <= p /\ (j + 1) - 1 = j
      BY <1>1, <1>2, <2>1
    <3> QED
      BY <1>9, <3>1
  <2>2. CASE j = p
    <3>1. 1 \in 1 .. Len(seq)
      BY <1>1, <1>2
    <3> QED
      BY <1>2, <1>9, <2>2, <3>1
  <2>3. CASE j > p
    BY <1>9, <2>3
  <2> QED
    BY <1>1, <1>2, <2>1, <2>2, <2>3
<1> QED
  BY <1>2, <1>4, <1>9, <1>10, <1>11 DEF Permutes, Shifts

(* The first of some rows with one of some statuses: none before it has one. *)
LEMMA FirstFound ==
  ASSUME NEW seq \in Seq(Slots), NEW S
  PROVE  LET a == FirstOf(seq, S) IN
         /\ a \in Slots \union {0}
         /\ a = 0 => \A i \in 1 .. Len(seq) : row[seq[i]].status \notin S
         /\ a # 0 => \E k \in 1 .. Len(seq) :
                       /\ seq[k] = a /\ row[a].status \in S
                       /\ \A j \in 1 .. Len(seq) : j < k => row[seq[j]].status \notin S
<1> DEFINE I == {i \in 1 .. Len(seq) : row[seq[i]].status \in S}
           k == CHOOSE i \in I : \A j \in I : i <= j
<1>1. Len(seq) \in Nat /\ \A i \in 1 .. Len(seq) : seq[i] \in Slots
  OBVIOUS
<1>z. \A a \in Slots : a # 0
  BY BoundsAssumption DEF Slots
<1>2. CASE I = {}
  BY <1>2 DEF FirstOf
<1>3. CASE I # {}
  <2>1. I \in SUBSET Nat
    OBVIOUS
  <2>2. \E i \in I : \A j \in I : i <= j
    BY <1>3, <2>1, Least
  <2>3. k \in I /\ \A j \in I : k <= j
    BY <2>2
  <2>4. FirstOf(seq, S) = seq[k]
    BY <1>3 DEF FirstOf
  <2>5. k \in 1 .. Len(seq) /\ row[seq[k]].status \in S
    BY <2>3
  <2>6. ASSUME NEW j \in 1 .. Len(seq), j < k, row[seq[j]].status \in S PROVE FALSE
    <3>1. k <= j
      BY <2>3, <2>6
    <3> HIDE DEF k
    <3> QED
      BY <1>1, <2>5, <2>6, <3>1
  <2> HIDE DEF k, I
  <2>7. seq[k] \in Slots /\ seq[k] # 0
    BY <1>1, <1>z, <2>5
  <2> QED
    BY <2>4, <2>5, <2>6, <2>7
<1> QED
  BY <1>2, <1>3

(* The latest row with one of some statuses, if there is one. *)
LEMMA NewestFound ==
  ASSUME Typed, RowsFit, person.exists, NEW S \in SUBSET EmailAddressStatus
  PROVE  LET n == Newest(S) IN
         /\ n \in Slots \union {0}
         /\ n = 0 => \A a \in Slots : row[a].status \notin S
         /\ n # 0 => row[n].status \in S /\ row[n] # NoRow /\ row[n] \in EmailAddress
<1>1. order \in Seq(Slots)
  BY Rows
<1>2. PICK n : n = Newest(S)
  OBVIOUS
<1>3. n = FirstOf(order, S)
  BY <1>2 DEF Newest, Addresses
<1>4. /\ n \in Slots \union {0}
      /\ n = 0 => \A i \in 1 .. Len(order) : row[order[i]].status \notin S
      /\ n # 0 => row[n].status \in S
  BY <1>1, <1>3, FirstFound
<1>5. ASSUME n = 0, NEW a \in Slots, row[a].status \in S PROVE FALSE
  <2>1. row[a] # NoRow
    BY <1>5, Rows
  <2>2. PICK i \in 1 .. Len(order) : order[i] = a
    BY <2>1 DEF RowsFit
  <2> QED
    BY <1>4, <1>5, <2>2
<1>6. n # 0 => row[n] # NoRow
  BY <1>4, Rows
<1>7. n # 0 => row[n] \in EmailAddress
  BY <1>4, <1>6, Rows
<1> QED
  BY <1>2, <1>4, <1>5, <1>6, <1>7

(* Rows are never removed, and keep their text. *)
RowsKept == \A a \in Slots : row[a] # NoRow => row'[a] # NoRow /\ row'[a].text = row[a].text

(* Nor do texts disappear. *)
LEMMA TextsKept ==
  ASSUME RowsKept, NEW x, HasText(x) PROVE HasText(x)'
BY DEF RowsKept, HasText

(* An update keeps all rows as they are, but for the one it is about. *)
LEMMA UpdateFits ==
  ASSUME Typed, RowsFit, NEW a \in Slots, row[a] # NoRow, NEW m \in EmailAddress, Update(a, m), CanWrite(a, m),
         m.text = row[a].text \/ HasText(m.text)
  PROVE  /\ RowsFit' /\ RowsKept /\ m.text = row[a].text
         /\ row'[a] = m /\ \A b \in Slots : b # a => row'[b] = row[b]
         /\ (m = row[a] /\ row' = row /\ order' = order) \/ (m # row[a] /\ order' = ToFront(order, a))
         /\ UNCHANGED loaded
<1>1. /\ row \in [Slots -> EmailAddress \union {NoRow}] /\ order \in Seq(Slots) /\ Len(order) \in Nat
      /\ \A b \in Slots : b \in Nat /\ b # 0
  BY Rows
<1>2. row' = [row EXCEPT ![a] = m] /\ UNCHANGED loaded /\ order' = (IF m = row[a] THEN order ELSE ToFront(order, a))
  BY DEF Update
<1>3. row'[a] = m /\ \A b \in Slots : b # a => row'[b] = row[b]
  BY <1>1, <1>2
<1>4. m.text = row[a].text
  BY DEF HasText, CanWrite
<1>5. m # NoRow
  BY DEF EmailAddress, EmailAddressStatus, NoRow
<1>6. RowsKept
  BY <1>3, <1>4, <1>5 DEF RowsKept
<1>7. \A b \in Slots : (row'[b] # NoRow <=> row[b] # NoRow) /\ row'[b].text = row[b].text
  BY <1>3, <1>4, <1>5
<1>8. m = row[a] => row' = row
  BY <1>1, <1>2
<1>9. PICK k \in 1 .. Len(order) : order[k] = a
  BY DEF RowsFit
<1>10. Len(order') = Len(order)
  BY <1>1, <1>2, <1>9, InFront
<1>11. Permutes(order', order)
  <2>1. CASE order' = order
    BY <2>1 DEF Permutes
  <2>2. CASE order' = ToFront(order, a)
    BY <1>1, <1>9, <2>2, InFront
  <2> QED
    BY <1>2, <2>1, <2>2
<1>12. RowsFit'
  <2>1. \A b \in Slots : row'[b] # NoRow <=> b <= Len(order')
    BY <1>7, <1>10 DEF RowsFit
  <2>2. \A b \in Slots : row'[b] # NoRow => row'[b].text # 0 /\ \E i \in 1 .. Len(order') : order'[i] = b
    <3>1. ASSUME NEW b \in Slots, row'[b] # NoRow PROVE row'[b].text # 0 /\ \E i \in 1 .. Len(order) : order'[i] = b
      <4>1. row[b] # NoRow /\ row'[b].text = row[b].text
        BY <1>7, <3>1
      <4>2. PICK j \in 1 .. Len(order) : order[j] = b
        BY <4>1 DEF RowsFit
      <4> QED
        BY <1>11, <4>1, <4>2 DEF RowsFit, Permutes
    <3> QED
      BY <1>10, <3>1
  <2>3. \A i \in 1 .. Len(order) : order[i] \in Slots
    BY <1>1
  <2>4. \A i \in 1 .. Len(order') : row'[order'[i]] # NoRow
    <3>1. ASSUME NEW i \in 1 .. Len(order) PROVE row'[order'[i]] # NoRow
      <4>1. PICK j \in 1 .. Len(order) : order'[i] = order[j]
        BY <1>11 DEF Permutes
      <4> QED
        BY <1>7, <2>3, <4>1 DEF RowsFit
    <3> QED
      BY <1>10, <3>1
  <2>5. \A q \in Sessions : \A i \in 1 .. Len(loaded'[q]) : row'[loaded'[q][i]] # NoRow
    <3>1. \A q \in Sessions : \A i \in 1 .. Len(loaded[q]) : loaded[q][i] \in Slots
      BY Rows
    <3> QED
      BY <1>2, <1>7, <3>1 DEF RowsFit
  <2>6. \A b, c \in Slots : row'[b] # NoRow /\ row'[c] # NoRow /\ row'[b].text = row'[c].text => b = c
    BY <1>7 DEF RowsFit
  <2> QED
    BY <2>1, <2>2, <2>4, <2>5, <2>6 DEF RowsFit
<1> QED
  BY <1>2, <1>3, <1>4, <1>6, <1>8, <1>12

-----------------------------------------------------------------------------
(* How a handler goes on                                                   *)

(* What most steps leave alone. *)
Still ==
  /\ UNCHANGED <<row, order, loaded, person, schools, offers, username>>
  /\ keycloak' = "gone" <=> keycloak = "gone"

(* A handler that was started by another, and holds nothing yet. *)
Started1(u, t, at) == u.q = t.q /\ u.at = at /\ u.held = <<>>

(* The save of FAILED, instead of what was held. *)
Fails(u, t) ==
  /\ u.q = t.q /\ u.at = "write" /\ u.for = "failed" /\ u.todo = t.todo
  /\ DOMAIN u.held = DOMAIN t.held
  /\ \A a \in DOMAIN t.held : u.held[a] = [t.held[a] EXCEPT !.status = "FAILED"]

(* What goes on only changes little. *)
LEMMA NothingStill == Nothing => Still /\ UNCHANGED oxUser /\ UNCHANGED trouble
BY DEF Nothing, Still, table, ox, copy

(* Who is started knows only the session. *)
LEMMA Fresh ==
  ASSUME Typed, NEW t \in tasks, NEW at \in Places, NEW s, s = Task(t.q, at)
  PROVE  /\ s \in Handlers /\ s.q = t.q /\ s.at = at /\ s.for = "none" /\ s.school = {} /\ s.todo = {}
         /\ s.held = <<>> /\ s.ox = 0 /\ s.text = 0
BY TaskTyped, TaskShaped

(* The loop over the schools goes on, unless there is none left. *)
LEMMA LoopIs ==
  ASSUME Typed, NEW t \in tasks, NEW n \in Handlers, n.q = t.q
  PROVE  /\ \A u \in Loop(n) : Started1(u, t, "school")
         /\ n.todo = {} => Loop(n) = {}
         /\ \A u, v \in Loop(n) : u = v
<1>1. "school" \in Places
  BY DEF Places
<1>2. PICK s : s = Task(n.q, "school")
  OBVIOUS
<1>3. s \in Handlers /\ s.q = t.q /\ s.at = "school" /\ s.held = <<>>
  BY <1>1, <1>2, Fresh
<1>4. PICK u : u = [s EXCEPT !.todo = n.todo]
  OBVIOUS
<1>5. u.q = t.q /\ u.at = "school" /\ u.held = <<>>
  BY <1>3, <1>4 DEF Handlers
<1>6. Loop(n) = IF n.todo = {} THEN {} ELSE {u}
  BY <1>2, <1>4 DEF Loop
<1> QED
  BY <1>5, <1>6 DEF Started1

(* A row is given up. *)
LEMMA FailedIs ==
  ASSUME Typed, NEW t \in tasks, HoldsOne(t)
  PROVE  \E u : Failed(t) = {u} /\ Fails(u, t)
<1>1. t \in Handlers
  BY TaskTyped
<1>2. PICK a : a = Held(t)
  OBVIOUS
<1>3. a \in 0 .. MaxAddresses /\ DOMAIN t.held = {a} /\ t.held[a] \in Mails
  BY <1>1, <1>2, HeldIs
<1>4. PICK m : m = [t.held[a] EXCEPT !.status = "FAILED"]
  OBVIOUS
<1>5. m \in Mails
  BY <1>3, <1>4 DEF Mails, EmailAddressStatus
<1>6. PICK h : h = Holding(t, a, m)
  OBVIOUS
<1>7. h \in Handlers /\ h = [t EXCEPT !.held = h.held] /\ DOMAIN h.held = {a} /\ h.held[a] = m
  BY <1>1, <1>3, <1>5, <1>6, HoldingShaped
<1>8. PICK u : u = Saves(h, "write", "failed")
  OBVIOUS
<1>9. /\ u.q = t.q /\ u.at = "write" /\ u.for = "failed" /\ u.todo = t.todo
      /\ u.held = h.held
  BY <1>1, <1>7, <1>8 DEF Saves, Handlers
<1>10. Failed(t) = {u}
  BY <1>2, <1>4, <1>6, <1>8 DEF Failed, Status
<1>11. Fails(u, t)
  BY <1>3, <1>4, <1>7, <1>9 DEF Fails
<1> QED
  BY <1>10, <1>11

(* The handlers that save, *)
LEMMA CheckSaveGoes ==
  ASSUME Typed, NEW t \in tasks, CheckSave(t)
  PROVE  /\ Nothing /\ t.at = "save"
         /\ \/ /\ Enabled = {}
               /\ \E u : /\ Do(t, {u}) /\ u.q = t.q /\ u.at = "write" /\ u.for = t.for /\ u.held = t.held
                         /\ u.todo = t.todo /\ u.text = t.text
            \/ /\ Enabled # {} /\ t.for \in {"enable", "create"}
               /\ \E T : Do(t, T) /\ (t.todo = {} => T = {}) /\ \A u \in T : Started1(u, t, "school")
            \/ Enabled # {} /\ t.for = "oxid" /\ \E u : Do(t, {u}) /\ Fails(u, t)
            \/ Enabled # {} /\ t.for \in {"change", "disabled", "confirm"} /\ Do(t, {})
<1>1. t \in Handlers /\ Shaped(t)
  BY TaskTyped
<1>2. Nothing /\ t.at = "save" /\ Do(t, IF Enabled = {} THEN {Goes(t, "write")} ELSE AfterRefused(t))
  BY DEF CheckSave, Nothing, At
<1>3. CASE Enabled = {}
  <2>1. PICK u : u = Goes(t, "write")
    OBVIOUS
  <2>2. /\ u.q = t.q /\ u.at = "write" /\ u.for = t.for /\ u.held = t.held
        /\ u.todo = t.todo /\ u.text = t.text
    BY <1>1, <2>1 DEF Goes, Handlers
  <2> QED
    BY <1>2, <1>3, <2>1, <2>2
<1>4. CASE Enabled # {} /\ t.for \in {"enable", "create"}
  <2>1. Do(t, Loop(t))
    BY <1>2, <1>4 DEF AfterRefused
  <2>2. (t.todo = {} => Loop(t) = {}) /\ \A u \in Loop(t) : Started1(u, t, "school")
    BY <1>1, LoopIs
  <2> QED
    BY <1>2, <1>4, <2>1, <2>2
<1>5. CASE Enabled # {} /\ t.for = "oxid"
  <2>1. Do(t, Failed(t))
    BY <1>2, <1>5 DEF AfterRefused, Failed
  <2>2. HoldsOne(t)
    BY <1>1, <1>2 DEF Shaped
  <2> QED
    BY <1>2, <1>5, <2>1, <2>2, FailedIs
<1>6. CASE Enabled # {} /\ t.for \in {"change", "disabled", "confirm"}
  BY <1>2, <1>6 DEF AfterRefused
<1> QED
  BY <1>1, <1>2, <1>3, <1>4, <1>5, <1>6 DEF Shaped

(* and go on when the row is written. *)
Continues(u, t) ==
  /\ u.q = t.q
  /\ \/ t.for \in {"enable", "create", "failed"} /\ Started1(u, t, "school") /\ t.todo # {}
     \/ t.for \in {"enable", "create"} /\ Started1(u, t, "create") /\ u.todo = {}
     \/ t.for \in {"change", "disabled"} /\ Started1(u, t, "change") /\ u.todo = {}
     \/ t.for = "rename" /\ Started1(u, t, "generate") /\ u.for = "change" /\ u.todo = {}
     \/ t.for = "oxid" /\ u.at = "join" /\ u.held = t.held /\ u.todo = t.todo /\ u.text = t.text

(* Each save has its own handlers. *)
LEMMA AfterSavedIs ==
  ASSUME Typed, NEW t \in tasks, t.at = "write"
  PROVE  /\ \A u \in AfterSaved(t) : Continues(u, t)
         /\ t.for \in {"confirm", "disable"} => AfterSaved(t) = {}
         /\ t.for = "failed" /\ t.todo = {} => AfterSaved(t) = {}
         /\ t.for \in {"enable", "create"} => \E u \in AfterSaved(t) : u.at = "create"
         /\ t.for = "oxid" => AfterSaved(t) # {}
         /\ t.todo = {} => \A u, v \in AfterSaved(t) : u = v
<1>1. t \in Handlers /\ Shaped(t)
  BY TaskTyped
<1>2. "create" \in Places /\ "change" \in Places /\ "generate" \in Places
  BY DEF Places
<1>3. /\ \A u \in Loop(t) : Started1(u, t, "school") /\ t.todo # {}
      /\ t.todo = {} => Loop(t) = {}
      /\ \A u, v \in Loop(t) : u = v
  BY <1>1, LoopIs
<1>4. CASE t.for \in {"enable", "create"}
  <2>1. PICK s : s = Task(t.q, "create")
    OBVIOUS
  <2>2. s \in Handlers /\ s.q = t.q /\ s.at = "create" /\ s.held = <<>> /\ s.todo = {}
    BY <1>2, <2>1, Fresh
  <2>3. PICK u : u = [s EXCEPT !.school = t.school]
    OBVIOUS
  <2>4. u.q = t.q /\ u.at = "create" /\ u.held = <<>> /\ u.todo = {}
    BY <2>2, <2>3 DEF Handlers
  <2>5. AfterSaved(t) = Loop(t) \union {u}
    BY <1>4, <2>1, <2>3 DEF AfterSaved, Generated
  <2>6. Continues(u, t)
    BY <1>4, <2>4 DEF Continues, Started1
  <2>7. \A v \in Loop(t) : Continues(v, t)
    BY <1>3, <1>4 DEF Continues, Started1
  <2> QED
    BY <1>3, <1>4, <2>4, <2>5, <2>6, <2>7
<1>5. CASE t.for = "failed"
  <2>1. AfterSaved(t) = Loop(t)
    BY <1>5 DEF AfterSaved
  <2>2. \A v \in Loop(t) : Continues(v, t)
    BY <1>3, <1>5 DEF Continues, Started1
  <2> QED
    BY <1>3, <1>5, <2>1, <2>2
<1>6. ASSUME t.for \in {"change", "disabled"}, NEW for, AfterSaved(t) = {Saves(Task(t.q, "change"), "change", for)}
      PROVE  /\ \A u \in AfterSaved(t) : Continues(u, t)
             /\ \A u, v \in AfterSaved(t) : u = v
  <2>1. PICK s : s = Task(t.q, "change")
    OBVIOUS
  <2>2. s \in Handlers /\ s.q = t.q /\ s.at = "change" /\ s.held = <<>> /\ s.todo = {}
    BY <1>2, <2>1, Fresh
  <2>3. PICK u : u = Saves(s, "change", for)
    OBVIOUS
  <2>4. u.q = t.q /\ u.at = "change" /\ u.held = <<>> /\ u.todo = {}
    BY <2>2, <2>3 DEF Saves, Handlers
  <2>5. Continues(u, t)
    BY <1>6, <2>4 DEF Continues, Started1
  <2> QED
    BY <1>6, <2>1, <2>3, <2>5
<1>7. CASE t.for = "change"
  BY <1>6, <1>7 DEF AfterSaved
<1>8. CASE t.for = "disabled"
  BY <1>6, <1>8 DEF AfterSaved
<1>9. CASE t.for = "rename"
  <2>1. PICK s : s = Task(t.q, "generate")
    OBVIOUS
  <2>2. s \in Handlers /\ s.q = t.q /\ s.held = <<>> /\ s.todo = {}
    BY <1>2, <2>1, Fresh
  <2>3. PICK u : u = [Saves(s, "generate", "change") EXCEPT !.school = t.school]
    OBVIOUS
  <2>4. u.q = t.q /\ u.at = "generate" /\ u.for = "change" /\ u.held = <<>> /\ u.todo = {}
    BY <2>2, <2>3 DEF Saves, Handlers
  <2>5. Continues(u, t)
    BY <1>9, <2>4 DEF Continues, Started1
  <2>6. AfterSaved(t) = {u}
    BY <1>9, <2>1, <2>3 DEF AfterSaved
  <2> QED
    BY <1>9, <2>5, <2>6
<1>10. CASE t.for = "oxid"
  <2>1. PICK u : u = Goes(t, "join")
    OBVIOUS
  <2>2. u.q = t.q /\ u.at = "join" /\ u.held = t.held /\ u.todo = t.todo /\ u.text = t.text
    BY <1>1, <2>1 DEF Goes, Handlers
  <2>3. Continues(u, t)
    BY <1>10, <2>2 DEF Continues
  <2>4. AfterSaved(t) = {u}
    BY <1>10, <2>1 DEF AfterSaved
  <2> QED
    BY <1>10, <2>3, <2>4
<1>11. CASE t.for \in {"confirm", "disable"}
  BY <1>11 DEF AfterSaved
<1> QED
  BY <1>1, <1>4, <1>5, <1>7, <1>8, <1>9, <1>10, <1>11 DEF Shaped

(* The write itself. *)
LEMMA WriteGoes ==
  ASSUME Typed, NEW t \in tasks, Write(t)
  PROVE  /\ t.at = "write"
         /\ UNCHANGED <<person, schools, offers, oxUser, keycloak, username, trouble>>
         /\ \E a \in 0 .. MaxAddresses :
              /\ DOMAIN t.held = {a}
              /\ a # 0 => a \in Slots /\ t.held[a] \in EmailAddress
              /\ \/ /\ CanWrite(a, t.held[a]) /\ Do(t, AfterSaved(t))
                    /\ IF a = 0 THEN Create(t.q, t.held[a]) ELSE Update(a, t.held[a])
                 \/ ~CanWrite(a, t.held[a]) /\ Do(t, {}) /\ UNCHANGED <<row, order, loaded>>
<1>1. t \in Handlers /\ Shaped(t) /\ t.at = "write"
  BY TaskTyped DEF Write, At
<1>2. HoldsOne(t)
  BY <1>1 DEF Shaped
<1>3. PICK a : a = Held(t)
  OBVIOUS
<1>4. /\ a \in 0 .. MaxAddresses /\ DOMAIN t.held = {a}
      /\ a # 0 => t.held[a] \in EmailAddress
  BY <1>2, <1>3, HeldTyped
<1>5. a # 0 => a \in Slots
  BY <1>4, BoundsAssumption DEF Slots
<1>6. /\ UNCHANGED <<person, schools, offers, ox, keycloak, username, trouble>>
      /\ IF CanWrite(a, t.held[a])
         THEN /\ IF a = 0 THEN Create(t.q, t.held[a]) ELSE Update(a, t.held[a])
              /\ Do(t, AfterSaved(t))
         ELSE Do(t, {}) /\ UNCHANGED <<table, loaded>>
  BY <1>3 DEF Write
<1> QED
  BY <1>1, <1>4, <1>5, <1>6 DEF table, ox

(* Is there a right to an address? *)
LEMMA HandlePersonGoes ==
  ASSUME Typed, NEW t \in tasks, HandlePerson(t)
  PROVE  /\ Nothing /\ t.at = "person"
         /\ \E u : /\ Do(t, {u})
                   /\ \/ Started1(u, t, "without") /\ u.todo = {} /\ Entitled \subseteq t.school
                      \/ Started1(u, t, "school") /\ ~(Entitled \subseteq t.school)
<1> DEFINE S == IF offers /\ person.exists THEN schools \ t.school ELSE {}
<1>1. /\ Nothing /\ t.at = "person"
      /\ Do(t, {IF S = {} THEN Task(t.q, "without") ELSE [Task(t.q, "school") EXCEPT !.todo = S]})
  BY DEF HandlePerson, Nothing, At
<1>2. S = {} <=> Entitled \subseteq t.school
  BY DEF Entitled
<1> HIDE DEF S
<1>3. "without" \in Places /\ "school" \in Places
  BY DEF Places
<1>4. CASE S = {}
  <2>1. PICK s : s = Task(t.q, "without")
    OBVIOUS
  <2>2. Started1(s, t, "without") /\ s.todo = {}
    BY <1>3, <2>1, Fresh DEF Started1
  <2> QED
    BY <1>1, <1>2, <1>4, <2>1, <2>2
<1>5. CASE S # {}
  <2>1. PICK s : s = Task(t.q, "school")
    OBVIOUS
  <2>2. s \in Handlers /\ s.q = t.q /\ s.at = "school" /\ s.held = <<>>
    BY <1>3, <2>1, Fresh
  <2>3. PICK u : u = [s EXCEPT !.todo = S]
    OBVIOUS
  <2>4. Started1(u, t, "school")
    BY <2>2, <2>3 DEF Started1, Handlers
  <2> QED
    BY <1>1, <1>2, <1>5, <2>1, <2>3, <2>4
<1> QED
  BY <1>4, <1>5

(* A row that is held, with what is to be written to it. *)
LEMMA HoldsOf ==
  ASSUME Typed, NEW t \in tasks, NEW a \in 0 .. MaxAddresses, NEW m \in Mails, NEW at \in Places, NEW for \in Purposes
  PROVE  /\ LET u == Holding(Saves(t, at, for), a, m) IN
            /\ u \in Handlers /\ u.q = t.q /\ u.at = at /\ u.for = for /\ u.todo = t.todo /\ u.text = t.text
            /\ DOMAIN u.held = {a} /\ u.held[a] = m
         /\ LET u == Holding(Goes(t, at), a, m) IN
            /\ u \in Handlers /\ u.q = t.q /\ u.at = at /\ u.for = t.for /\ u.todo = t.todo /\ u.text = t.text
            /\ DOMAIN u.held = {a} /\ u.held[a] = m
<1>1. t \in Handlers
  BY TaskTyped
<1>2. PICK s : s = Saves(t, at, for)
  OBVIOUS
<1>3. /\ s \in Handlers /\ s.q = t.q /\ s.at = at /\ s.for = for /\ s.todo = t.todo /\ s.text = t.text
  BY <1>1, <1>2 DEF Saves, Handlers
<1>4. PICK u : u = Holding(s, a, m)
  OBVIOUS
<1>5. u \in Handlers /\ u = [s EXCEPT !.held = u.held] /\ DOMAIN u.held = {a} /\ u.held[a] = m
  BY <1>3, <1>4, HoldingShaped
<1>6. u.q = t.q /\ u.at = at /\ u.for = for /\ u.todo = t.todo /\ u.text = t.text
  BY <1>3, <1>5 DEF Handlers
<1>7. PICK g : g = Goes(t, at)
  OBVIOUS
<1>8. g \in Handlers /\ g.q = t.q /\ g.at = at /\ g.for = t.for /\ g.todo = t.todo /\ g.text = t.text
  BY <1>1, <1>7 DEF Goes, Handlers
<1>9. PICK v : v = Holding(g, a, m)
  OBVIOUS
<1>10. v \in Handlers /\ v = [g EXCEPT !.held = v.held] /\ DOMAIN v.held = {a} /\ v.held[a] = m
  BY <1>8, <1>9, HoldingShaped
<1>11. v.q = t.q /\ v.at = at /\ v.for = t.for /\ v.todo = t.todo /\ v.text = t.text
  BY <1>8, <1>10 DEF Handlers
<1> QED
  BY <1>2, <1>4, <1>5, <1>6, <1>7, <1>9, <1>10, <1>11

(* What is known of a row by its number. *)
LEMMA RowsAreMails ==
  ASSUME Typed, NEW a \in Slots, row[a] # NoRow, NEW status \in EmailAddressStatus
  PROVE  a \in 0 .. MaxAddresses /\ row[a] \in Mails /\ [row[a] EXCEPT !.status = status] \in Mails
<1>1. row[a] \in EmailAddress
  BY Rows
<1> QED
  BY <1>1, BoundsAssumption DEF EmailAddress, Mails, Slots, Texts

(* The next school: the address is enabled, to be enabled, or to be made up. *)
LEMMA CreateOrEnableGoes ==
  ASSUME Typed, NEW t \in tasks, CreateOrEnable(t)
  PROVE  /\ Nothing /\ t.at = "school"
         /\ \E T : /\ Do(t, T)
                   /\ \A u \in T :
                        \/ Started1(u, t, "alreadyExists") \/ Started1(u, t, "school")
                        \/ Started1(u, t, "generate") /\ u.for = "create" /\ Newest({"ENABLED", "DISABLED"}) = 0
                        \/ /\ u.q = t.q /\ u.at = "save" /\ u.for = "enable"
                           /\ LET a == Newest({"ENABLED", "DISABLED"}) IN
                              /\ a # 0 /\ row[a].status = "DISABLED"
                              /\ DOMAIN u.held = {a} /\ u.held[a] = [row[a] EXCEPT !.status = "ENABLED"]
<1>1. PICK s \in t.todo :
        LET a    == Newest({"ENABLED", "DISABLED"})
            next == [t EXCEPT !.school = {s}, !.todo = @ \ {s}]
            goes == CASE a = 0 -> {Saves(next, "generate", "create")}
                      [] a # 0 /\ row[a].status = "ENABLED" -> Loop(next)
                      [] a # 0 /\ row[a].status = "DISABLED" ->
                           {Holding(Saves(next, "save", "enable"), a,
                                    [row[a] EXCEPT !.status = "ENABLED"])}
        IN Do(t, goes \union
              (IF Addresses = <<>> THEN {}
               ELSE {[Task(t.q, "alreadyExists") EXCEPT !.school = {s}]}))
  BY DEF CreateOrEnable
<1>2. /\ t \in Handlers /\ t.q \in Sessions /\ t.todo \in SUBSET Schools /\ s \in Schools
      /\ t.held = <<>> /\ t.at = "school" /\ Nothing
  BY TaskTyped DEF CreateOrEnable, At, Shaped, Nothing
<1> DEFINE a == Newest({"ENABLED", "DISABLED"})
<1>3. a \in Slots \union {0} /\ (a # 0 => row[a] \in EmailAddress /\ row[a].status \in {"ENABLED", "DISABLED"})
  BY NewestTyped DEF EmailAddressStatus
<1>4. PICK next : next = [t EXCEPT !.school = {s}, !.todo = @ \ {s}]
  OBVIOUS
<1>5. next \in Handlers /\ next.held = <<>> /\ next.q = t.q
  BY <1>2, <1>4 DEF Handlers
<1> DEFINE goes == CASE a = 0 -> {Saves(next, "generate", "create")}
                     [] a # 0 /\ row[a].status = "ENABLED" -> Loop(next)
                     [] a # 0 /\ row[a].status = "DISABLED" ->
                          {Holding(Saves(next, "save", "enable"), a,
                                   [row[a] EXCEPT !.status = "ENABLED"])}
           called == IF Addresses = <<>> THEN {} ELSE {[Task(t.q, "alreadyExists") EXCEPT !.school = {s}]}
<1>6. Do(t, goes \union called)
  BY <1>1, <1>4
<1>7. \A u \in called : Started1(u, t, "alreadyExists")
  <2>1. "alreadyExists" \in Places
    BY DEF Places
  <2>2. PICK v : v = Task(t.q, "alreadyExists")
    OBVIOUS
  <2>3. v \in Handlers /\ v.q = t.q /\ v.at = "alreadyExists" /\ v.held = <<>>
    BY <2>1, <2>2, Fresh
  <2>4. PICK u : u = [v EXCEPT !.school = {s}]
    OBVIOUS
  <2>5. Started1(u, t, "alreadyExists")
    BY <2>3, <2>4 DEF Started1, Handlers
  <2> QED
    BY <2>2, <2>4, <2>5
<1> HIDE DEF a
<1> DEFINE Fine(u) ==
      \/ Started1(u, t, "alreadyExists") \/ Started1(u, t, "school")
      \/ Started1(u, t, "generate") /\ u.for = "create" /\ a = 0
      \/ /\ u.q = t.q /\ u.at = "save" /\ u.for = "enable"
         /\ a # 0 /\ row[a].status = "DISABLED"
         /\ DOMAIN u.held = {a} /\ u.held[a] = [row[a] EXCEPT !.status = "ENABLED"]
<1>8. \A u \in goes : Fine(u)
  <2>1. CASE a = 0
    <3>1. PICK u : u = Saves(next, "generate", "create")
      OBVIOUS
    <3>2. u.q = t.q /\ u.held = <<>> /\ u.at = "generate" /\ u.for = "create"
      BY <1>5, <3>1 DEF Saves, Handlers, Places, Purposes
    <3>3. Fine(u)
      BY <2>1, <3>2 DEF Started1
    <3>4. goes = {u}
      BY <2>1, <3>1
    <3> HIDE DEF goes, Fine
    <3> QED
      BY <3>3, <3>4
  <2>2. CASE a # 0 /\ row[a].status = "ENABLED"
    <3>1. goes = Loop(next)
      BY <2>2
    <3>2. \A u \in Loop(next) : Started1(u, t, "school")
      BY <1>5, LoopIs
    <3> QED
      BY <3>1, <3>2
  <2>3. CASE a # 0 /\ row[a].status = "DISABLED"
    <3>1. PICK m : m = [row[a] EXCEPT !.status = "ENABLED"]
      OBVIOUS
    <3>2. a \in Slots /\ m \in Mails /\ a \in 0 .. MaxAddresses
      BY <1>3, <2>3, <3>1, BoundsAssumption DEF EmailAddress, EmailAddressStatus, Mails, Texts, Slots
    <3>3. PICK v : v = Saves(next, "save", "enable")
      OBVIOUS
    <3>4. v \in Handlers /\ v.q = t.q /\ v.at = "save" /\ v.for = "enable"
      BY <1>5, <3>3 DEF Saves, Handlers, Places, Purposes
    <3>5. PICK u : u = Holding(v, a, m)
      OBVIOUS
    <3>7. u \in Handlers /\ u = [v EXCEPT !.held = u.held] /\ DOMAIN u.held = {a} /\ u.held[a] = m
      BY <3>2, <3>4, <3>5, HoldingShaped
    <3>8. u.at = "save" /\ u.for = "enable" /\ u.q = t.q
      BY <3>4, <3>7 DEF Handlers
    <3>9. Fine(u)
      BY <2>3, <3>1, <3>7, <3>8
    <3>10. goes = {u}
      BY <2>3, <3>1, <3>3, <3>5
    <3> HIDE DEF goes, Fine
    <3> QED
      BY <3>9, <3>10
  <2> QED
    BY <1>3, <2>1, <2>2, <2>3
<1>9. \A u \in called : Fine(u)
  BY <1>7
<1> HIDE DEF goes, called
<1>10. \A u \in goes \union called : Fine(u)
  BY <1>8, <1>9
<1> QED
  BY <1>2, <1>6, <1>10 DEF a

(* An address is made up, or not. *)
LEMMA GenerateGoes ==
  ASSUME Typed, NEW t \in tasks, Generate(t)
  PROVE  /\ Still /\ UNCHANGED oxUser /\ t.at = "generate" /\ t.for \in {"create", "change", "disabled"}
         /\ \E u : /\ Do(t, {u}) /\ u.q = t.q /\ u.todo = t.todo /\ DOMAIN u.held = {0}
                   /\ \/ /\ u.at = "save" /\ u.for = t.for
                         /\ u.held[0].status = "REQUESTED" /\ u.held[0].ox = 0
                         /\ u.held[0].text # 0 /\ u.held[0].text \notin UsedTexts
                         /\ UNCHANGED trouble
                      \/ /\ u.at = "write" /\ u.for = "failed"
                         /\ u.held[0].status = "FAILED" /\ u.held[0].ox = 0 /\ u.held[0].text # 0
                         /\ Fault
<1>1. Shaped(t) /\ t \in Handlers /\ t.at = "generate"
  BY TaskTyped DEF Generate, At
<1>2. t.for \in {"create", "change", "disabled"}
  BY <1>1 DEF Shaped
<1>3. 0 \in 0 .. MaxAddresses /\ "save" \in Places /\ "write" \in Places /\ "none" \in Purposes /\ "failed" \in Purposes
  BY BoundsAssumption DEF Places, Purposes
<1>4. order \in Seq(Slots) /\ Len(order) \in Nat
  BY TypedParts DEF TableTyped
<1>5. Still /\ UNCHANGED oxUser
  BY DEF Generate, copy, Still, table, ox
<1>6. CASE /\ Slots \ UsedTexts # {}
           /\ LET n == CHOOSE n \in Slots \ UsedTexts : \A m \in Slots \ UsedTexts : n <= m
              IN Do(t, {Holding(Goes(t, "save"), 0, [status |-> "REQUESTED", ox |-> 0, text |-> n])})
           /\ UNCHANGED trouble
  <2> DEFINE n == CHOOSE n \in Slots \ UsedTexts : \A m \in Slots \ UsedTexts : n <= m
  <2>1. Slots \ UsedTexts \in SUBSET Nat
    BY DEF Slots
  <2>2. n \in Slots \ UsedTexts
    BY <1>6, <2>1, Least
  <2>3. Do(t, {Holding(Goes(t, "save"), 0, [status |-> "REQUESTED", ox |-> 0, text |-> n])})
    BY <1>6
  <2> HIDE DEF n
  <2>4. PICK m : m = [status |-> "REQUESTED", ox |-> 0, text |-> n]
    OBVIOUS
  <2>5. m \in Mails /\ m.text # 0
    BY <2>2, <2>4, BoundsAssumption DEF Mails, Slots, Texts, EmailAddressStatus
  <2>6. PICK u : u = Holding(Goes(t, "save"), 0, m)
    OBVIOUS
  <2>7. u.q = t.q /\ u.at = "save" /\ u.for = t.for /\ u.todo = t.todo /\ DOMAIN u.held = {0} /\ u.held[0] = m
    BY <1>3, <2>5, <2>6, HoldsOf
  <2>8. Do(t, {u})
    BY <2>3, <2>4, <2>6
  <2>9. /\ u.held[0].status = "REQUESTED" /\ u.held[0].ox = 0
        /\ u.held[0].text # 0 /\ u.held[0].text \notin UsedTexts
    BY <2>2, <2>4, <2>5, <2>7
  <2> QED
    BY <1>1, <1>2, <1>5, <1>6, <2>7, <2>8, <2>9
<1>7. CASE /\ Fault
           /\ Do(t, {Holding(Saves(t, "write", "failed"), 0, [status |-> "FAILED", ox |-> 0,
                                                        text |-> MaxAddresses + Len(order) + 1])})
  <2>1. PICK m : m = [status |-> "FAILED", ox |-> 0, text |-> MaxAddresses + Len(order) + 1]
    OBVIOUS
  <2>2. m \in Mails /\ m.text # 0
    BY <1>4, <2>1, BoundsAssumption DEF Mails, Texts, EmailAddressStatus
  <2>3. PICK u : u = Holding(Saves(t, "write", "failed"), 0, m)
    OBVIOUS
  <2>4. u.q = t.q /\ u.at = "write" /\ u.for = "failed" /\ u.todo = t.todo /\ DOMAIN u.held = {0} /\ u.held[0] = m
    BY <1>3, <2>2, <2>3, HoldsOf
  <2>5. Do(t, {u})
    BY <1>7, <2>1, <2>3
  <2>6. u.held[0].status = "FAILED" /\ u.held[0].ox = 0 /\ u.held[0].text # 0
    BY <2>1, <2>2, <2>4
  <2> QED
    BY <1>1, <1>2, <1>5, <1>7, <2>4, <2>5, <2>6
<1> QED
  BY <1>6, <1>7 DEF Generate

(* All addresses are to be disabled, *)
LEMMA DisableReadGoes ==
  ASSUME Typed, NEW t \in tasks, DisableRead(t)
  PROVE  /\ Nothing /\ t.at = "without"
         /\ \/ /\ Do(t, {})
               /\ person.exists => \A a \in Slots : row[a].status \in {"DISABLED", "none"}
            \/ \E u : /\ Do(t, {u}) /\ u.q = t.q /\ u.at = "disable" /\ u.todo = t.todo
                      /\ person.exists => \A a \in Slots : row[a].status \notin {"DISABLED", "none"} => a \in DOMAIN u.held
                      /\ \A a \in DOMAIN u.held :
                           /\ a \in Slots /\ row[a] # NoRow
                           /\ u.held[a].status = "DISABLED" /\ u.held[a].text = row[a].text
<1> DEFINE A == {a \in Slots : person.exists /\ row[a].status \in EmailAddressStatus \ {"DISABLED"}}
           h == [a \in A |-> [row[a] EXCEPT !.status = "DISABLED"]]
<1>1. /\ Do(t, IF A = {} THEN {} ELSE {[Goes(t, "disable") EXCEPT !.held = h]})
      /\ Nothing /\ t.at = "without"
  BY DEF DisableRead, Nothing, At
<1>2. t \in Handlers
  BY TaskTyped
<1>3. person.exists => \A a \in Slots : row[a].status \notin {"DISABLED", "none"} => a \in A
  BY Rows
<1>4. CASE A = {}
  BY <1>1, <1>3, <1>4
<1>5. CASE A # {}
  <2>1. \A a \in A : a \in Slots /\ row[a] # NoRow /\ row[a] \in EmailAddress
    BY Rows
  <2>d. Do(t, {[Goes(t, "disable") EXCEPT !.held = h]})
    BY <1>1, <1>5
  <2> HIDE DEF A
  <2>2. DOMAIN h = A /\ \A a \in A : h[a].status = "DISABLED" /\ h[a].text = row[a].text
    BY <2>1 DEF EmailAddress
  <2> HIDE DEF h
  <2>3. PICK u : u = [Goes(t, "disable") EXCEPT !.held = h]
    OBVIOUS
  <2>4. u.q = t.q /\ u.at = "disable" /\ u.todo = t.todo /\ u.held = h
    BY <1>2, <2>3 DEF Goes, Handlers
  <2>5. Do(t, {u})
    BY <2>d, <2>3
  <2>6. DOMAIN u.held = A
    BY <2>2, <2>4
  <2>7. \A a \in DOMAIN u.held : /\ a \in Slots /\ row[a] # NoRow
                               /\ u.held[a].status = "DISABLED" /\ u.held[a].text = row[a].text
    BY <2>1, <2>2, <2>4, <2>6
  <2>8. person.exists => \A a \in Slots : row[a].status \notin {"DISABLED", "none"} => a \in DOMAIN u.held
    BY <1>3, <2>6
  <2> QED
    BY <1>1, <2>4, <2>5, <2>7, <2>8
<1> QED
  BY <1>4, <1>5

(* one after the other, *)
LEMMA DisableOneGoes ==
  ASSUME Typed, NEW t \in tasks, DisableOne(t)
  PROVE  /\ t.at = "disable" /\ UNCHANGED <<person, schools, offers, oxUser, keycloak, username>>
         /\ \E a \in DOMAIN t.held : \E u :
              /\ a \in Slots /\ t.held[a] \in EmailAddress
              /\ Do(t, {u}) /\ u.q = t.q /\ u.at = "disable" /\ u.todo = t.todo
              /\ DOMAIN u.held = DOMAIN t.held \ {a} /\ \A b \in DOMAIN u.held : u.held[b] = t.held[b]
              /\ \/ CanWrite(a, t.held[a]) /\ Update(a, t.held[a]) /\ UNCHANGED trouble
                 \/ CanWrite(a, t.held[a]) /\ Fault /\ UNCHANGED <<row, order, loaded>>
                 \/ ~CanWrite(a, t.held[a]) /\ UNCHANGED trouble /\ UNCHANGED <<row, order, loaded>>
<1>1. Shaped(t) /\ t \in Handlers /\ t.at = "disable"
  BY TaskTyped DEF DisableOne, At
<1>2. PICK a \in DOMAIN t.held :
        LET rest == [t EXCEPT !.held = [b \in DOMAIN t.held \ {a} |-> t.held[b]]] IN
        \/ /\ CanWrite(a, t.held[a])
           /\ Update(a, t.held[a])
           /\ Do(t, {[rest EXCEPT !.any = TRUE]})
           /\ UNCHANGED trouble
        \/ /\ IF CanWrite(a, t.held[a]) THEN Fault ELSE UNCHANGED trouble
           /\ Do(t, {rest})
           /\ UNCHANGED <<table, loaded>>
  BY DEF DisableOne
<1>3. PICK A \in SUBSET (0 .. MaxAddresses) : t.held \in [A -> Mails]
  BY <1>1 DEF Handlers, Helds
<1>4. A = DOMAIN t.held /\ 0 \notin A /\ \A b \in A : t.held[b].text \in Texts
  BY <1>1, <1>3 DEF Shaped
<1>5. a \in Slots
  BY <1>3, <1>4, BoundsAssumption DEF Slots
<1>6. t.held[a] \in EmailAddress
  BY <1>3, <1>4 DEF Mails, EmailAddress
<1>7. PICK h : h = [b \in DOMAIN t.held \ {a} |-> t.held[b]]
  OBVIOUS
<1>8. DOMAIN h = DOMAIN t.held \ {a} /\ \A b \in DOMAIN h : h[b] = t.held[b]
  BY <1>7
<1>9. PICK rest : rest = [t EXCEPT !.held = h]
  OBVIOUS
<1>10. rest.q = t.q /\ rest.at = "disable" /\ rest.todo = t.todo /\ rest.held = h
  BY <1>1, <1>9 DEF Handlers
<1>11. PICK saved : saved = [rest EXCEPT !.any = TRUE]
  OBVIOUS
<1>12. saved.q = t.q /\ saved.at = "disable" /\ saved.todo = t.todo /\ saved.held = h
  BY <1>1, <1>9, <1>10, <1>11 DEF Handlers
<1>13. UNCHANGED <<person, schools, offers, oxUser, keycloak, username>>
  BY DEF DisableOne, ox
<1>14. CASE CanWrite(a, t.held[a]) /\ Update(a, t.held[a]) /\ Do(t, {saved}) /\ UNCHANGED trouble
  BY <1>1, <1>5, <1>6, <1>8, <1>12, <1>13, <1>14
<1>15. CASE /\ IF CanWrite(a, t.held[a]) THEN Fault ELSE UNCHANGED trouble
            /\ Do(t, {rest}) /\ UNCHANGED <<table, loaded>>
  BY <1>1, <1>5, <1>6, <1>8, <1>10, <1>13, <1>15 DEF table
<1> QED
  BY <1>2, <1>7, <1>9, <1>11, <1>14, <1>15

(* and OX and Keycloak are told. *)
LEMMA DisableDoneGoes ==
  ASSUME Typed, NEW t \in tasks, DisableDone(t)
  PROVE  /\ Nothing /\ t.at = "disable" /\ t.held = <<>>
         /\ \E T : Do(t, T) /\ \A u \in T :
              /\ Started1(u, t, "disabledInOx") \/ Started1(u, t, "disabledInKeycloak")
              /\ u.for = "none"
<1> DEFINE T == IF t.any THEN {Task(t.q, "disabledInOx"), Task(t.q, "disabledInKeycloak")} ELSE {}
<1>1. Do(t, T) /\ Nothing /\ t.at = "disable" /\ t.held = <<>>
  BY DEF DisableDone, Nothing, At
<1>2. "disabledInOx" \in Places /\ "disabledInKeycloak" \in Places
  BY DEF Places
<1>3. PICK v : v = Task(t.q, "disabledInOx")
  OBVIOUS
<1>4. PICK w : w = Task(t.q, "disabledInKeycloak")
  OBVIOUS
<1>5. Started1(v, t, "disabledInOx") /\ v.for = "none"
  BY <1>2, <1>3, Fresh DEF Started1
<1>6. Started1(w, t, "disabledInKeycloak") /\ w.for = "none"
  BY <1>2, <1>4, Fresh DEF Started1
<1>7. \A u \in T : u = v \/ u = w
  BY <1>3, <1>4
<1> HIDE DEF T
<1> QED
  BY <1>1, <1>5, <1>6, <1>7

(* After a new name the address is disabled, or the first is made up, *)
LEMMA HandleRenamedGoes ==
  ASSUME Typed, NEW t \in tasks, HandleRenamed(t)
  PROVE  /\ Nothing /\ t.at = "renamed"
         /\ \E u : /\ Do(t, {u}) /\ u.todo = {}
                   /\ \/ Started1(u, t, "renamedWith") /\ Entitled # {}
                      \/ Started1(u, t, "renamedWithout") /\ Entitled = {}
<1>1. Nothing /\ t.at = "renamed"
  BY DEF HandleRenamed, Nothing, At
<1>2. "renamedWith" \in Places /\ "renamedWithout" \in Places
  BY DEF Places
<1>3. CASE offers /\ person.exists /\ schools # {}
  <2>1. PICK s \in schools : Do(t, {[Task(t.q, "renamedWith") EXCEPT !.school = {s}]})
    BY <1>3 DEF HandleRenamed
  <2>2. PICK v : v = Task(t.q, "renamedWith")
    OBVIOUS
  <2>3. v \in Handlers /\ v.q = t.q /\ v.at = "renamedWith" /\ v.held = <<>> /\ v.todo = {}
    BY <1>2, <2>2, Fresh
  <2>4. PICK u : u = [v EXCEPT !.school = {s}]
    OBVIOUS
  <2>5. Started1(u, t, "renamedWith") /\ u.todo = {}
    BY <2>3, <2>4 DEF Started1, Handlers
  <2>6. Do(t, {u}) /\ Entitled # {}
    BY <1>3, <2>1, <2>2, <2>4 DEF Entitled
  <2> QED
    BY <1>1, <2>5, <2>6
<1>4. CASE ~(offers /\ person.exists /\ schools # {})
  <2>1. PICK u : u = Task(t.q, "renamedWithout")
    OBVIOUS
  <2>2. Started1(u, t, "renamedWithout") /\ u.todo = {}
    BY <1>2, <2>1, Fresh DEF Started1
  <2>3. Do(t, {u}) /\ Entitled = {}
    BY <1>4, <2>1 DEF HandleRenamed, Entitled
  <2> QED
    BY <1>1, <2>2, <2>3
<1> QED
  BY <1>3, <1>4

(* if there is a right to one, *)
LEMMA RenamedWithGoes ==
  ASSUME Typed, NEW t \in tasks, RenamedWith(t)
  PROVE  /\ Nothing /\ t.at = "renamedWith"
         /\ \/ /\ Enabled = {}
               /\ \E u : Do(t, {u}) /\ Started1(u, t, "generate") /\ u.for = "create" /\ u.todo = t.todo
            \/ \E a \in Enabled : \E u :
                 /\ a \in Slots /\ row[a] # NoRow
                 /\ Do(t, {u}) /\ u.q = t.q /\ u.at = "write" /\ u.for = "rename" /\ u.todo = t.todo
                 /\ DOMAIN u.held = {a} /\ u.held[a] = [row[a] EXCEPT !.status = "DISABLED"]
<1>1. Nothing /\ t.at = "renamedWith" /\ t.held = <<>> /\ t \in Handlers
  BY TaskTyped DEF RenamedWith, Nothing, At, Shaped
<1>2. "write" \in Places /\ "rename" \in Purposes /\ "DISABLED" \in EmailAddressStatus
  BY DEF Places, Purposes, EmailAddressStatus
<1>3. CASE Enabled = {} /\ Do(t, {Saves(t, "generate", "create")})
  <2>1. PICK u : u = Saves(t, "generate", "create")
    OBVIOUS
  <2>2. Started1(u, t, "generate") /\ u.for = "create" /\ u.todo = t.todo
    BY <1>1, <2>1 DEF Started1, Saves, Handlers
  <2> QED
    BY <1>1, <1>3, <2>1, <2>2
<1>4. ASSUME NEW a \in Enabled,
             Do(t, {Holding(Saves(t, "write", "rename"), a, [row[a] EXCEPT !.status = "DISABLED"])})
      PROVE  \E u : /\ a \in Slots /\ row[a] # NoRow
                    /\ Do(t, {u}) /\ u.q = t.q /\ u.at = "write" /\ u.for = "rename" /\ u.todo = t.todo
                    /\ DOMAIN u.held = {a} /\ u.held[a] = [row[a] EXCEPT !.status = "DISABLED"]
  <2>1. a \in Slots /\ row[a] # NoRow
    BY DEF Enabled, NoRow
  <2>2. PICK m : m = [row[a] EXCEPT !.status = "DISABLED"]
    OBVIOUS
  <2>3. a \in 0 .. MaxAddresses /\ m \in Mails
    BY <1>2, <2>1, <2>2, RowsAreMails
  <2>4. PICK u : u = Holding(Saves(t, "write", "rename"), a, m)
    OBVIOUS
  <2>5. u.q = t.q /\ u.at = "write" /\ u.for = "rename" /\ u.todo = t.todo /\ DOMAIN u.held = {a} /\ u.held[a] = m
    BY <1>2, <2>3, <2>4, HoldsOf
  <2>6. Do(t, {u})
    BY <1>4, <2>2, <2>4
  <2> QED
    BY <2>1, <2>2, <2>5, <2>6
<1> QED
  BY <1>1, <1>3, <1>4 DEF RenamedWith

(* and a disabled one gets a successor, if not. *)
LEMMA RenamedWithoutGoes ==
  ASSUME Typed, NEW t \in tasks, RenamedWithout(t)
  PROVE  /\ Nothing /\ t.at = "renamedWithout"
         /\ \/ Do(t, {})
            \/ \E u : Do(t, {u}) /\ Started1(u, t, "generate") /\ u.for = "disabled" /\ u.todo = t.todo
<1>1. Nothing /\ t.at = "renamedWithout" /\ t.held = <<>> /\ t \in Handlers
  BY TaskTyped DEF RenamedWithout, Nothing, At, Shaped
<1>2. PICK u : u = Saves(t, "generate", "disabled")
  OBVIOUS
<1>3. Started1(u, t, "generate") /\ u.for = "disabled" /\ u.todo = t.todo
  BY <1>1, <1>2 DEF Started1, Saves, Handlers
<1>4. Do(t, {}) \/ Do(t, {u})
  BY <1>2 DEF RenamedWithout
<1> QED
  BY <1>1, <1>3, <1>4

(* What a row is, and what it has become by its number. *)
LEMMA NewestRequested ==
  ASSUME Typed, NEW a, a = Due, a # 0
  PROVE  /\ a \in Slots /\ a \in 0 .. MaxAddresses /\ row[a] \in EmailAddress /\ row[a] \in Mails /\ row[a] # NoRow
         /\ row[a].status = "REQUESTED"
<1>1. a \in Slots /\ row[a] \in EmailAddress /\ row[a].status = "REQUESTED"
  BY NewestTyped DEF EmailAddressStatus, Due
<1>2. row[a] # NoRow
  BY <1>1 DEF NoRow
<1>3. a \in 0 .. MaxAddresses
  BY <1>1, BoundsAssumption DEF Slots
<1>4. row[a] \in Mails
  BY <1>1 DEF EmailAddress, Mails, Texts
<1> QED
  BY <1>1, <1>2, <1>3, <1>4

(* The newest address REQUESTED is confirmed, with the address that OX has, *)
TakesUp(u, t, a) ==
  /\ u.q = t.q /\ u.at = "save" /\ u.for = "confirm" /\ u.todo = t.todo
  /\ DOMAIN u.held = {a} /\ u.held[a].status = "ENABLED" /\ u.held[a].text = t.text

(* When there is none, nothing changes; else a handler saves it so. *)
LEMMA ConfirmGoes ==
  ASSUME Typed, NEW t \in tasks, Confirm(t), NEW a, a = Due
  PROVE  /\ Nothing /\ t.at = "confirm"
         /\ (a = 0 /\ Do(t, {})) \/ (a # 0 /\ \E u : Do(t, {u}) /\ TakesUp(u, t, a))
<1>1. Nothing /\ t.at = "confirm" /\ t \in Handlers
  BY TaskTyped DEF Confirm, Nothing, At
<1>2. CASE a = 0
  BY <1>1, <1>2 DEF Confirm, Due
<1>3. CASE a # 0
  <2>1. a \in 0 .. MaxAddresses
    BY <1>3, NewestRequested
  <2>2. PICK m : m = [status |-> "ENABLED", ox |-> t.ox, text |-> t.text]
    OBVIOUS
  <2>3. m \in Mails /\ m.status = "ENABLED" /\ m.text = t.text
    BY <1>1, <2>2 DEF Handlers, Mails, EmailAddressStatus, Texts
  <2>4. "save" \in Places /\ "confirm" \in Purposes
    BY DEF Places, Purposes
  <2>5. PICK u : u = Holding(Saves(t, "save", "confirm"), a, m)
    OBVIOUS
  <2>6. u.q = t.q /\ u.at = "save" /\ u.for = "confirm" /\ u.todo = t.todo /\ DOMAIN u.held = {a} /\ u.held[a] = m
    BY <2>1, <2>3, <2>4, <2>5, HoldsOf
  <2>7. Do(t, {u})
    BY <1>3, <2>2, <2>5 DEF Confirm, Due
  <2> QED
    BY <1>1, <1>3, <2>3, <2>6, <2>7 DEF TakesUp
<1> QED
  BY <1>2, <1>3

(* or disabled. *)
SetsAside(u, t, a) ==
  /\ u.q = t.q /\ u.at = "write" /\ u.for = "disable" /\ u.todo = t.todo
  /\ DOMAIN u.held = {a} /\ u.held[a].status = "DISABLED" /\ u.held[a].text = row[a].text

(* There too nothing changes when there is none. *)
LEMMA ConfirmDisabledGoes ==
  ASSUME Typed, NEW t \in tasks, ConfirmDisabled(t), NEW a, a = Due
  PROVE  /\ Nothing /\ t.at = "confirmDisabled"
         /\ (a = 0 /\ Do(t, {})) \/ (a # 0 /\ \E u : Do(t, {u}) /\ SetsAside(u, t, a))
<1>1. Nothing /\ t.at = "confirmDisabled" /\ t \in Handlers
  BY TaskTyped DEF ConfirmDisabled, Nothing, At
<1>2. CASE a = 0
  BY <1>1, <1>2 DEF ConfirmDisabled, Due
<1>3. CASE a # 0
  <2>1. a \in 0 .. MaxAddresses /\ row[a] \in Mails
    BY <1>3, NewestRequested
  <2>2. PICK m : m = [row[a] EXCEPT !.status = "DISABLED", !.ox = t.ox]
    OBVIOUS
  <2>3. m \in Mails /\ m.status = "DISABLED" /\ m.text = row[a].text
    BY <1>1, <2>1, <2>2 DEF Handlers, Mails, EmailAddressStatus
  <2>4. "write" \in Places /\ "disable" \in Purposes
    BY DEF Places, Purposes
  <2>5. PICK u : u = Holding(Saves(t, "write", "disable"), a, m)
    OBVIOUS
  <2>6. u.q = t.q /\ u.at = "write" /\ u.for = "disable" /\ u.todo = t.todo /\ DOMAIN u.held = {a} /\ u.held[a] = m
    BY <2>1, <2>3, <2>4, <2>5, HoldsOf
  <2>7. Do(t, {u})
    BY <1>3, <2>2, <2>5 DEF ConfirmDisabled, Due
  <2> QED
    BY <1>1, <1>3, <2>3, <2>6, <2>7 DEF SetsAside
<1> QED
  BY <1>2, <1>3

(* The user of OX is made, *)
Reads(u, t, a) ==
  u.q = t.q /\ u.at = "exists" /\ u.todo = t.todo /\ DOMAIN u.held = {a} /\ u.held[a] = row[a]

(* after the newest address REQUESTED was read. *)
LEMMA CreateReadGoes ==
  ASSUME Typed, NEW t \in tasks, CreateRead(t), NEW a, a = Due
  PROVE  /\ Nothing /\ t.at = "create"
         /\ (a = 0 /\ Do(t, {})) \/ (a # 0 /\ \E u : Do(t, {u}) /\ Reads(u, t, a))
<1>1. Nothing /\ t.at = "create" /\ t \in Handlers
  BY TaskTyped DEF CreateRead, Nothing, At
<1>2. CASE a = 0
  BY <1>1, <1>2 DEF CreateRead, Due
<1>3. CASE a # 0
  <2>1. a \in 0 .. MaxAddresses /\ row[a] \in Mails
    BY <1>3, NewestRequested
  <2>2. PICK m : m = row[a]
    OBVIOUS
  <2>4. "exists" \in Places /\ "none" \in Purposes
    BY DEF Places, Purposes
  <2>5. PICK u : u = Holding(Goes(t, "exists"), a, m)
    OBVIOUS
  <2>6. u.q = t.q /\ u.at = "exists" /\ u.todo = t.todo /\ DOMAIN u.held = {a} /\ u.held[a] = m
    BY <2>1, <2>2, <2>4, <2>5, HoldsOf
  <2>7. Do(t, {u})
    BY <1>3, <2>2, <2>5 DEF CreateRead, Due
  <2>8. Reads(u, t, a)
    BY <2>2, <2>6 DEF Reads
  <2> QED
    BY <1>1, <1>3, <2>7, <2>8
<1> QED
  BY <1>2, <1>3

(* When OX has a user of that name already, the handler ends. *)
LEMMA CreateExistsGoes ==
  ASSUME Typed, NEW t \in tasks, CreateExists(t)
  PROVE  /\ Nothing /\ t.at = "exists"
         /\ \/ Used(username[t.q]) /\ Do(t, {})
            \/ /\ ~Used(username[t.q])
               /\ \E u : Do(t, {u}) /\ u.q = t.q /\ u.at = "oxCreate" /\ u.held = t.held /\ u.todo = t.todo
<1>1. Nothing /\ t.at = "exists" /\ t \in Handlers
  BY TaskTyped DEF CreateExists, Nothing, At
<1>2. PICK u : u = Goes(t, "oxCreate")
  OBVIOUS
<1>3. u.q = t.q /\ u.at = "oxCreate" /\ u.held = t.held /\ u.todo = t.todo
  BY <1>1, <1>2 DEF Goes, Handlers
<1>4. (Used(username[t.q]) /\ Do(t, {})) \/ (~Used(username[t.q]) /\ Do(t, {u}))
  BY <1>2 DEF CreateExists
<1> QED
  BY <1>1, <1>3, <1>4

(* or it cannot be, and the row says FAILED. *)
LEMMA CreateUserGoes ==
  ASSUME Typed, NEW t \in tasks, CreateUser(t)
  PROVE  /\ Still /\ t.at = "oxCreate"
         /\ \/ /\ ~Used(username[t.q]) /\ Used(username[t.q])' /\ UNCHANGED trouble
               /\ \E u : /\ Do(t, {u}) /\ u.q = t.q /\ u.at = "save" /\ u.for = "oxid" /\ u.todo = t.todo
                         /\ DOMAIN u.held = DOMAIN t.held
                         /\ \A a \in DOMAIN t.held : /\ u.held[a].status = t.held[a].status
                                                     /\ u.held[a].text = t.held[a].text /\ u.text = t.held[a].text
            \/ /\ UNCHANGED oxUser /\ ((Used(username[t.q]) /\ UNCHANGED trouble) \/ (~Used(username[t.q]) /\ Fault))
               /\ \E u : Do(t, {u}) /\ Fails(u, t)
<1>1. Still /\ t.at = "oxCreate" /\ t \in Handlers /\ Shaped(t)
  BY TaskTyped DEF CreateUser, At, Still, table, copy, ox
<1>2. HoldsOne(t)
  BY <1>1 DEF Shaped
<1> DEFINE Free == {u \in OxIds : oxUser[u] = NoUser}
           x == CHOOSE u \in Free : \A v \in Free : u <= v
<1>3. PICK a : a = Held(t)
  OBVIOUS
<1>4. a \in 0 .. MaxAddresses /\ DOMAIN t.held = {a} /\ t.held[a] \in Mails /\ a # 0 /\ t.held[a].text \in Texts
  BY <1>1, <1>2, <1>3, HeldIs DEF Shaped
<1>5. CASE /\ ~Used(username[t.q]) /\ Free # {}
           /\ oxUser' = [oxUser EXCEPT ![x] = [name |-> username[t.q], primary |-> t.held[a].text]]
           /\ Do(t, {[Holding(Saves(t, "save", "oxid"), a, [t.held[a] EXCEPT !.ox = x])
                        EXCEPT !.ox = x, !.text = t.held[a].text]})
           /\ UNCHANGED trouble
  <2>1. Free \in SUBSET Nat
    BY DEF OxIds
  <2>2. x \in Free
    BY <1>5, <2>1, Least
  <2>3. x \in OxIds
    BY <2>2
  <2> HIDE DEF x, Free
  <2>4. oxUser \in [OxIds -> [name : Names \union {0}, primary : Texts]]
    BY TypedParts DEF OthersTyped
  <2>5. oxUser'[x].name = username[t.q] /\ username' = username
    BY <1>1, <1>5, <2>3, <2>4 DEF Still
  <2>6. Used(username[t.q])'
    BY <2>3, <2>5 DEF Used
  <2>7. PICK m : m = [t.held[a] EXCEPT !.ox = x]
    OBVIOUS
  <2>8. m \in Mails /\ m.status = t.held[a].status /\ m.text = t.held[a].text
    BY <1>4, <2>3, <2>7 DEF Mails
  <2>9. "save" \in Places /\ "oxid" \in Purposes
    BY DEF Places, Purposes
  <2>10. PICK v : v = Holding(Saves(t, "save", "oxid"), a, m)
    OBVIOUS
  <2>11. /\ v \in Handlers /\ v.q = t.q /\ v.at = "save" /\ v.for = "oxid" /\ v.todo = t.todo
         /\ DOMAIN v.held = {a} /\ v.held[a] = m
    BY <1>4, <2>8, <2>9, <2>10, HoldsOf
  <2>12. PICK u : u = [v EXCEPT !.ox = x, !.text = t.held[a].text]
    OBVIOUS
  <2>13. /\ u.q = t.q /\ u.at = "save" /\ u.for = "oxid" /\ u.todo = t.todo /\ u.text = t.held[a].text
         /\ DOMAIN u.held = {a} /\ u.held[a] = m
    BY <2>11, <2>12 DEF Handlers
  <2>14. Do(t, {u})
    BY <1>5, <2>7, <2>10, <2>12
  <2> QED
    BY <1>1, <1>4, <1>5, <2>6, <2>8, <2>13, <2>14
<1>6. CASE /\ IF Used(username[t.q]) THEN UNCHANGED trouble ELSE Fault
           /\ Do(t, Failed(t))
           /\ UNCHANGED oxUser
  <2>1. PICK u : Failed(t) = {u} /\ Fails(u, t)
    BY <1>2, FailedIs
  <2> QED
    BY <1>1, <1>6, <2>1
<1> QED
  BY <1>3, <1>5, <1>6 DEF CreateUser

(* The user is known already. *)
LEMMA AlreadyExistsGoes ==
  ASSUME Typed, NEW t \in tasks, AlreadyExists(t)
  PROVE  /\ Nothing /\ t.at = "alreadyExists"
         /\ \/ Do(t, {})
            \/ /\ person.exists /\ OxUserId(t.q) # 0
               /\ \E u : Do(t, {u}) /\ Started1(u, t, "join") /\ u.todo = t.todo /\ u.text = EmailOf(loaded[t.q])
<1>1. Nothing /\ t.at = "alreadyExists" /\ t.held = <<>> /\ t \in Handlers
  BY TaskTyped DEF AlreadyExists, Nothing, At, Shaped
<1>2. PICK u : u = [Goes(t, "join") EXCEPT !.ox = OxUserId(t.q), !.text = EmailOf(loaded[t.q])]
  OBVIOUS
<1>3. Started1(u, t, "join") /\ u.todo = t.todo /\ u.text = EmailOf(loaded[t.q])
  BY <1>1, <1>2 DEF Started1, Goes, Handlers
<1>4. Do(t, {}) \/ (person.exists /\ OxUserId(t.q) # 0 /\ Do(t, {u}))
  BY <1>2 DEF AlreadyExists
<1> QED
  BY <1>1, <1>3, <1>4

(* It joins the group of the school. *)
LEMMA JoinGoes ==
  ASSUME Typed, NEW t \in tasks, Join(t)
  PROVE  /\ Still /\ UNCHANGED oxUser /\ t.at = "join"
         /\ \/ /\ UNCHANGED trouble
               /\ \E u : Do(t, {u}) /\ Started1(u, t, "keycloakSet") /\ u.todo = {} /\ u.text = t.text
            \/ (UNCHANGED trouble \/ Fault) /\ t.held = <<>> /\ Do(t, {})
            \/ (UNCHANGED trouble \/ Fault) /\ t.held # <<>> /\ \E u : Do(t, {u}) /\ Fails(u, t)
<1>1. Still /\ UNCHANGED oxUser /\ t.at = "join" /\ t \in Handlers /\ Shaped(t)
  BY TaskTyped DEF Join, At, Still, table, copy
<1>2. PICK s \in t.school :
       \/ /\ member' = [member EXCEPT ![s] = @ \union {t.ox}]
          /\ Do(t, {[Saves(Task(t.q, "keycloakSet"), "keycloakSet", "confirm")
                       EXCEPT !.ox = t.ox, !.text = t.text]})
          /\ UNCHANGED trouble
       \/ /\ IF t.ox \in member[s] THEN UNCHANGED trouble ELSE Fault
          /\ Do(t, IF t.held = <<>> THEN {} ELSE Failed(t))
          /\ UNCHANGED member
  BY DEF Join
<1>3. CASE /\ Do(t, {[Saves(Task(t.q, "keycloakSet"), "keycloakSet", "confirm")
                        EXCEPT !.ox = t.ox, !.text = t.text]})
           /\ UNCHANGED trouble
  <2>1. "keycloakSet" \in Places /\ "confirm" \in Purposes
    BY DEF Places, Purposes
  <2>2. PICK v : v = Task(t.q, "keycloakSet")
    OBVIOUS
  <2>3. v \in Handlers /\ v.q = t.q /\ v.held = <<>> /\ v.todo = {}
    BY <2>1, <2>2, Fresh
  <2>4. PICK u : u = [Saves(v, "keycloakSet", "confirm") EXCEPT !.ox = t.ox, !.text = t.text]
    OBVIOUS
  <2>5. Started1(u, t, "keycloakSet") /\ u.todo = {} /\ u.text = t.text
    BY <2>3, <2>4 DEF Started1, Saves, Handlers
  <2>6. Do(t, {u})
    BY <1>3, <2>2, <2>4
  <2> QED
    BY <1>1, <1>3, <2>5, <2>6
<1>4. CASE /\ IF t.ox \in member[s] THEN UNCHANGED trouble ELSE Fault
           /\ Do(t, IF t.held = <<>> THEN {} ELSE Failed(t))
  <2>1. CASE t.held = <<>>
    BY <1>1, <1>4, <2>1
  <2>2. CASE t.held # <<>>
    <3>1. HoldsOne(t)
      BY <1>1, <2>2 DEF Shaped
    <3>2. PICK u : Failed(t) = {u} /\ Fails(u, t)
      BY <3>1, FailedIs
    <3> QED
      BY <1>1, <1>4, <2>2, <3>2
  <2> QED
    BY <2>1, <2>2
<1> QED
  BY <1>2, <1>3, <1>4

(* It is to get the newest address as its primary one, *)
ReadsToo(u, t, a) ==
  /\ u.q = t.q /\ u.at = "oxChange" /\ u.todo = t.todo /\ u.text = row[a].text
  /\ DOMAIN u.held = {a} /\ u.held[a] = row[a]

(* if there is such an address, and OX has a user to change. *)
LEMMA ChangeReadGoes ==
  ASSUME Typed, NEW t \in tasks, ChangeRead(t), NEW a, a = Due
  PROVE  /\ Nothing /\ t.at = "change"
         /\ Do(t, {}) \/ (a # 0 /\ \E u : Do(t, {u}) /\ ReadsToo(u, t, a))
<1>1. Nothing /\ t.at = "change" /\ t \in Handlers
  BY TaskTyped DEF ChangeRead, Nothing, At
<1>2. CASE OxUserId(t.q) = 0 \/ a = 0
  BY <1>1, <1>2 DEF ChangeRead, Due
<1>3. CASE ~(OxUserId(t.q) = 0 \/ a = 0)
  <2>1. a \in 0 .. MaxAddresses /\ row[a] \in Mails
    BY <1>3, NewestRequested
  <2>4. "oxChange" \in Places /\ "none" \in Purposes
    BY DEF Places, Purposes
  <2>5. PICK v : v = Holding(Goes(t, "oxChange"), a, row[a])
    OBVIOUS
  <2>6. v \in Handlers /\ v.q = t.q /\ v.at = "oxChange" /\ v.todo = t.todo /\ DOMAIN v.held = {a} /\ v.held[a] = row[a]
    BY <2>1, <2>4, <2>5, HoldsOf
  <2>7. PICK u : u = [v EXCEPT !.ox = OxUserId(t.q), !.text = row[a].text]
    OBVIOUS
  <2>8. /\ u.q = t.q /\ u.at = "oxChange" /\ u.todo = t.todo /\ u.text = row[a].text
        /\ DOMAIN u.held = {a} /\ u.held[a] = row[a]
    BY <2>6, <2>7 DEF Handlers
  <2>9. Do(t, {u})
    BY <1>3, <2>5, <2>7 DEF ChangeRead, Due
  <2>10. ReadsToo(u, t, a)
    BY <2>8 DEF ReadsToo
  <2> QED
    BY <1>1, <1>3, <2>9, <2>10
<1> QED
  BY <1>2, <1>3

(* and gets it, or not. *)
LEMMA ChangeUserGoes ==
  ASSUME Typed, NEW t \in tasks, ChangeUser(t)
  PROVE  /\ Still /\ t.at = "oxChange"
         /\ \/ /\ UNCHANGED trouble /\ (UNCHANGED oxUser \/ Used(username[t.q])')
               /\ \E u : /\ Do(t, {u}) /\ u.todo = {} /\ u.text = t.text
                         /\ Started1(u, t, "keycloakSet") \/ Started1(u, t, "confirmDisabled")
            \/ /\ Fault /\ UNCHANGED oxUser
               /\ \E u : Do(t, {u}) /\ Fails(u, t)
<1>1. Still /\ t.at = "oxChange" /\ t \in Handlers /\ Shaped(t)
  BY TaskTyped DEF ChangeUser, At, Still, table, copy
<1> DEFINE step == IF t.for = "confirm" THEN "keycloakSet" ELSE "confirmDisabled"
<1>2. CASE /\ oxUser' = [oxUser EXCEPT ![t.ox] = [name |-> username[t.q], primary |-> t.text]]
           /\ Do(t, {[Saves(Task(t.q, step), step, t.for) EXCEPT !.ox = t.ox, !.text = t.text]})
           /\ UNCHANGED trouble
  <2>1. oxUser \in [OxIds -> [name : Names \union {0}, primary : Texts]] /\ username' = username
    BY <1>1, TypedParts DEF OthersTyped, Still
  <2>2. UNCHANGED oxUser \/ Used(username[t.q])'
    <3>1. CASE t.ox \in OxIds
      <4>1. oxUser'[t.ox].name = username[t.q]
        BY <1>2, <2>1, <3>1
      <4> QED
        BY <2>1, <3>1, <4>1 DEF Used
    <3>2. CASE t.ox \notin OxIds
      BY <1>2, <2>1, <3>2
    <3> QED
      BY <3>1, <3>2
  <2>3. step \in Places /\ step \in {"keycloakSet", "confirmDisabled"}
    BY DEF Places
  <2> HIDE DEF step
  <2>4. PICK v : v = Task(t.q, step)
    OBVIOUS
  <2>5. v \in Handlers /\ v.q = t.q /\ v.held = <<>> /\ v.todo = {}
    BY <2>3, <2>4, Fresh
  <2>6. PICK u : u = [Saves(v, step, t.for) EXCEPT !.ox = t.ox, !.text = t.text]
    OBVIOUS
  <2>7. Started1(u, t, step) /\ u.todo = {} /\ u.text = t.text
    BY <2>5, <2>6 DEF Started1, Saves, Handlers
  <2>8. Do(t, {u})
    BY <1>2, <2>4, <2>6
  <2> QED
    BY <1>1, <1>2, <2>2, <2>3, <2>7, <2>8
<1>3. CASE Fault /\ Do(t, Failed(t)) /\ UNCHANGED oxUser
  <2>1. HoldsOne(t)
    BY <1>1 DEF Shaped
  <2>2. PICK u : Failed(t) = {u} /\ Fails(u, t)
    BY <2>1, FailedIs
  <2> QED
    BY <1>1, <1>3, <2>2
<1> QED
  BY <1>2, <1>3 DEF ChangeUser

(* Keycloak is told, *)
LEMMA KeycloakSetGoes ==
  ASSUME Typed, NEW t \in tasks, KeycloakSet(t)
  PROVE  /\ Still /\ UNCHANGED oxUser /\ t.at = "keycloakSet"
         /\ \/ /\ UNCHANGED trouble
               /\ \E u : Do(t, {u}) /\ Started1(u, t, "confirm") /\ u.todo = {} /\ u.text = t.text
            \/ ((UNCHANGED trouble /\ ~Finds(t)) \/ Fault) /\ Do(t, {})
<1>1. UNCHANGED oxUser /\ t.at = "keycloakSet" /\ t \in Handlers
  BY TaskTyped DEF KeycloakSet, At, ox
<1>2. Still
  BY DEF KeycloakSet, Finds, Still, table, copy
<1>3. CASE Do(t, {[Task(t.q, "confirm") EXCEPT !.ox = t.ox, !.text = t.text]}) /\ UNCHANGED trouble
  <2>1. "confirm" \in Places
    BY DEF Places
  <2>2. PICK v : v = Task(t.q, "confirm")
    OBVIOUS
  <2>3. v \in Handlers /\ v.q = t.q /\ v.at = "confirm" /\ v.held = <<>> /\ v.todo = {}
    BY <2>1, <2>2, Fresh
  <2>4. PICK u : u = [v EXCEPT !.ox = t.ox, !.text = t.text]
    OBVIOUS
  <2>5. Started1(u, t, "confirm") /\ u.todo = {} /\ u.text = t.text
    BY <2>3, <2>4 DEF Started1, Handlers
  <2>6. Do(t, {u})
    BY <1>3, <2>2, <2>4
  <2> QED
    BY <1>1, <1>2, <1>3, <2>5, <2>6
<1>4. CASE ((UNCHANGED trouble /\ ~Finds(t)) \/ Fault) /\ Do(t, {})
  BY <1>1, <1>2, <1>4
<1> QED
  BY <1>3, <1>4 DEF KeycloakSet

(* What is of no account for the addresses: it only removes a user. *)
SideSteps == {"leaveRead", "disabledInOx", "list", "leave", "disabledInKeycloak"}
Aways(u, t) ==
  /\ u.q = t.q /\ u.for = t.for /\ u.held = <<>>
  /\ \/ t.at \in {"leaveRead", "list", "leave"} /\ u.at = "leave"
     \/ t.at = "disabledInOx" /\ u.at = "list"
     \/ t.at \in {"list", "leave"} /\ t.for = "deleted" /\ u.at = "retire"

(* These steps lead to one another, and change neither table nor users. *)
LEMMA SideStepGoes ==
  ASSUME Typed, NEW t \in tasks,
         LeaveRead(t) \/ DisabledInOx(t) \/ ListGroups(t) \/ Leave(t) \/ LeaveDone(t) \/ KeycloakUnset(t)
  PROVE  /\ Still /\ UNCHANGED oxUser /\ t.at \in SideSteps
         /\ \E T : Do(t, T) /\ \A u \in T : Aways(u, t)
<1>1. t \in Handlers /\ Shaped(t)
  BY TaskTyped
<1>2. t.at = "leaveRead" \/ t.at = "disabledInOx" \/ t.at = "list" \/ t.at = "leave" \/ t.at = "disabledInKeycloak"
  BY DEF LeaveRead, DisabledInOx, ListGroups, Leave, LeaveDone, KeycloakUnset, At
<1>3. t.held = <<>>
  BY <1>1, <1>2 DEF Shaped
<1>4. Still /\ UNCHANGED oxUser
  BY DEF LeaveRead, DisabledInOx, ListGroups, Leave, LeaveDone, KeycloakUnset, Still, Finds, table, ox, copy
<1>5. t.at \in SideSteps
  BY <1>2 DEF SideSteps
<1>6. ASSUME NEW at, NEW x, NEW S
      PROVE  LET u == [Goes(t, at) EXCEPT !.ox = x, !.todo = S]
                 v == [Goes(t, at) EXCEPT !.ox = x]
                 w == [Goes(t, at) EXCEPT !.todo = S]
             IN /\ u.q = t.q /\ u.for = t.for /\ u.held = <<>> /\ u.at = at
                /\ v.q = t.q /\ v.for = t.for /\ v.held = <<>> /\ v.at = at
                /\ w.q = t.q /\ w.for = t.for /\ w.held = <<>> /\ w.at = at
  BY <1>1, <1>3 DEF Goes, Handlers
<1>7. t.at \in {"list", "leave"} => \A u \in AfterGroups(t) : Aways(u, t)
  <2>1. PICK u : u = Goes(t, "retire")
    OBVIOUS
  <2>2. u.q = t.q /\ u.for = t.for /\ u.held = <<>> /\ u.at = "retire"
    BY <1>1, <1>3, <2>1 DEF Goes, Handlers
  <2> QED
    BY <2>1, <2>2 DEF AfterGroups, Aways
<1> SUFFICES \E T : Do(t, T) /\ \A u \in T : Aways(u, t)
  BY <1>4, <1>5
<1>8. CASE LeaveRead(t)
  <2>1. PICK u : u = [Goes(t, "leave") EXCEPT !.ox = OxUserId(t.q), !.todo = t.school]
    OBVIOUS
  <2>2. Aways(u, t)
    BY <1>6, <1>8, <2>1 DEF Aways, LeaveRead, At
  <2>3. Do(t, {}) \/ Do(t, {u})
    BY <1>8, <2>1 DEF LeaveRead
  <2> QED
    BY <2>2, <2>3
<1>9. CASE DisabledInOx(t)
  <2>1. PICK u : u = [Goes(t, "list") EXCEPT !.ox = OxUserId(t.q)]
    OBVIOUS
  <2>2. Aways(u, t)
    BY <1>6, <1>9, <2>1 DEF Aways, DisabledInOx, At
  <2>3. Do(t, {}) \/ Do(t, {u})
    BY <1>9, <2>1 DEF DisabledInOx
  <2> QED
    BY <2>2, <2>3
<1>10. CASE ListGroups(t)
  <2>1. PICK u : u = [Goes(t, "leave") EXCEPT !.todo = {s \in Schools : t.ox \in member[s]}]
    OBVIOUS
  <2>2. Aways(u, t)
    BY <1>6, <1>10, <2>1 DEF Aways, ListGroups, At
  <2>3. Do(t, AfterGroups(t)) \/ Do(t, {u})
    BY <1>10, <2>1 DEF ListGroups
  <2>4. \A v \in AfterGroups(t) : Aways(v, t)
    BY <1>7, <1>10 DEF ListGroups, At
  <2> QED
    BY <2>2, <2>3, <2>4
<1>11. CASE Leave(t)
  <2>1. PICK s \in t.todo : Do(t, {[t EXCEPT !.todo = @ \ {s}]})
    BY <1>11 DEF Leave
  <2>2. PICK u : u = [t EXCEPT !.todo = @ \ {s}]
    OBVIOUS
  <2>3. u.q = t.q /\ u.for = t.for /\ u.held = <<>> /\ u.at = t.at
    BY <1>1, <1>3, <2>2 DEF Handlers
  <2>4. Aways(u, t)
    BY <1>11, <2>3 DEF Aways, Leave, At
  <2>5. Do(t, {u})
    BY <2>1, <2>2
  <2> QED
    BY <2>4, <2>5
<1>12. CASE LeaveDone(t)
  <2>1. \A v \in AfterGroups(t) : Aways(v, t)
    BY <1>7, <1>12 DEF LeaveDone, At
  <2>2. Do(t, AfterGroups(t))
    BY <1>12 DEF LeaveDone
  <2> QED
    BY <2>1, <2>2
<1>13. CASE KeycloakUnset(t)
  <2>1. Do(t, {})
    BY <1>13 DEF KeycloakUnset
  <2> QED
    BY <2>1
<1> QED
  BY <1>8, <1>9, <1>10, <1>11, <1>12, <1>13

(* The deletion of the person finds the users of OX. *)
LEMMA DeletedInOxGoes ==
  ASSUME Typed, NEW t \in tasks, DeletedInOx(t)
  PROVE  /\ Nothing /\ t.at = "deleted"
         /\ \E T : Do(t, T) /\ \A u \in T : u.q = t.q /\ u.at = "list" /\ u.held = <<>>
<1>1. t \in Handlers /\ Nothing /\ t.at = "deleted" /\ t.held = <<>>
  BY TaskTyped DEF DeletedInOx, Nothing, At, Shaped
<1> DEFINE A == {a \in Slots : row[a] # NoRow /\ row[a].text = t.text /\ row[a].ox # 0}
           T == {[Saves(t, "list", "deleted") EXCEPT !.ox = row[a].ox] : a \in A}
<1>2. Do(t, T)
  BY DEF DeletedInOx
<1>3. \A u \in T : \E x : u = [Saves(t, "list", "deleted") EXCEPT !.ox = x]
  OBVIOUS
<1>4. ASSUME NEW x, NEW u, u = [Saves(t, "list", "deleted") EXCEPT !.ox = x]
      PROVE  u.q = t.q /\ u.at = "list" /\ u.held = <<>>
  BY <1>1, <1>4 DEF Saves, Handlers
<1> HIDE DEF T
<1>5. \A u \in T : u.q = t.q /\ u.at = "list" /\ u.held = <<>>
  BY <1>3, <1>4
<1> QED
  BY <1>1, <1>2, <1>5

-----------------------------------------------------------------------------
(* Table and handlers fit together                                         *)

(* A step fails by one call at most. *)
LEMMA TroubleIs ==
  ASSUME NEW t \in tasks, Step(t) PROVE Fault \/ UNCHANGED trouble
<1>1. CASE CheckSave(t) \/ Write(t) \/ HandlePerson(t) \/ CreateOrEnable(t) \/ Generate(t)
  BY <1>1 DEF CheckSave, Write, HandlePerson, CreateOrEnable, Generate
<1>2. CASE DisableRead(t) \/ DisableDone(t) \/ HandleRenamed(t) \/ RenamedWith(t) \/ RenamedWithout(t)
  BY <1>2 DEF DisableRead, DisableDone, HandleRenamed, RenamedWith, RenamedWithout
<1>3. CASE Confirm(t) \/ ConfirmDisabled(t) \/ Deactivate(t) \/ CreateRead(t) \/ CreateExists(t)
  BY <1>3 DEF Confirm, ConfirmDisabled, Deactivate, CreateRead, CreateExists
<1>4. CASE DisableOne(t) \/ CreateUser(t) \/ Join(t) \/ ChangeUser(t)
  BY <1>4 DEF DisableOne, CreateUser, Join, ChangeUser
<1>5. CASE AlreadyExists(t) \/ ChangeRead(t) \/ LeaveRead(t) \/ DisabledInOx(t) \/ DeletedInOx(t) \/ LeaveDone(t)
  BY <1>5 DEF AlreadyExists, ChangeRead, LeaveRead, DisabledInOx, DeletedInOx, LeaveDone
<1>6. CASE ListGroups(t) \/ Leave(t) \/ Retire(t) \/ KeycloakSet(t) \/ KeycloakUnset(t) \/ DeleteRow(t)
  BY <1>6 DEF ListGroups, Leave, Retire, KeycloakSet, KeycloakUnset, DeleteRow
<1> QED
  BY <1>1, <1>2, <1>3, <1>4, <1>5, <1>6 DEF Step

(* Requests stay apart if they are now, *)
LEMMA SingleWas ==
  ASSUME Typed, [Next]_vars, Single' PROVE Single
<1>1. faults \in Nat /\ overlaps \in Nat /\ crowd \in BOOLEAN
  BY TypedParts, BoundsAssumption DEF OthersTyped
<1>2. overlaps' = 0 /\ (faults' = 0 \/ (faults' = 1 /\ ~crowd'))
  BY DEF Single
<1>3. ASSUME Fault \/ UNCHANGED trouble PROVE Single
  BY <1>1, <1>2, <1>3 DEF Fault, trouble, Single
<1>4. ASSUME NEW q, NEW name, Begin(q, name), crowd => crowd' PROVE Single
  BY <1>1, <1>2, <1>4 DEF Begin, Single
<1>5. ASSUME NEW q, NEW S, ChangeKontexte(q, S) PROVE Single
  BY <1>4, <1>5 DEF ChangeKontexte
<1>6. ASSUME NEW q, ChangeRolle(q) \/ Rename(q) \/ Delete(q) PROVE Single
  <2>1. CASE ChangeRolle(q)
    BY <1>4, <2>1 DEF ChangeRolle
  <2>2. CASE Rename(q)
    BY <1>4, <2>2 DEF Rename
  <2>3. CASE Delete(q)
    BY <1>4, <2>3 DEF Delete
  <2> QED
    BY <1>6, <2>1, <2>2, <2>3
<1>7. ASSUME NEW t \in tasks, Step(t) PROVE Single
  BY <1>3, <1>7, TroubleIs
<1>8. ASSUME NEW t \in tasks, Throws(t) PROVE Single
  BY <1>3, <1>8 DEF Throws
<1>9. CASE Restart
  BY <1>3, <1>9 DEF Restart
<1>10. CASE UNCHANGED vars
  BY <1>3, <1>10 DEF vars, trouble
<1> QED
  BY <1>5, <1>6, <1>7, <1>8, <1>9, <1>10 DEF Next

(* and nothing has failed before the one call that does. *)
LEMMA FaultIsFirst ==
  ASSUME Typed, Single', Fault PROVE Calm
<1>1. faults \in Nat /\ overlaps \in Nat
  BY TypedParts, BoundsAssumption DEF OthersTyped
<1> QED
  BY <1>1 DEF Single, Fault, Calm

(* Handlers fit a table whose rows are kept. *)
LEMMA FitsStays ==
  ASSUME RowsKept, NEW t, HeldFits(t) PROVE HeldFits(t)'
<1>1. t.at \in {"join", "keycloakSet", "confirm", "oxChange"} => HasText(t.text)'
  BY TextsKept DEF HeldFits
<1>2. ASSUME NEW a \in DOMAIN t.held, NEW m, m = t.held[a]
      PROVE  /\ m.text # 0 /\ StatusFits(t, m)
             /\ a # 0 => a \in Slots /\ row'[a] # NoRow /\ (m.text = row'[a].text \/ (Confirms(t) /\ HasText(m.text)'))
             /\ ForNew(t) => a = 0
             /\ t.at = "join" \/ (t.at \in {"save", "write"} /\ t.for = "oxid") => t.text = m.text
  <2>1. /\ m.text # 0 /\ StatusFits(t, m)
        /\ a # 0 => a \in Slots /\ row[a] # NoRow /\ (m.text = row[a].text \/ (Confirms(t) /\ HasText(m.text)))
        /\ ForNew(t) => a = 0
        /\ t.at = "join" \/ (t.at \in {"save", "write"} /\ t.for = "oxid") => t.text = m.text
    BY <1>2 DEF HeldFits
  <2>2. a \in Slots /\ row[a] # NoRow => row'[a] # NoRow /\ row'[a].text = row[a].text
    BY DEF RowsKept
  <2>3. HasText(m.text) => HasText(m.text)'
    BY TextsKept
  <2> QED
    BY <2>1, <2>2, <2>3
<1> QED
  BY <1>1, <1>2 DEF HeldFits, StatusFits, Confirms, ForNew

(* A handler that holds nothing fits, if it goes on with a known address. *)
LEMMA EmptyFits ==
  ASSUME NEW u, u.held = <<>>, u.at \in {"join", "keycloakSet", "confirm", "oxChange"} => HasText(u.text)
  PROVE  HeldFits(u)
<1>1. DOMAIN u.held = {}
  OBVIOUS
<1> QED
  BY <1>1 DEF HeldFits

(* A handler that gives a row up fits. *)
LEMMA FailsFits ==
  ASSUME Typed, NEW t \in tasks, HeldFits(t), ~Confirms(t), NEW u, Fails(u, t)
  PROVE  HeldFits(u)
<1>1. PICK A \in SUBSET (0 .. MaxAddresses) : t.held \in [A -> Mails]
  BY TaskTyped DEF Helds
<1>2. u.at = "write" /\ u.for = "failed" /\ DOMAIN u.held = DOMAIN t.held
  BY DEF Fails
<1>3. ASSUME NEW a \in DOMAIN u.held, NEW m, m = u.held[a]
      PROVE  m.text # 0 /\ StatusFits(u, m) /\ (a # 0 => a \in Slots /\ row[a] # NoRow /\ m.text = row[a].text)
  <2>1. PICK n : n = t.held[a]
    OBVIOUS
  <2>2. n \in Mails /\ m = [n EXCEPT !.status = "FAILED"]
    BY <1>1, <1>2, <1>3, <2>1 DEF Fails
  <2>3. m.status = "FAILED" /\ m.text = n.text
    BY <2>2 DEF Mails
  <2>4. n.text # 0 /\ (a # 0 => a \in Slots /\ row[a] # NoRow /\ n.text = row[a].text)
    BY <1>2, <2>1 DEF HeldFits
  <2>5. StatusFits(u, m)
    BY <1>2, <2>3 DEF StatusFits
  <2> QED
    BY <2>3, <2>4, <2>5
<1> QED
  BY <1>2, <1>3 DEF HeldFits, ForNew

(* Those that go on fit if those in progress did. *)
LEMMA FitGoesOn ==
  ASSUME Fit, RowsFit', RowsKept, NEW t \in tasks, NEW T, Do(t, T), \A u \in T : u.q = t.q /\ HeldFits(u)',
         username' = username, person'.name = person.name, overlaps' = 0 => overlaps = 0
  PROVE  Fit'
<1>1. HandlersFit'
  <2>1. ASSUME NEW u \in tasks' PROVE HeldFits(u)'
    BY <2>1, FitsStays DEF Fit, HandlersFit, Do
  <2> QED
    BY <2>1 DEF HandlersFit
<1>2. InTurn'
  <2>1. CASE overlaps' = 0
    <3>1. (\A u, v \in tasks : u.q = v.q) /\ \A u \in tasks : username[u.q] = person.name
      BY <2>1 DEF Fit, InTurn
    <3>2. \A u \in tasks' : u.q = t.q
      BY <3>1 DEF Do
    <3>3. username[t.q] = person.name
      BY <3>1
    <3>4. \A u \in tasks' : username'[u.q] = person'.name
      BY <3>2, <3>3
    <3> QED
      BY <3>2, <3>4 DEF InTurn
  <2>2. CASE overlaps' # 0
    BY <2>2 DEF InTurn
  <2> QED
    BY <2>1, <2>2
<1> QED
  BY <1>1, <1>2 DEF Fit

(* and if the table stays as it is. *)
LEMMA FitStill ==
  ASSUME Fit, Still, NEW t \in tasks, NEW T, Do(t, T), \A u \in T : u.q = t.q /\ HeldFits(u),
         overlaps' = 0 => overlaps = 0
  PROVE  Fit'
<1>1. row' = row /\ order' = order /\ loaded' = loaded /\ username' = username /\ person' = person
  BY DEF Still
<1>2. RowsKept /\ RowsFit'
  BY <1>1 DEF RowsKept, RowsFit, Fit
<1>3. \A u \in T : HeldFits(u)'
  BY <1>2, FitsStays
<1> QED
  BY <1>1, <1>2, <1>3, FitGoesOn

(* A step is part of the request it belongs to. *)
LEMMA OverlapsStay ==
  ASSUME NEW t \in tasks, Step(t) PROVE overlaps' = overlaps
BY TroubleIs DEF Fault, trouble

(* The address a session knows is one of the table. *)
LEMMA EmailOfRows ==
  ASSUME Typed, RowsFit, NEW q \in Sessions, OxUserId(q) # 0
  PROVE  HasText(EmailOf(loaded[q]))
<1>1. PICK seq : seq = loaded[q]
  OBVIOUS
<1>2. seq \in Seq(Slots) /\ \A i \in 1 .. Len(seq) : seq[i] \in Slots /\ row[seq[i]] # NoRow
  BY <1>1, Rows DEF RowsFit
<1>3. \A b \in Slots : b # 0
  BY Rows
<1>4. FirstOf(seq, EmailAddressStatus \ {"FAILED"}) # 0
  BY <1>1 DEF OxUserId
<1>5. seq # <<>>
  <2>1. ASSUME seq = <<>> PROVE FALSE
    <3>1. \A S : FirstOf(seq, S) = 0
      BY <2>1 DEF FirstOf
    <3> QED
      BY <1>4, <3>1
  <2> QED
    BY <2>1
<1>6. PICK a : a = FirstOf(seq, {"ENABLED"})
  OBVIOUS
<1>7. a # 0 => \E k \in 1 .. Len(seq) : seq[k] = a
  BY <1>2, <1>6, FirstFound
<1>8. Head(seq) = seq[1] /\ 1 \in 1 .. Len(seq)
  BY <1>2, <1>5
<1>9. EmailOf(seq) = IF a # 0 THEN row[a].text ELSE row[Head(seq)].text
  BY <1>5, <1>6 DEF EmailOf
<1>10. PICK b \in Slots : row[b] # NoRow /\ EmailOf(seq) = row[b].text
  <2>1. CASE a # 0
    BY <1>2, <1>7, <1>9, <2>1
  <2>2. CASE a = 0
    BY <1>2, <1>8, <1>9, <2>2
  <2> QED
    BY <2>1, <2>2
<1> QED
  BY <1>1, <1>10 DEF HasText

(* A new row is the first; no other changes. *)
LEMMA CreateFits ==
  ASSUME Typed, RowsFit, NEW q \in Sessions, NEW m \in EmailAddress, Create(q, m), CanWrite(0, m), m.text # 0
  PROVE  /\ RowsFit' /\ RowsKept
         /\ \E n \in Slots : /\ n = Len(order) + 1 /\ row[n] = NoRow /\ row'[n] = m
                             /\ \A b \in Slots : b # n => row'[b] = row[b]
                             /\ order' = <<n>> \o order /\ order' \in Seq(Slots) /\ Len(order') = Len(order) + 1
                             /\ order'[1] = n /\ \A i \in 1 .. Len(order) : order'[i + 1] = order[i]
                             /\ loaded' = [loaded EXCEPT ![q] = Append(@, n)]
<1>1. /\ row \in [Slots -> EmailAddress \union {NoRow}] /\ order \in Seq(Slots) /\ Len(order) \in Nat
      /\ loaded \in [Sessions -> Seq(Slots)]
      /\ \A b \in Slots : b \in Nat /\ b # 0
  BY Rows
<1>2. PICK n : n = Len(order) + 1
  OBVIOUS
<1>3. /\ n \in Slots /\ row' = [row EXCEPT ![n] = m] /\ order' = <<n>> \o order
      /\ loaded' = [loaded EXCEPT ![q] = Append(@, n)]
  BY <1>2 DEF Create
<1>4. row'[n] = m /\ \A b \in Slots : b # n => row'[b] = row[b]
  BY <1>1, <1>3
<1>5. row[n] = NoRow
  BY <1>1, <1>2, <1>3 DEF RowsFit
<1>6. m # NoRow
  BY DEF EmailAddress, EmailAddressStatus, NoRow
<1>7. RowsKept
  BY <1>4, <1>5 DEF RowsKept
<1>8. /\ order' \in Seq(Slots) /\ Len(order') = Len(order) + 1
      /\ order'[1] = n /\ \A i \in 1 .. Len(order) : order'[i + 1] = order[i]
  BY <1>1, <1>3
<1>9. \A i \in 1 .. Len(order') : i = 1 \/ (i - 1 \in 1 .. Len(order) /\ order'[i] = order[i - 1])
  <2>1. ASSUME NEW i \in 1 .. Len(order'), i # 1 PROVE i - 1 \in 1 .. Len(order) /\ order'[i] = order[i - 1]
    <3>1. Len(order') = Len(order) + 1 /\ Len(order) \in Nat
      BY <1>1, <1>8
    <3>2. i - 1 \in 1 .. Len(order) /\ (i - 1) + 1 = i
      BY <2>1, <3>1
    <3> QED
      BY <1>8, <3>2
  <2> QED
    BY <2>1
<1>10. \A b \in Slots : row[b].text # m.text
  BY <1>1 DEF CanWrite
<1>11. RowsFit'
  <2>1. \A b \in Slots : row'[b] # NoRow <=> b <= Len(order')
    BY <1>1, <1>2, <1>3, <1>4, <1>6, <1>8 DEF RowsFit
  <2>2. ASSUME NEW b \in Slots, row'[b] # NoRow PROVE row'[b].text # 0 /\ \E i \in 1 .. Len(order') : order'[i] = b
    <3>1. CASE b = n
      BY <1>1, <1>4, <1>8, <3>1
    <3>2. CASE b # n
      <4>1. row'[b] = row[b]
        BY <1>4, <3>2
      <4>2. PICK i \in 1 .. Len(order) : order[i] = b
        BY <2>2, <4>1 DEF RowsFit
      <4>3. i + 1 \in 1 .. Len(order')
        BY <1>1, <1>8
      <4>4. row'[b].text # 0
        BY <2>2, <4>1 DEF RowsFit
      <4>5. order'[i + 1] = b
        BY <1>8, <4>2
      <4> QED
        BY <4>3, <4>4, <4>5
    <3> QED
      BY <3>1, <3>2
  <2>3. ASSUME NEW i \in 1 .. Len(order') PROVE row'[order'[i]] # NoRow
    <3>1. CASE i = 1
      BY <1>4, <1>6, <1>8, <3>1
    <3>2. CASE i # 1
      <4>1. i - 1 \in 1 .. Len(order) /\ order'[i] = order[i - 1]
        BY <1>9, <3>2
      <4>2. order[i - 1] \in Slots /\ row[order[i - 1]] # NoRow
        BY <1>1, <4>1 DEF RowsFit
      <4> QED
        BY <1>7, <4>1, <4>2 DEF RowsKept
    <3> QED
      BY <3>1, <3>2
  <2>4. ASSUME NEW p \in Sessions, NEW i \in 1 .. Len(loaded'[p]) PROVE row'[loaded'[p][i]] # NoRow
    <3>1. \A k \in 1 .. Len(loaded[p]) : loaded[p][k] \in Slots /\ row[loaded[p][k]] # NoRow
      BY <1>1 DEF RowsFit
    <3>2. \A k \in 1 .. Len(loaded[p]) : row'[loaded[p][k]] # NoRow
      BY <1>7, <3>1 DEF RowsKept
    <3>3. CASE p # q
      <4>1. loaded'[p] = loaded[p]
        BY <1>1, <1>3, <3>3
      <4> QED
        BY <2>4, <3>2, <4>1
    <3>4. CASE p = q
      <4>1. loaded'[p] = Append(loaded[p], n) /\ loaded[p] \in Seq(Slots)
        BY <1>1, <1>3, <3>4
      <4>2. loaded'[p][i] = n \/ (i \in 1 .. Len(loaded[p]) /\ loaded'[p][i] = loaded[p][i])
        BY <2>4, <4>1
      <4> QED
        BY <1>4, <1>6, <3>2, <4>2
    <3> QED
      BY <3>3, <3>4
  <2>5. \A b, c \in Slots : row'[b] # NoRow /\ row'[c] # NoRow /\ row'[b].text = row'[c].text => b = c
    BY <1>4, <1>10 DEF RowsFit
  <2> QED
    BY <2>1, <2>2, <2>3, <2>4, <2>5 DEF RowsFit
<1> QED
  BY <1>2, <1>3, <1>4, <1>5, <1>7, <1>8, <1>11

(* So the rows stay apart by their text. *)
LEMMA CreateKeeps ==
  ASSUME Typed, RowsFit, NEW q \in Sessions, NEW m \in EmailAddress, Create(q, m), CanWrite(0, m), m.text # 0
  PROVE  RowsFit' /\ RowsKept /\ \E n \in Slots : row'[n] = m
<1>1. RowsFit' /\ RowsKept
  BY CreateFits
<1>2. PICK n \in Slots : row'[n] = m
  BY CreateFits
<1> QED
  BY <1>1, <1>2

(* What a handler holds to write fits. *)
LEMMA OneFits ==
  ASSUME NEW u, NEW a, DOMAIN u.held = {a}, u.at \notin {"join", "keycloakSet", "confirm"},
         u.at = "oxChange" => HasText(u.text),
         u.held[a].text # 0, StatusFits(u, u.held[a]),
         a # 0 => a \in Slots /\ row[a] # NoRow /\ (u.held[a].text = row[a].text \/ (Confirms(u) /\ HasText(u.held[a].text))),
         ForNew(u) => a = 0,
         u.at \in {"save", "write"} /\ u.for = "oxid" => u.text = u.held[a].text
  PROVE  HeldFits(u)
BY DEF HeldFits

(* A row of the table has a text that fits. *)
LEMMA RowFits ==
  ASSUME Typed, RowsFit, NEW a \in Slots, row[a] # NoRow
  PROVE  row[a].text # 0 /\ HasText(row[a].text) /\ row[a] \in EmailAddress
BY Rows DEF RowsFit, HasText

(* The handlers that write, *)
LEMMA CheckSaveFits ==
  ASSUME Typed, Fit, NEW t \in tasks, CheckSave(t) PROVE Fit'
<1>1. Still /\ (overlaps' = 0 => overlaps = 0) /\ t.at = "save" /\ HeldFits(t)
  BY CheckSaveGoes, NothingStill DEF trouble, Fit, HandlersFit
<1>2. ASSUME NEW u, Do(t, {u}), u.q = t.q, u.at = "write", u.for = t.for, u.held = t.held, u.text = t.text
      PROVE  Fit'
  <2>1. HeldFits(u)
    BY <1>1, <1>2 DEF HeldFits, StatusFits, ForNew, Confirms
  <2> QED
    BY <1>1, <1>2, <2>1, FitStill
<1>3. ASSUME NEW T, Do(t, T), \A u \in T : Started1(u, t, "school") PROVE Fit'
  <2>1. \A u \in T : u.q = t.q /\ HeldFits(u)
    BY <1>3, EmptyFits DEF Started1
  <2> QED
    BY <1>1, <1>3, <2>1, FitStill
<1>4. ASSUME NEW u, t.for = "oxid", Do(t, {u}), Fails(u, t) PROVE Fit'
  <2>1. HeldFits(u)
    BY <1>1, <1>4, FailsFits DEF Confirms
  <2>2. u.q = t.q
    BY <1>4 DEF Fails
  <2> QED
    BY <1>1, <1>4, <2>1, <2>2, FitStill
<1>5. ASSUME Do(t, {}) PROVE Fit'
  BY <1>1, <1>5, FitStill
<1> QED
  BY <1>2, <1>3, <1>4, <1>5, CheckSaveGoes

(* A write keeps the rows apart by their text, and what the others save fits. *)
LEMMA WriteFits ==
  ASSUME Typed, Fit, NEW t \in tasks, Write(t)
  PROVE  Fit' /\ RowsKept
<1>1. /\ t.at = "write" /\ HeldFits(t) /\ RowsFit /\ t \in Handlers /\ Shaped(t) /\ t.q \in Sessions
      /\ username' = username /\ person'.name = person.name /\ (overlaps' = 0 => overlaps = 0)
  BY WriteGoes, TaskTyped DEF Fit, HandlersFit, trouble
<1>2. PICK a \in 0 .. MaxAddresses :
        /\ DOMAIN t.held = {a}
        /\ a # 0 => a \in Slots /\ t.held[a] \in EmailAddress
        /\ \/ /\ CanWrite(a, t.held[a]) /\ Do(t, AfterSaved(t))
              /\ IF a = 0 THEN Create(t.q, t.held[a]) ELSE Update(a, t.held[a])
           \/ ~CanWrite(a, t.held[a]) /\ Do(t, {}) /\ UNCHANGED <<row, order, loaded>>
  BY WriteGoes
<1>3. PICK m : m = t.held[a]
  OBVIOUS
<1>4. /\ m.text # 0 /\ StatusFits(t, m)
      /\ a # 0 => row[a] # NoRow /\ (m.text = row[a].text \/ (Confirms(t) /\ HasText(m.text)))
      /\ t.for = "oxid" => t.text = m.text
  BY <1>1, <1>2, <1>3 DEF HeldFits
<1>5. CASE ~CanWrite(a, m) /\ Do(t, {}) /\ UNCHANGED <<row, order, loaded>>
  <2>1. RowsKept /\ RowsFit'
    BY <1>1, <1>5 DEF RowsKept, RowsFit
  <2> QED
    BY <1>1, <1>5, <2>1, FitGoesOn
<1>6. CASE /\ CanWrite(a, m) /\ Do(t, AfterSaved(t))
           /\ IF a = 0 THEN Create(t.q, m) ELSE Update(a, m)
  <2>1. /\ RowsFit' /\ RowsKept
        /\ \E h \in Slots : /\ row'[h] = m /\ m \in EmailAddress /\ (a # 0 => h = a)
    <3>1. CASE a = 0
      <4>1. Create(t.q, m) /\ Len(order) + 1 \in Slots
        BY <1>6, <3>1 DEF Create
      <4>2. Len(order) < MaxAddresses
        BY <4>1, Rows, BoundsAssumption DEF Slots
      <4>3. t.held[0].text \in Texts
        BY <1>2, <3>1, <4>2, TaskTyped, Rows, BoundsAssumption DEF Fits
      <4>4. PICK A \in SUBSET (0 .. MaxAddresses) : t.held \in [A -> Mails]
        BY <1>1 DEF Handlers, Helds
      <4>5. m \in Mails /\ m.text \in Texts
        BY <1>2, <1>3, <3>1, <4>3, <4>4
      <4>6. m \in EmailAddress
        BY <4>5 DEF Mails, EmailAddress
      <4>7. CanWrite(0, m) /\ m.text # 0 /\ RowsFit /\ t.q \in Sessions
        BY <1>1, <1>4, <1>6, <3>1
      <4>8. /\ RowsFit' /\ RowsKept
            /\ \E n \in Slots : row'[n] = m
        BY <4>1, <4>6, <4>7, CreateKeeps
      <4> QED
        BY <3>1, <4>6, <4>8
    <3>2. CASE a # 0
      <4>1. Update(a, m) /\ m \in EmailAddress /\ a \in Slots
        BY <1>2, <1>3, <1>6, <3>2
      <4>2. RowsFit' /\ RowsKept /\ row'[a] = m
        BY <1>1, <1>4, <1>6, <3>2, <4>1, UpdateFits
      <4> QED
        BY <4>1, <4>2
    <3> QED
      BY <3>1, <3>2
  <2>2. PICK h \in Slots : row'[h] = m /\ m \in EmailAddress /\ (a # 0 => h = a)
    BY <2>1
  <2>3. m # NoRow
    BY <2>2 DEF EmailAddress, EmailAddressStatus, NoRow
  <2>4. ASSUME NEW u \in AfterSaved(t) PROVE u.q = t.q /\ HeldFits(u)'
    <3>1. Continues(u, t)
      BY <1>1, <2>4, AfterSavedIs
    <3>2. CASE u.held = <<>> /\ u.at \in {"school", "create", "change", "generate"}
      <4>1. HeldFits(u)
        BY <3>2, EmptyFits
      <4> QED
        BY <2>1, <3>1, <4>1, FitsStays DEF Continues
    <3>3. CASE t.for = "oxid" /\ u.at = "join" /\ u.held = t.held /\ u.text = t.text
      <4>1. a # 0
        BY <1>1, <1>2, <3>3 DEF Shaped
      <4>2. m.status = "REQUESTED" /\ u.text = m.text
        BY <1>1, <1>4, <3>3 DEF StatusFits
      <4>3. HasText(u.text)'
        BY <2>2, <2>3, <4>2 DEF HasText
      <4>4. StatusFits(u, m)'
        BY <3>3, <4>2 DEF StatusFits
      <4>5. ~ForNew(u)'
        BY <3>3 DEF ForNew
      <4>6. DOMAIN u.held = {a} /\ u.held[a] = m /\ a \in Slots /\ row'[a] = m
        BY <1>2, <1>3, <2>2, <3>3, <4>1
      <4>7. HeldFits(u)'
        BY <1>4, <2>3, <3>3, <4>2, <4>3, <4>4, <4>5, <4>6 DEF HeldFits
      <4> QED
        BY <3>1, <4>7 DEF Continues
    <3> QED
      BY <3>1, <3>2, <3>3 DEF Continues, Started1
  <2> QED
    BY <1>1, <1>6, <2>1, <2>4, FitGoesOn
<1> QED
  BY <1>2, <1>3, <1>5, <1>6

(* An address that is disabled keeps its text. *)
LEMMA DisableOneFits ==
  ASSUME Typed, Fit, NEW t \in tasks, DisableOne(t)
  PROVE  Fit' /\ RowsKept
<1>1. /\ t.at = "disable" /\ HeldFits(t) /\ RowsFit
      /\ username' = username /\ person'.name = person.name
  BY DisableOneGoes DEF Fit, HandlersFit
<1>2. PICK a \in DOMAIN t.held : \E u :
              /\ a \in Slots /\ t.held[a] \in EmailAddress
              /\ Do(t, {u}) /\ u.q = t.q /\ u.at = "disable" /\ u.todo = t.todo
              /\ DOMAIN u.held = DOMAIN t.held \ {a} /\ \A b \in DOMAIN u.held : u.held[b] = t.held[b]
              /\ \/ CanWrite(a, t.held[a]) /\ Update(a, t.held[a]) /\ UNCHANGED trouble
                 \/ CanWrite(a, t.held[a]) /\ Fault /\ UNCHANGED <<row, order, loaded>>
                 \/ ~CanWrite(a, t.held[a]) /\ UNCHANGED trouble /\ UNCHANGED <<row, order, loaded>>
  BY DisableOneGoes
<1>3. PICK u :
              /\ a \in Slots /\ t.held[a] \in EmailAddress
              /\ Do(t, {u}) /\ u.q = t.q /\ u.at = "disable" /\ u.todo = t.todo
              /\ DOMAIN u.held = DOMAIN t.held \ {a} /\ \A b \in DOMAIN u.held : u.held[b] = t.held[b]
              /\ \/ CanWrite(a, t.held[a]) /\ Update(a, t.held[a]) /\ UNCHANGED trouble
                 \/ CanWrite(a, t.held[a]) /\ Fault /\ UNCHANGED <<row, order, loaded>>
                 \/ ~CanWrite(a, t.held[a]) /\ UNCHANGED trouble /\ UNCHANGED <<row, order, loaded>>
  BY <1>2
<1>4. RowsFit' /\ RowsKept
  <2>1. CASE CanWrite(a, t.held[a]) /\ Update(a, t.held[a])
    <3>1. a # 0
      BY <1>3, Rows
    <3>2. row[a] # NoRow /\ (t.held[a].text = row[a].text \/ HasText(t.held[a].text))
      BY <1>1, <3>1 DEF HeldFits
    <3> QED
      BY <1>1, <1>3, <2>1, <3>2, UpdateFits
  <2>2. CASE UNCHANGED <<row, order, loaded>>
    BY <1>1, <2>2 DEF RowsKept, RowsFit
  <2> QED
    BY <1>3, <2>1, <2>2
<1>5. HeldFits(u)
  <2>1. ASSUME NEW b \in DOMAIN u.held
        PROVE  /\ u.held[b].text # 0 /\ StatusFits(u, u.held[b])
               /\ b # 0 => b \in Slots /\ row[b] # NoRow /\ u.held[b].text = row[b].text
    <3>1. u.held[b] = t.held[b] /\ b \in DOMAIN t.held
      BY <1>3
    <3> QED
      BY <1>1, <1>3, <3>1 DEF HeldFits, StatusFits, Confirms
  <2> QED
    BY <1>3, <2>1 DEF HeldFits, ForNew
<1>6. HeldFits(u)'
  BY <1>4, <1>5, FitsStays
<1>7. overlaps' = 0 => overlaps = 0
  BY <1>3 DEF Fault, trouble
<1> QED
  BY <1>1, <1>3, <1>4, <1>6, <1>7, FitGoesOn

(* The address OX has is the one the row is confirmed with, *)
LEMMA ConfirmFits ==
  ASSUME Typed, Fit, NEW t \in tasks, Confirm(t) PROVE Fit'
<1>1. PICK a : a = Due
  OBVIOUS
<1>2. Still /\ (overlaps' = 0 => overlaps = 0) /\ t.at = "confirm" /\ HeldFits(t) /\ RowsFit
  BY <1>1, ConfirmGoes, NothingStill DEF trouble, Fit, HandlersFit
<1>3. HasText(t.text)
  BY <1>2 DEF HeldFits
<1>4. t.text # 0
  BY <1>2, <1>3 DEF HasText, RowsFit
<1>5. ASSUME a # 0, NEW u, Do(t, {u}), TakesUp(u, t, a)
      PROVE  Fit'
  <2>1. a \in Slots /\ row[a] # NoRow
    BY <1>1, <1>5, NewestRequested
  <2>2. HeldFits(u)
    BY <1>3, <1>4, <1>5, <2>1, OneFits DEF TakesUp, StatusFits, Confirms, ForNew
  <2> QED
    BY <1>2, <1>5, <2>2, FitStill DEF TakesUp
<1>6. ASSUME Do(t, {}) PROVE Fit'
  BY <1>2, <1>6, FitStill
<1> QED
  BY <1>1, <1>5, <1>6, ConfirmGoes

(* and so are the others that read the newest row. *)
LEMMA ReadFits ==
  ASSUME Typed, Fit, NEW t \in tasks, ConfirmDisabled(t) \/ CreateRead(t) \/ ChangeRead(t) PROVE Fit'
<1>1. PICK a : a = Due
  OBVIOUS
<1>2. Still /\ (overlaps' = 0 => overlaps = 0) /\ RowsFit
  BY <1>1, ConfirmDisabledGoes, CreateReadGoes, ChangeReadGoes, NothingStill DEF trouble, Fit
<1>3. ASSUME Do(t, {}) PROVE Fit'
  BY <1>2, <1>3, FitStill
<1>4. a # 0 => a \in Slots /\ row[a] # NoRow /\ row[a].status = "REQUESTED" /\ row[a].text # 0 /\ HasText(row[a].text)
  BY <1>1, <1>2, NewestRequested, RowFits
<1>5. CASE ConfirmDisabled(t)
  <2>1. ASSUME a # 0, NEW u, Do(t, {u}), SetsAside(u, t, a) PROVE Fit'
    <3>1. HeldFits(u)
      BY <1>4, <2>1, OneFits DEF SetsAside, StatusFits, ForNew
    <3> QED
      BY <1>2, <2>1, <3>1, FitStill DEF SetsAside
  <2> QED
    BY <1>1, <1>3, <1>5, <2>1, ConfirmDisabledGoes
<1>6. CASE CreateRead(t)
  <2>1. ASSUME a # 0, NEW u, Do(t, {u}), Reads(u, t, a) PROVE Fit'
    <3>1. u.q = t.q /\ HeldFits(u)
      BY <1>4, <2>1, OneFits DEF StatusFits, ForNew, Reads
    <3> QED
      BY <1>2, <2>1, <3>1, FitStill
  <2>2. Do(t, {}) \/ (a # 0 /\ \E u : Do(t, {u}) /\ Reads(u, t, a))
    BY <1>1, <1>6, CreateReadGoes
  <2> QED
    BY <1>3, <2>1, <2>2
<1>7. CASE ChangeRead(t)
  <2>1. ASSUME a # 0, NEW u, Do(t, {u}), ReadsToo(u, t, a) PROVE Fit'
    <3>1. u.q = t.q /\ HeldFits(u)
      BY <1>4, <2>1, OneFits DEF StatusFits, ForNew, ReadsToo
    <3> QED
      BY <1>2, <2>1, <3>1, FitStill
  <2>2. Do(t, {}) \/ (a # 0 /\ \E u : Do(t, {u}) /\ ReadsToo(u, t, a))
    BY <1>1, <1>7, ChangeReadGoes
  <2> QED
    BY <1>3, <2>1, <2>2
<1> QED
  BY <1>5, <1>6, <1>7

(* So do the handlers that go on with an address they know, *)
LEMMA CallFits ==
  ASSUME Typed, Fit, NEW t \in tasks, Step(t),
         CreateExists(t) \/ CreateUser(t) \/ AlreadyExists(t) \/ Join(t) \/ ChangeUser(t) \/ KeycloakSet(t)
  PROVE  Fit'
<1>1. (overlaps' = 0 => overlaps = 0) /\ HeldFits(t) /\ RowsFit /\ t.q \in Sessions
  BY OverlapsStay, TaskTyped DEF Fit, HandlersFit
<1>2. Still
  BY CreateExistsGoes, CreateUserGoes, AlreadyExistsGoes, JoinGoes, ChangeUserGoes, KeycloakSetGoes, NothingStill
<1>3. ASSUME Do(t, {}) PROVE Fit'
  BY <1>1, <1>2, <1>3, FitStill
<1>4. ASSUME NEW u, Do(t, {u}), u.q = t.q, HeldFits(u) PROVE Fit'
  BY <1>1, <1>2, <1>4, FitStill
<1>5. ASSUME NEW u, Do(t, {u}), Fails(u, t), t.at \in {"oxCreate", "oxChange", "join"} PROVE Fit'
  <2>1. HeldFits(u)
    BY <1>1, <1>5, FailsFits DEF Confirms
  <2>2. u.q = t.q
    BY <1>5 DEF Fails
  <2> QED
    BY <1>4, <1>5, <2>1, <2>2
<1>6. CASE CreateExists(t)
  <2>1. t.at = "exists"
    BY <1>6, CreateExistsGoes
  <2>2. ASSUME NEW u, Do(t, {u}), u.q = t.q, u.at = "oxCreate", u.held = t.held PROVE Fit'
    <3>1. HeldFits(u)
      BY <1>1, <2>1, <2>2 DEF HeldFits, StatusFits, ForNew, Confirms
    <3> QED
      BY <1>4, <2>2, <3>1
  <2> QED
    BY <1>3, <1>6, <2>2, CreateExistsGoes
<1>7. CASE CreateUser(t)
  <2>1. t.at = "oxCreate"
    BY <1>7, CreateUserGoes
  <2>2. ASSUME NEW u, Do(t, {u}), u.q = t.q, u.at = "save", u.for = "oxid", DOMAIN u.held = DOMAIN t.held,
               \A a \in DOMAIN t.held : /\ u.held[a].status = t.held[a].status
                                        /\ u.held[a].text = t.held[a].text /\ u.text = t.held[a].text
        PROVE  Fit'
    <3>1. HeldFits(u)
      BY <1>1, <2>1, <2>2 DEF HeldFits, StatusFits, ForNew, Confirms
    <3> QED
      BY <1>4, <2>2, <3>1
  <2> QED
    BY <1>5, <1>7, <2>1, <2>2, CreateUserGoes
<1>8. CASE AlreadyExists(t)
  <2>1. ASSUME OxUserId(t.q) # 0, NEW u, Do(t, {u}), Started1(u, t, "join"), u.text = EmailOf(loaded[t.q])
        PROVE  Fit'
    <3>1. HasText(u.text)
      BY <1>1, <2>1, EmailOfRows
    <3>2. HeldFits(u) /\ u.q = t.q
      BY <2>1, <3>1, EmptyFits DEF Started1
    <3> QED
      BY <1>4, <2>1, <3>2
  <2> QED
    BY <1>3, <1>8, <2>1, AlreadyExistsGoes
<1>9. ASSUME NEW u, NEW at, Do(t, {u}), Started1(u, t, at), u.text = t.text, t.at \in {"join", "oxChange", "keycloakSet"}
      PROVE  Fit'
  <2>1. HasText(u.text)
    BY <1>1, <1>9 DEF HeldFits
  <2>2. HeldFits(u) /\ u.q = t.q
    BY <1>9, <2>1, EmptyFits DEF Started1
  <2> QED
    BY <1>4, <1>9, <2>2
<1>10. CASE Join(t)
  BY <1>3, <1>5, <1>9, <1>10, JoinGoes
<1>11. CASE ChangeUser(t)
  BY <1>5, <1>9, <1>11, ChangeUserGoes
<1>12. CASE KeycloakSet(t)
  BY <1>3, <1>9, <1>12, KeycloakSetGoes
<1> QED
  BY <1>6, <1>7, <1>8, <1>10, <1>11, <1>12

(* and those that look for what is to be done. *)
LEMMA PlanFits ==
  ASSUME Typed, Fit, NEW t \in tasks, Step(t),
         \/ HandlePerson(t) \/ CreateOrEnable(t) \/ Generate(t) \/ DisableRead(t) \/ DisableDone(t)
         \/ HandleRenamed(t) \/ RenamedWith(t) \/ RenamedWithout(t)
  PROVE  Fit'
<1>1. (overlaps' = 0 => overlaps = 0) /\ HeldFits(t) /\ RowsFit /\ t.q \in Sessions
  BY OverlapsStay, TaskTyped DEF Fit, HandlersFit
<1>2. Still
  BY HandlePersonGoes, CreateOrEnableGoes, GenerateGoes, DisableReadGoes, DisableDoneGoes, HandleRenamedGoes,
     RenamedWithGoes, RenamedWithoutGoes, NothingStill
<1>3. ASSUME Do(t, {}) PROVE Fit'
  BY <1>1, <1>2, <1>3, FitStill
<1>4. ASSUME NEW u, Do(t, {u}), u.q = t.q, HeldFits(u) PROVE Fit'
  BY <1>1, <1>2, <1>4, FitStill
<1>5. ASSUME NEW u, NEW at, Started1(u, t, at), at \notin {"join", "keycloakSet", "confirm", "oxChange"}
      PROVE  u.q = t.q /\ HeldFits(u)
  BY <1>5, EmptyFits DEF Started1
<1>6. ASSUME NEW u, NEW at, Do(t, {u}), Started1(u, t, at), at \notin {"join", "keycloakSet", "confirm", "oxChange"}
      PROVE  Fit'
  BY <1>4, <1>5, <1>6
<1>7. CASE HandlePerson(t)
  BY <1>6, <1>7, HandlePersonGoes
<1>8. CASE CreateOrEnable(t)
  <2>1. PICK a : a = Newest({"ENABLED", "DISABLED"})
    OBVIOUS
  <2>2. a # 0 => a \in Slots /\ row[a] # NoRow /\ row[a] \in EmailAddress
    BY <2>1, NewestTyped, Rows DEF EmailAddressStatus
  <2>3. ASSUME NEW u, u.q = t.q, u.at = "save", u.for = "enable", a # 0,
               DOMAIN u.held = {a}, u.held[a] = [row[a] EXCEPT !.status = "ENABLED"]
        PROVE  HeldFits(u)
    <3>1. u.held[a].status = "ENABLED" /\ u.held[a].text = row[a].text
      BY <2>2, <2>3 DEF EmailAddress
    <3>2. row[a].text # 0
      BY <1>1, <2>2, <2>3, RowFits
    <3> QED
      BY <2>2, <2>3, <3>1, <3>2, OneFits DEF StatusFits, ForNew
  <2>4. PICK T :   /\ Do(t, T)
                   /\ \A u \in T :
                        \/ Started1(u, t, "alreadyExists") \/ Started1(u, t, "school")
                        \/ Started1(u, t, "generate") /\ u.for = "create" /\ Newest({"ENABLED", "DISABLED"}) = 0
                        \/ /\ u.q = t.q /\ u.at = "save" /\ u.for = "enable"
                           /\ a # 0 /\ row[a].status = "DISABLED"
                           /\ DOMAIN u.held = {a} /\ u.held[a] = [row[a] EXCEPT !.status = "ENABLED"]
    BY <1>8, <2>1, CreateOrEnableGoes
  <2>5. \A u \in T : u.q = t.q /\ HeldFits(u)
    BY <1>5, <2>3, <2>4
  <2> QED
    BY <1>1, <1>2, <2>4, <2>5, FitStill
<1>9. CASE Generate(t)
  <2>1. PICK u : /\ Do(t, {u}) /\ u.q = t.q /\ DOMAIN u.held = {0} /\ t.for \in {"create", "change", "disabled"}
                 /\ u.held[0].text # 0 /\ u.held[0].ox = 0
                 /\ \/ u.at = "save" /\ u.for = t.for /\ u.held[0].status = "REQUESTED"
                    \/ u.at = "write" /\ u.for = "failed" /\ u.held[0].status = "FAILED"
    BY <1>9, GenerateGoes
  <2>2. HeldFits(u)
    BY <2>1, OneFits DEF StatusFits, ForNew
  <2> QED
    BY <1>4, <2>1, <2>2
<1>10. CASE DisableRead(t)
  <2>1. ASSUME NEW u, Do(t, {u}), u.q = t.q, u.at = "disable",
               \A a \in DOMAIN u.held : /\ a \in Slots /\ row[a] # NoRow
                                        /\ u.held[a].status = "DISABLED" /\ u.held[a].text = row[a].text
        PROVE  Fit'
    <3>1. \A a \in DOMAIN u.held : u.held[a].text # 0
      BY <1>1, <2>1, RowFits
    <3>2. HeldFits(u)
      BY <2>1, <3>1 DEF HeldFits, StatusFits, ForNew
    <3> QED
      BY <1>4, <2>1, <3>2
  <2> QED
    BY <1>3, <1>10, <2>1, DisableReadGoes
<1>11. CASE DisableDone(t)
  <2>1. PICK T : Do(t, T) /\ \A u \in T : Started1(u, t, "disabledInOx") \/ Started1(u, t, "disabledInKeycloak")
    BY <1>11, DisableDoneGoes
  <2>2. \A u \in T : u.q = t.q /\ HeldFits(u)
    BY <1>5, <2>1
  <2> QED
    BY <1>1, <1>2, <2>1, <2>2, FitStill
<1>12. CASE HandleRenamed(t)
  BY <1>6, <1>12, HandleRenamedGoes
<1>13. CASE RenamedWith(t)
  <2>1. ASSUME NEW a, NEW u, a \in Slots, row[a] # NoRow,
               Do(t, {u}), u.q = t.q, u.at = "write", u.for = "rename",
               DOMAIN u.held = {a}, u.held[a] = [row[a] EXCEPT !.status = "DISABLED"]
        PROVE  Fit'
    <3>1. row[a] \in EmailAddress /\ row[a].text # 0
      BY <1>1, <2>1, RowFits
    <3>2. u.held[a].status = "DISABLED" /\ u.held[a].text = row[a].text
      BY <2>1, <3>1 DEF EmailAddress
    <3>3. HeldFits(u)
      BY <2>1, <3>1, <3>2, OneFits DEF StatusFits, ForNew
    <3> QED
      BY <1>4, <2>1, <3>3
  <2> QED
    BY <1>6, <1>13, <2>1, RenamedWithGoes
<1>14. CASE RenamedWithout(t)
  BY <1>3, <1>6, <1>14, RenamedWithoutGoes
<1> QED
  BY <1>7, <1>8, <1>9, <1>10, <1>11, <1>12, <1>13, <1>14

(* And those of a deletion, of groups and of Keycloak. *)
LEMMA OtherFits ==
  ASSUME Typed, Fit, NEW t \in tasks, Step(t),
         \/ LeaveRead(t) \/ DisabledInOx(t) \/ ListGroups(t) \/ Leave(t) \/ LeaveDone(t) \/ KeycloakUnset(t)
         \/ DeletedInOx(t) \/ Retire(t) \/ DeleteRow(t)
  PROVE  Fit'
<1>1. (overlaps' = 0 => overlaps = 0) /\ RowsFit
  BY OverlapsStay DEF Fit
<1>2. ASSUME LeaveRead(t) \/ DisabledInOx(t) \/ ListGroups(t) \/ Leave(t) \/ LeaveDone(t) \/ KeycloakUnset(t)
      PROVE  Fit'
  <2>1. PICK T : Do(t, T) /\ \A u \in T : Aways(u, t)
    BY <1>2, SideStepGoes
  <2>2. \A u \in T : u.q = t.q /\ HeldFits(u)
    BY <2>1, EmptyFits DEF Aways
  <2> QED
    BY <1>1, <1>2, <2>1, <2>2, SideStepGoes, FitStill
<1>3. CASE DeletedInOx(t)
  <2>1. PICK T : Do(t, T) /\ \A u \in T : u.q = t.q /\ u.at = "list" /\ u.held = <<>>
    BY <1>3, DeletedInOxGoes
  <2>2. \A u \in T : u.q = t.q /\ HeldFits(u)
    BY <2>1, EmptyFits
  <2> QED
    BY <1>1, <1>3, <2>1, <2>2, DeletedInOxGoes, NothingStill, FitStill
<1>4. CASE Retire(t)
  <2>1. Still /\ Do(t, {})
    BY <1>4 DEF Retire, Still, table, copy
  <2> QED
    BY <1>1, <2>1, FitStill
<1>5. CASE DeleteRow(t)
  <2>1. row' = row /\ order' = order /\ loaded' = loaded /\ username' = username /\ Do(t, {})
    BY <1>5 DEF DeleteRow, table, copy
  <2>2. person'.name = person.name
    BY <1>5, TypedParts DEF DeleteRow, OthersTyped
  <2>3. RowsKept /\ RowsFit'
    BY <1>1, <2>1 DEF RowsKept, RowsFit
  <2> QED
    BY <1>1, <2>1, <2>2, <2>3, FitGoesOn
<1> QED
  BY <1>2, <1>3, <1>4, <1>5

(* And so do the rows that a deletion deactivates, which enables none. *)
LEMMA DeactivateFits ==
  ASSUME Typed, Fit, NEW t \in tasks, Deactivate(t)
  PROVE  Fit' /\ RowsKept /\ \A a \in Slots : row'[a] # row[a] => row'[a].status = "DISABLED"
<1>1. RowsFit /\ row \in [Slots -> EmailAddress \union {NoRow}]
  BY Rows DEF Fit
<1>2. /\ row' = [a \in Slots |-> IF row[a] # NoRow /\ row[a].text = t.text
                               THEN [row[a] EXCEPT !.status = "DISABLED"] ELSE row[a]]
      /\ order' = order /\ loaded' = loaded /\ username' = username /\ person' = person /\ overlaps' = overlaps
      /\ Do(t, {})
  BY DEF Deactivate, copy, trouble
<1>3. ASSUME NEW a \in Slots
      PROVE  /\ row'[a] # row[a] => row'[a].status = "DISABLED"
             /\ row'[a].text = row[a].text /\ (row'[a] # NoRow <=> row[a] # NoRow)
  <2>1. CASE row[a] # NoRow /\ row[a].text = t.text
    <3>1. row[a] \in EmailAddress /\ row'[a] = [row[a] EXCEPT !.status = "DISABLED"]
      BY <1>1, <1>2, <2>1
    <3> QED
      BY <2>1, <3>1 DEF EmailAddress, NoRow
  <2>2. CASE ~(row[a] # NoRow /\ row[a].text = t.text)
    <3>1. row'[a] = row[a]
      BY <1>2, <2>2
    <3> QED
      BY <3>1
  <2> QED
    BY <2>1, <2>2
<1>4. RowsKept
  BY <1>3 DEF RowsKept
<1>5. RowsFit'
  <2>1. \A i \in 1 .. Len(order) : order[i] \in Slots
    BY Rows
  <2>2. \A q \in Sessions : \A i \in 1 .. Len(loaded[q]) : loaded[q][i] \in Slots
    BY Rows
  <2> QED
    BY <1>1, <1>2, <1>3, <2>1, <2>2 DEF RowsFit
<1> QED
  BY <1>2, <1>3, <1>4, <1>5, FitGoesOn

(* Table and handlers fit after each step. *)
LEMMA StepFits ==
  ASSUME Typed, Fit, NEW t \in tasks, Step(t) PROVE Fit'
BY CheckSaveFits, WriteFits, DisableOneFits, ConfirmFits, ReadFits, CallFits, PlanFits, OtherFits, DeactivateFits DEF Step

-----------------------------------------------------------------------------
(* The order of the rows                                                   *)

(* What is before a row stays there when another is updated, *)
LEMMA AheadStays ==
  ASSUME Typed, RowsFit, NEW a \in Slots, row[a] # NoRow, order' = order \/ order' = ToFront(order, a),
         \A c \in Slots : c # a => row'[c] = row[c], Settled(a)' \/ ~Settled(a),
         NEW b \in Slots, b # a, Ahead(b)
  PROVE  Ahead(b)'
<1>1. order \in Seq(Slots) /\ Len(order) \in Nat /\ \A i \in 1 .. Len(order) : order[i] \in Slots
  BY Rows
<1>2. PICK k \in 1 .. Len(order) : order[k] = a
  BY DEF RowsFit
<1>3. \A c \in Slots : Settled(c) => row'[c].status \in {"ENABLED", "DISABLED"}
  BY DEF Settled
<1>4. CASE order' = order
  BY <1>1, <1>3, <1>4 DEF Ahead, Settled
<1>5. CASE order' = ToFront(order, a)
  <2>1. PICK new : new = ToFront(order, a)
    OBVIOUS
  <2>2. order' = new /\ Len(new) = Len(order) /\ new[1] = a /\ Shifts(new, order, a)
    BY <1>1, <1>2, <1>5, <2>1, InFront
  <2>3. PICK p \in 1 .. Len(order) :
             /\ order[p] = a
             /\ \A i \in 1 .. Len(order) : i > 1 /\ i <= p => new[i] = order[i - 1]
             /\ \A i \in 1 .. Len(order) : i > p => new[i] = order[i]
    BY <2>2 DEF Shifts
  <2>4. ASSUME NEW j \in 1 .. Len(order), new[j] = b
        PROVE  \E i \in 1 .. Len(order) : i < j /\ row'[new[i]].status \in {"ENABLED", "DISABLED"}
    <3>1. j > 1 /\ 1 \in 1 .. Len(order)
      BY <1>1, <2>2, <2>4
    <3>2. PICK k1 \in 1 .. Len(order) : order[k1] = b /\ (j <= p => k1 = j - 1) /\ (j > p => k1 = j)
      <4>1. CASE j <= p
        <5>1. j - 1 \in 1 .. Len(order) /\ ~(j > p)
          BY <1>1, <3>1, <4>1
        <5> QED
          BY <2>3, <2>4, <3>1, <4>1, <5>1
      <4>2. CASE j > p
        <5>1. ~(j <= p)
          BY <1>1, <4>2
        <5> QED
          BY <2>3, <2>4, <4>2, <5>1
      <4> QED
        BY <1>1, <4>1, <4>2
    <3>3. PICK i \in 1 .. Len(order) : i < k1 /\ Settled(order[i])
      BY <3>2 DEF Ahead
    <3>4. row'[order[i]].status \in {"ENABLED", "DISABLED"}
      BY <1>1, <1>3, <3>3
    <3>5. CASE order[i] = a
      BY <1>1, <2>2, <3>1, <3>4, <3>5
    <3>6. CASE order[i] # a /\ i < p
      <4>1. i + 1 \in 1 .. Len(order) /\ i + 1 > 1 /\ i + 1 <= p /\ (i + 1) - 1 = i /\ i + 1 < j
        BY <1>1, <3>2, <3>3, <3>6
      <4>2. new[i + 1] = order[i]
        BY <2>3, <4>1
      <4> QED
        BY <3>4, <4>1, <4>2
    <3>7. CASE order[i] # a /\ i > p
      <4>1. new[i] = order[i] /\ i < j
        BY <1>1, <2>3, <3>2, <3>3, <3>7
      <4> QED
        BY <3>4, <4>1
    <3> QED
      BY <1>1, <2>3, <3>5, <3>6, <3>7
  <2> QED
    BY <2>2, <2>4 DEF Ahead, Settled
<1> QED
  BY <1>4, <1>5

(* and one that is updated, and then is valid or was, is before all others. *)
LEMMA AheadFront ==
  ASSUME Typed, RowsFit, NEW a \in Slots, row[a] # NoRow, order' = ToFront(order, a), Settled(a)',
         NEW b \in Slots, b # a
  PROVE  Ahead(b)'
<1>1. order \in Seq(Slots) /\ Len(order) \in Nat /\ \A i \in 1 .. Len(order) : order[i] \in Slots
  BY Rows
<1>2. PICK k \in 1 .. Len(order) : order[k] = a
  BY DEF RowsFit
<1>3. PICK new : new = ToFront(order, a)
  OBVIOUS
<1>4. order' = new /\ Len(new) = Len(order) /\ new[1] = a
  BY <1>1, <1>2, <1>3, InFront
<1>5. 1 \in 1 .. Len(order)
  BY <1>1, <1>2
<1>6. ASSUME NEW j \in 1 .. Len(order), new[j] = b PROVE 1 < j
  BY <1>1, <1>4, <1>6
<1> QED
  BY <1>4, <1>5, <1>6 DEF Ahead, Settled

(* A new row changes nothing of this. *)
LEMMA AheadNew ==
  ASSUME Typed, RowsFit, NEW n \in Slots, row[n] = NoRow, \A c \in Slots : c # n => row'[c] = row[c],
         Len(order') = Len(order) + 1, order'[1] = n, \A i \in 1 .. Len(order) : order'[i + 1] = order[i],
         NEW b \in Slots, b # n, Ahead(b)
  PROVE  Ahead(b)'
<1>1. order \in Seq(Slots) /\ Len(order) \in Nat /\ \A i \in 1 .. Len(order) : order[i] \in Slots
  BY Rows
<1>2. PICK new : new = order'
  OBVIOUS
<1>3. Len(new) = Len(order) + 1 /\ new[1] = n /\ \A i \in 1 .. Len(order) : new[i + 1] = order[i]
  BY <1>2
<1>4. ASSUME NEW j \in 1 .. Len(new), new[j] = b
      PROVE  \E i \in 1 .. Len(new) : i < j /\ row'[new[i]].status \in {"ENABLED", "DISABLED"}
  <2>1. j - 1 \in 1 .. Len(order) /\ (j - 1) + 1 = j
    BY <1>1, <1>3, <1>4
  <2>2. order[j - 1] = b
    BY <1>3, <1>4, <2>1
  <2>3. PICK i \in 1 .. Len(order) : i < j - 1 /\ Settled(order[i])
    BY <2>1, <2>2 DEF Ahead
  <2>4. order[i] # n /\ order[i] \in Slots
    BY <1>1 DEF RowsFit
  <2>5. row'[order[i]].status \in {"ENABLED", "DISABLED"}
    BY <2>3, <2>4 DEF Settled
  <2>6. i + 1 \in 1 .. Len(new) /\ i + 1 < j
    BY <1>1, <1>3, <1>4, <2>1, <2>3
  <2> QED
    BY <1>3, <2>5, <2>6
<1> QED
  BY <1>2, <1>4 DEF Ahead, Settled

(* With no row that is or was valid, nothing is before another. *)
LEMMA NoneAhead ==
  ASSUME Typed, RowsFit, NoneSettled, NEW b \in Slots, row[b] # NoRow
  PROVE  ~Ahead(b)
<1>1. \A i \in 1 .. Len(order) : order[i] \in Slots
  BY Rows
<1>2. PICK k \in 1 .. Len(order) : order[k] = b
  BY DEF RowsFit
<1> QED
  BY <1>1, <1>2 DEF Ahead, NoneSettled

(* The row that was updated last is the one that is taken up. *)
LEMMA DueFront ==
  \A a \in Slots : Typed /\ person.exists /\ order # <<>> /\ order[1] = a /\ row[a].status = "REQUESTED" => Due = a
<1> SUFFICES ASSUME Typed, person.exists, NEW a \in Slots, order # <<>>, order[1] = a, row[a].status = "REQUESTED"
             PROVE  Due = a
  OBVIOUS
<1>1. order \in Seq(Slots) /\ Addresses = order /\ Len(order) \in Nat /\ a # 0
  BY Rows DEF Addresses
<1>2. PICK n : n = FirstOf(order, {"REQUESTED"})
  OBVIOUS
<1>3. Due = n
  BY <1>1, <1>2 DEF Due, Newest
<1>4. 1 \in 1 .. Len(order)
  BY <1>1
<1>5. n # 0
  BY <1>1, <1>2, <1>4, FirstFound
<1>6. PICK k \in 1 .. Len(order) : order[k] = n /\ \A j \in 1 .. Len(order) : j < k => row[order[j]].status # "REQUESTED"
  BY <1>1, <1>2, <1>5, FirstFound
<1>7. ~(1 < k)
  BY <1>4, <1>6
<1>8. k = 1
  BY <1>1, <1>6, <1>7
<1> QED
  BY <1>3, <1>6, <1>8

(* The same after a step. *)
LEMMA DueFrontAfter ==
  (\A a \in Slots : Typed /\ person.exists /\ order # <<>> /\ order[1] = a /\ row[a].status = "REQUESTED" => Due = a)'
BY DueFront, PTL

(* A row can be written with the text it has, *)
LEMMA CanWriteOwn ==
  ASSUME Typed, RowsFit, person.exists, NEW a \in Slots, row[a] # NoRow, NEW m, m.text = row[a].text
  PROVE  CanWrite(a, m)
<1>1. \A b \in Slots : row[b] = NoRow => row[b].text = 0
  BY DEF NoRow
<1> QED
  BY <1>1 DEF CanWrite, RowsFit

(* and a new one with a text that no other has. *)
LEMMA CanWriteNew ==
  ASSUME person.exists, NEW m, m.text # 0, ~HasText(m.text)
  PROVE  CanWrite(0, m)
<1>1. \A b \in Slots : row[b] = NoRow => row[b].text = 0
  BY DEF NoRow
<1> QED
  BY <1>1 DEF CanWrite, HasText

(* Whom a save looks for. *)
LEMMA EnabledOrNot ==
  ASSUME person.exists PROVE Enabled = {} <=> NothingEnabled
BY DEF Enabled, NothingEnabled

(* A row that waits is one that may be taken up. *)
LEMMA WaitsIs ==
  ASSUME Typed, RowsFit, person.exists, NEW b \in Slots, Waits(b)
  PROVE  row[b] # NoRow /\ ~Settled(b) /\ Due # 0
<1>1. row[b].status = "REQUESTED"
  BY DEF Waits
<1>2. {"REQUESTED"} \in SUBSET EmailAddressStatus
  BY DEF EmailAddressStatus
<1>3. Due # 0
  BY <1>1, <1>2, NewestFound DEF Due
<1> QED
  BY <1>1, <1>3 DEF Settled, NoRow

-----------------------------------------------------------------------------
(* An address is enabled                                                   *)

(* A step leaves alone which rows are valid, and which were once. *)
StatusKept ==
  \A a \in Slots : (Settled(a)' <=> Settled(a)) /\ (row'[a].status = "ENABLED" <=> row[a].status = "ENABLED")

(* A handler that changes nothing stays one that does not, *)
LEMMA HarmlessStays ==
  ASSUME RowsKept, StatusKept, person.exists, person'.exists, username' = username,
         NEW u, Used(username[u.q]) => Used(username[u.q])', Harmless(u)
  PROVE  Harmless(u)'
<1>1. Unsettles(u) => Unsettles(u)'
  BY DEF Unsettles, StatusKept
<1>2. Blocked(u) => Blocked(u)'
  BY DEF Blocked, RowsKept
<1>3. DOMAIN u.held \subseteq Enabled => DOMAIN u.held \subseteq Enabled'
  BY DEF Enabled, StatusKept
<1> QED
  BY <1>1, <1>2, <1>3 DEF Harmless, Aside, Gives

(* and so the address stays enabled, and the only one if it is. *)
AfterKept == After' /\ (OneEnabled => OneEnabled')

(* It is enough that what the step leads to changes nothing either. *)
LEMMA AfterGoesOn ==
  ASSUME After, RowsKept, StatusKept, person.exists, person'.exists, username' = username,
         \A u \in tasks : Used(username[u.q]) => Used(username[u.q])',
         \A b \in Slots : Waits(b)' => Ahead(b)',
         NEW t, NEW T, Do(t, T), \A u \in T : Harmless(u)'
  PROVE  AfterKept
<1>1. ASSUME NEW u \in tasks PROVE Harmless(u)'
  BY <1>1, HarmlessStays DEF After
<1>2. NothingEnabled' => NothingEnabled
  BY DEF NothingEnabled, StatusKept
<1>3. OneEnabled => OneEnabled'
  BY DEF OneEnabled, StatusKept
<1> QED
  BY <1>1, <1>2, <1>3 DEF After, AfterKept, Do

(* The same for the steps that leave the table as it is. *)
LEMMA StillKept == Still => RowsKept /\ StatusKept
BY DEF Still, RowsKept, StatusKept, Settled

(* They leave alone, too, which rows wait, and which are ahead of them. *)
LEMMA StillWaits ==
  ASSUME Still, NEW b \in Slots
  PROVE  (Waits(b)' <=> Waits(b)) /\ (Ahead(b)' <=> Ahead(b))
BY DEF Still, Waits, Ahead, Settled

(* So with them only the handlers that follow need to be looked at. *)
LEMMA AfterStill ==
  ASSUME Typed, Fit, overlaps = 0, person.exists, After, Still,
         NEW t \in tasks, Used(username[t.q]) => Used(username[t.q])',
         NEW T, Do(t, T), \A u \in T : u.q = t.q /\ Harmless(u)
  PROVE  AfterKept
<1>1. RowsKept /\ StatusKept /\ person'.exists /\ username' = username
  BY StillKept DEF Still
<1>2. \A u \in tasks : u.q = t.q
  BY DEF Fit, InTurn
<1>3. ASSUME NEW u \in tasks PROVE Used(username[u.q]) => Used(username[u.q])'
  <2>1. u.q = t.q
    BY <1>2
  <2>2. PICK q : q = t.q
    OBVIOUS
  <2>3. Used(username[q]) => Used(username[q])'
    BY <2>2
  <2> QED
    BY <2>1, <2>2, <2>3
<1>4. ASSUME NEW u \in T PROVE Harmless(u)'
  <2>1. u.q = t.q /\ Harmless(u)
    BY <1>4
  <2>2. Used(username[u.q]) => Used(username[u.q])'
    BY <2>1
  <2> QED
    BY <1>1, <2>1, <2>2, HarmlessStays
<1>5. \A b \in Slots : Waits(b)' => Ahead(b)'
  BY StillWaits DEF After
<1> QED
  BY <1>1, <1>3, <1>4, <1>5, AfterGoesOn

(* What a write finds: the row it holds, and whether it is blocked. *)
LEMMA WriteHolds ==
  ASSUME Typed, Fit, NEW t \in tasks, t.at = "write", NEW a \in 0 .. MaxAddresses, DOMAIN t.held = {a}
  PROVE  /\ Shaped(t) /\ HeldFits(t) /\ RowsFit
         /\ StatusFits(t, t.held[a]) /\ t.held[a].text # 0
         /\ a # 0 => a \in Slots /\ row[a] # NoRow
         /\ a # 0 => t.held[a].text = row[a].text \/ (t.for = "confirm" /\ HasText(t.held[a].text))
         /\ t.for \in {"create", "change", "disabled"} => a = 0
         /\ t.for \notin {"create", "change", "disabled", "failed"} => a # 0
         /\ Blocked(t) => ~CanWrite(a, t.held[a])
<1>1. Shaped(t) /\ HeldFits(t) /\ RowsFit
  BY TaskTyped DEF Fit, HandlersFit
<1>2. /\ StatusFits(t, t.held[a]) /\ t.held[a].text # 0
      /\ a # 0 => /\ a \in Slots /\ row[a] # NoRow
                  /\ t.held[a].text = row[a].text \/ (Confirms(t) /\ HasText(t.held[a].text))
      /\ ForNew(t) => a = 0
  BY <1>1 DEF HeldFits
<1>3. t.for \notin {"create", "change", "disabled", "failed"} => a # 0
  BY <1>1 DEF Shaped
<1>4. ASSUME Blocked(t) PROVE ~CanWrite(a, t.held[a])
  <2>1. PICK h \in Slots : row[h] # NoRow /\ h # a /\ row[h].text = t.held[a].text
    BY <1>4 DEF Blocked
  <2> QED
    BY <2>1 DEF CanWrite
<1> QED
  BY <1>1, <1>2, <1>3, <1>4 DEF Confirms, ForNew

(* A write that is refused changes nothing. *)
LEMMA RefusedStill ==
  ASSUME UNCHANGED <<row, order, loaded>>, UNCHANGED <<person, schools, offers, oxUser, keycloak, username, trouble>>
  PROVE  Still /\ UNCHANGED oxUser /\ UNCHANGED trouble
BY DEF Still

(* A row that is added is one of the table. *)
LEMMA NewIsRow ==
  ASSUME Typed, NEW t \in tasks, t.at = "write", DOMAIN t.held = {0}, Create(t.q, t.held[0])
  PROVE  t.held[0] \in EmailAddress
<1>1. Len(order) + 1 \in Slots
  BY DEF Create
<1>2. Len(order) < MaxAddresses
  BY <1>1, Rows, BoundsAssumption DEF Slots
<1>3. t.held[0].text \in Texts
  BY <1>2, TaskTyped, Rows, BoundsAssumption DEF Fits
<1>4. PICK A \in SUBSET (0 .. MaxAddresses) : t.held \in [A -> Mails]
  BY TaskTyped DEF Helds
<1> QED
  BY <1>3, <1>4 DEF Mails, EmailAddress

(* A write adds a row, or changes one. *)
Added(m, n, q) ==
  /\ n \in Slots /\ row[n] = NoRow /\ row'[n] = m /\ \A b \in Slots : b # n => row'[b] = row[b]
  /\ Len(order') = Len(order) + 1 /\ order'[1] = n /\ \A i \in 1 .. Len(order) : order'[i + 1] = order[i]
  /\ loaded' = [loaded EXCEPT ![q] = Append(@, n)]
Changed(m, a) ==
  /\ a \in Slots /\ row[a] # NoRow /\ row'[a] = m /\ m.text = row[a].text
  /\ \A b \in Slots : b # a => row'[b] = row[b]
  /\ (m = row[a] /\ row' = row /\ order' = order) \/ (m # row[a] /\ order' = ToFront(order, a))
  /\ UNCHANGED loaded

(* So it is refused, or one of these two, for the row that is held. *)
Holding1(t, a, m) == a \in 0 .. MaxAddresses /\ DOMAIN t.held = {a} /\ m = t.held[a]

(* Nothing but the table is changed by it. *)
LEMMA WriteDoes ==
  ASSUME Typed, Fit, NEW t \in tasks, Write(t)
  PROVE  /\ t.at = "write" /\ RowsKept /\ UNCHANGED <<person, schools, offers, oxUser, keycloak, username, trouble>>
         /\ \E a, m : /\ Holding1(t, a, m)
                     /\ \/ ~CanWrite(a, m) /\ Still /\ Do(t, {})
                        \/ CanWrite(a, m) /\ a = 0 /\ Do(t, AfterSaved(t)) /\ \E n : Added(m, n, t.q)
                        \/ CanWrite(a, m) /\ a # 0 /\ Do(t, AfterSaved(t)) /\ Changed(m, a)
<1>1. /\ t.at = "write" /\ UNCHANGED <<person, schools, offers, oxUser, keycloak, username, trouble>>
      /\ RowsKept /\ t.q \in Sessions
  BY WriteGoes, WriteFits, TaskTyped
<1>2. PICK a \in 0 .. MaxAddresses :
        /\ DOMAIN t.held = {a}
        /\ a # 0 => a \in Slots /\ t.held[a] \in EmailAddress
        /\ \/ /\ CanWrite(a, t.held[a]) /\ Do(t, AfterSaved(t))
              /\ IF a = 0 THEN Create(t.q, t.held[a]) ELSE Update(a, t.held[a])
           \/ ~CanWrite(a, t.held[a]) /\ Do(t, {}) /\ UNCHANGED <<row, order, loaded>>
  BY WriteGoes
<1>3. PICK m : m = t.held[a]
  OBVIOUS
<1>4. /\ RowsFit /\ m.text # 0
      /\ a # 0 => a \in Slots /\ row[a] # NoRow /\ (m.text = row[a].text \/ HasText(m.text))
  BY <1>1, <1>2, <1>3, WriteHolds
<1>5. Holding1(t, a, m)
  BY <1>2, <1>3 DEF Holding1
<1>6. CASE ~CanWrite(a, m)
  BY <1>1, <1>2, <1>3, <1>5, <1>6, RefusedStill
<1>7. CASE CanWrite(a, m) /\ a = 0
  <2>1. Create(t.q, m) /\ Do(t, AfterSaved(t))
    BY <1>2, <1>3, <1>7
  <2>2. m \in EmailAddress
    BY <1>1, <1>2, <1>3, <1>7, <2>1, NewIsRow
  <2>3. PICK n \in Slots : /\ n = Len(order) + 1 /\ row[n] = NoRow /\ row'[n] = m
                           /\ \A b \in Slots : b # n => row'[b] = row[b]
                           /\ order' = <<n>> \o order /\ order' \in Seq(Slots) /\ Len(order') = Len(order) + 1
                           /\ order'[1] = n /\ \A i \in 1 .. Len(order) : order'[i + 1] = order[i]
                           /\ loaded' = [loaded EXCEPT ![t.q] = Append(@, n)]
    BY <1>1, <1>4, <1>7, <2>1, <2>2, CreateFits
  <2>4. Added(m, n, t.q)
    BY <2>3 DEF Added
  <2> QED
    BY <1>1, <1>5, <1>7, <2>1, <2>4
<1>8. CASE CanWrite(a, m) /\ a # 0
  <2>1. Update(a, m) /\ Do(t, AfterSaved(t)) /\ m \in EmailAddress
    BY <1>2, <1>3, <1>8
  <2>2. Changed(m, a)
    BY <1>4, <1>8, <2>1, UpdateFits DEF Changed
  <2> QED
    BY <1>1, <1>5, <1>8, <2>1, <2>2
<1> QED
  BY <1>6, <1>7, <1>8

(* A new row is neither valid nor in anyone's way, *)
LEMMA AddedKept ==
  ASSUME Typed, RowsFit, NEW m, NEW n, NEW q, Added(m, n, q), m.status \in {"REQUESTED", "FAILED"},
         m.status = "REQUESTED" => m.ox = 0
  PROVE  /\ StatusKept
         /\ \A b \in Slots : Waits(b)' => b # n /\ Waits(b)
         /\ \A b \in Slots : Waits(b)' /\ Ahead(b) => Ahead(b)'
<1>1. StatusKept
  BY DEF Added, StatusKept, Settled, NoRow
<1>2. ASSUME NEW b \in Slots, Waits(b)' PROVE b # n /\ Waits(b)
  BY <1>2 DEF Added, Waits
<1>3. ASSUME NEW b \in Slots, Waits(b)', Ahead(b) PROVE Ahead(b)'
  BY <1>2, <1>3, AheadNew DEF Added
<1> QED
  BY <1>1, <1>2, <1>3

(* and a row that is changed is not in the way of one that waits, *)
LEMMA ChangedKept ==
  ASSUME Typed, RowsFit, NEW m, NEW a, Changed(m, a), Settled(a)' \/ ~Settled(a), NEW b \in Slots, b # a
  PROVE  /\ Waits(b)' <=> Waits(b)
         /\ Ahead(b) => Ahead(b)'
         /\ Settled(a)' /\ m # row[a] => Ahead(b)'
<1>1. a \in Slots /\ row[a] # NoRow /\ \A c \in Slots : c # a => row'[c] = row[c]
  BY DEF Changed
<1>2. order' = order \/ order' = ToFront(order, a)
  BY DEF Changed
<1>3. Waits(b)' <=> Waits(b)
  BY <1>1 DEF Waits
<1>4. Ahead(b) => Ahead(b)'
  BY <1>1, <1>2, AheadStays
<1>5. Settled(a)' /\ m # row[a] => Ahead(b)'
  BY <1>1, AheadFront DEF Changed
<1> QED
  BY <1>3, <1>4, <1>5

(* A save changes nothing, gives up a row, or enables what is enabled. *)
LEMMA AfterWrite ==
  ASSUME Typed, Fit, overlaps = 0, person.exists, After, NEW t \in tasks, Write(t)
  PROVE  AfterKept
<1>1. t.at = "write" /\ RowsKept /\ UNCHANGED <<person, schools, offers, oxUser, keycloak, username, trouble>>
  BY WriteDoes
<1>2. PICK a, m : /\ Holding1(t, a, m)
                  /\ \/ ~CanWrite(a, m) /\ Still /\ Do(t, {})
                     \/ CanWrite(a, m) /\ a = 0 /\ Do(t, AfterSaved(t)) /\ \E n : Added(m, n, t.q)
                     \/ CanWrite(a, m) /\ a # 0 /\ Do(t, AfterSaved(t)) /\ Changed(m, a)
  BY WriteDoes
<1>3. /\ Shaped(t) /\ RowsFit /\ StatusFits(t, m)
      /\ t.for = "create" => a = 0
      /\ Blocked(t) => ~CanWrite(a, m)
  BY <1>1, <1>2, WriteHolds DEF Holding1
<1>4. \/ t.for \in {"enable", "confirm"} /\ (Blocked(t) \/ DOMAIN t.held \subseteq Enabled)
      \/ t.for \in {"create", "failed"} /\ Unsettles(t)
  BY <1>1 DEF After, Harmless, Aside, Gives
<1>5. ASSUME NEW u \in AfterSaved(t) PROVE u.at \in {"school", "create"}
  <2>1. Continues(u, t)
    BY <1>1, <1>5, AfterSavedIs
  <2> QED
    BY <1>4, <2>1 DEF Continues, Started1
<1>6. ASSUME NEW u \in AfterSaved(t) PROVE Harmless(u)'
  BY <1>5, <1>6 DEF Harmless
<1>7. \A u \in tasks : Used(username[u.q]) => Used(username[u.q])'
  BY <1>1 DEF Used
<1>8. CASE ~CanWrite(a, m)
  <2>1. Still /\ Do(t, {}) /\ (Used(username[t.q]) => Used(username[t.q])')
    BY <1>2, <1>7, <1>8
  <2> QED
    BY <2>1, AfterStill
<1>9. CASE CanWrite(a, m) /\ a = 0
  <2>1. m.status \in {"REQUESTED", "FAILED"} /\ (m.status = "REQUESTED" => m.ox = 0)
    BY <1>1, <1>2, <1>3, <1>4, <1>9 DEF StatusFits, Holding1, Shaped
  <2>2. PICK n : Added(m, n, t.q)
    BY <1>2, <1>9
  <2>3. StatusKept /\ \A b \in Slots : Waits(b)' => Ahead(b)'
    BY <1>3, <2>1, <2>2, AddedKept DEF After
  <2> QED
    BY <1>1, <1>2, <1>6, <1>7, <1>9, <2>3, AfterGoesOn
<1>10. CASE CanWrite(a, m) /\ a # 0
  <2>1. Changed(m, a) /\ a \in Slots
    BY <1>2, <1>10 DEF Changed
  <2>2. \/ row[a].status = "ENABLED" /\ m.status = "ENABLED"
        \/ ~Settled(a) /\ m.status = "FAILED"
    BY <1>1, <1>2, <1>3, <1>4, <1>10, <2>1 DEF StatusFits, Holding1, Unsettles, Enabled
  <2>3. StatusKept
    BY <2>1, <2>2 DEF Changed, StatusKept, Settled
  <2>4. ASSUME NEW b \in Slots, Waits(b)' PROVE Ahead(b)'
    <3>1. b # a
      BY <2>1, <2>2, <2>4 DEF Waits, Changed
    <3>2. Settled(a)' \/ ~Settled(a)
      BY <2>1, <2>3, Zenon DEF StatusKept
    <3> QED
      BY <1>3, <2>1, <2>4, <3>1, <3>2, ChangedKept DEF After
  <2> QED
    BY <1>1, <1>2, <1>6, <1>7, <1>10, <2>3, <2>4, AfterGoesOn
<1> QED
  BY <1>8, <1>9, <1>10

(* Which step a handler takes is told by where it is. *)
LEMMA StepAt ==
  ASSUME NEW t \in tasks, Step(t)
  PROVE  /\ t.at = "save" => CheckSave(t)
         /\ t.at = "write" => Write(t)
         /\ t.at = "person" => HandlePerson(t)
         /\ t.at = "school" => CreateOrEnable(t)
         /\ t.at = "generate" => Generate(t)
         /\ t.at = "without" => DisableRead(t)
         /\ t.at = "disable" => DisableOne(t) \/ DisableDone(t)
         /\ t.at = "renamed" => HandleRenamed(t)
         /\ t.at = "renamedWith" => RenamedWith(t)
         /\ t.at = "renamedWithout" => RenamedWithout(t)
         /\ t.at = "confirm" => Confirm(t)
         /\ t.at = "confirmDisabled" => ConfirmDisabled(t)
         /\ t.at = "deactivate" => Deactivate(t)
         /\ t.at = "create" => CreateRead(t)
         /\ t.at = "exists" => CreateExists(t)
         /\ t.at = "oxCreate" => CreateUser(t)
         /\ t.at = "alreadyExists" => AlreadyExists(t)
         /\ t.at = "join" => Join(t)
         /\ t.at = "change" => ChangeRead(t)
         /\ t.at = "oxChange" => ChangeUser(t)
         /\ t.at = "deleted" => DeletedInOx(t)
         /\ t.at \in SideSteps =>
              LeaveRead(t) \/ DisabledInOx(t) \/ ListGroups(t) \/ Leave(t) \/ LeaveDone(t) \/ KeycloakUnset(t)
         /\ t.at = "retire" => Retire(t)
         /\ t.at = "keycloakSet" => KeycloakSet(t)
         /\ t.at = "deleteRow" => DeleteRow(t)
BY DEF Step, At, CheckSave, Write, HandlePerson, CreateOrEnable, Generate, DisableRead, DisableOne, DisableDone,
       HandleRenamed, RenamedWith, RenamedWithout, Confirm, ConfirmDisabled, Deactivate, CreateRead, CreateExists,
       CreateUser, AlreadyExists, Join, ChangeRead, ChangeUser, LeaveRead, DisabledInOx, DeletedInOx, ListGroups,
       Leave, LeaveDone, Retire, KeycloakSet, KeycloakUnset, DeleteRow, SideSteps

(* The handlers that take a member out of the groups do only that. *)
LEMMA AsideGoes ==
  ASSUME Typed, NEW t \in tasks, Step(t), Aside(t)
  PROVE  Still /\ UNCHANGED oxUser /\ \E T : Do(t, T) /\ \A u \in T : u.q = t.q /\ Aside(u)
<1>1. t.at \in SideSteps /\ t.at \in {"leaveRead", "leave"} /\ t.for # "deleted"
  BY DEF Aside, SideSteps
<1>2. LeaveRead(t) \/ DisabledInOx(t) \/ ListGroups(t) \/ Leave(t) \/ LeaveDone(t) \/ KeycloakUnset(t)
  BY <1>1, StepAt
<1>3. Still /\ UNCHANGED oxUser /\ \E T : Do(t, T) /\ \A u \in T : Aways(u, t)
  BY <1>2, SideStepGoes
<1>4. PICK T : Do(t, T) /\ \A u \in T : Aways(u, t)
  BY <1>3
<1>5. \A u \in T : u.q = t.q /\ Aside(u)
  BY <1>1, <1>4 DEF Aways, Aside
<1> QED
  BY <1>3, <1>4, <1>5

(* Every step leaves the enabled address as it is. *)
LEMMA AfterStep ==
  ASSUME Typed, Fit, overlaps = 0, person.exists, After, NEW t \in tasks, Step(t)
  PROVE  AfterKept
<1>1. Harmless(t) /\ Shaped(t) /\ Enabled # {}
  BY TaskTyped, EnabledOrNot DEF After
<1>2. ASSUME Still, Used(username[t.q]) => Used(username[t.q])', NEW T, Do(t, T), \A u \in T : u.q = t.q /\ Harmless(u)
      PROVE  AfterKept
  BY <1>2, AfterStill
<1>3. UNCHANGED oxUser /\ Still => (Used(username[t.q]) => Used(username[t.q])')
  BY DEF Used, Still
<1>4. ASSUME Nothing, NEW T, Do(t, T), \A u \in T : u.q = t.q /\ Harmless(u) PROVE AfterKept
  BY <1>2, <1>3, <1>4, NothingStill
<1>18. ASSUME Still, UNCHANGED oxUser, Do(t, {}) PROVE AfterKept
  BY <1>2, <1>3, <1>18
<1>19. ASSUME Still, UNCHANGED oxUser, NEW u, Do(t, {u}), u.q = t.q, Harmless(u) PROVE AfterKept
  BY <1>2, <1>3, <1>19
<1>5. CASE Aside(t)
  <2>1. PICK T : Do(t, T) /\ \A u \in T : u.q = t.q /\ Aside(u)
    BY <1>5, AsideGoes
  <2>2. \A u \in T : u.q = t.q /\ Harmless(u)
    BY <2>1 DEF Harmless
  <2>3. Still /\ UNCHANGED oxUser
    BY <1>5, AsideGoes
  <2> QED
    BY <1>2, <1>3, <2>1, <2>2, <2>3
<1>6. CASE t.at = "school"
  <2>1. CreateOrEnable(t)
    BY <1>6, StepAt
  <2>2. PICK T : /\ Do(t, T)
                 /\ \A u \in T :
                      \/ Started1(u, t, "alreadyExists") \/ Started1(u, t, "school")
                      \/ Started1(u, t, "generate") /\ u.for = "create" /\ Newest({"ENABLED", "DISABLED"}) = 0
                      \/ /\ u.q = t.q /\ u.at = "save" /\ u.for = "enable"
                         /\ LET a == Newest({"ENABLED", "DISABLED"}) IN
                            /\ a # 0 /\ row[a].status = "DISABLED"
                            /\ DOMAIN u.held = {a} /\ u.held[a] = [row[a] EXCEPT !.status = "ENABLED"]
    BY <2>1, CreateOrEnableGoes
  <2>3. \A u \in T : u.q = t.q /\ Harmless(u)
    BY <2>2 DEF Started1, Harmless
  <2> QED
    BY <1>4, <2>1, <2>2, <2>3, CreateOrEnableGoes
<1>7. CASE t.at = "alreadyExists"
  <2>1. AlreadyExists(t)
    BY <1>7, StepAt
  <2>2. Still /\ UNCHANGED oxUser
    BY <2>1, AlreadyExistsGoes, NothingStill
  <2>3. Do(t, {}) \/ \E u : Do(t, {u}) /\ Started1(u, t, "join")
    BY <1>7, <2>1, AlreadyExistsGoes
  <2>4. CASE Do(t, {})
    BY <1>18, <2>2, <2>4
  <2>5. ASSUME NEW u, Do(t, {u}), Started1(u, t, "join") PROVE AfterKept
    <3>1. u.q = t.q /\ Harmless(u)
      BY <2>5 DEF Started1, Harmless, Gives
    <3> QED
      BY <1>19, <2>2, <2>5, <3>1
  <2> QED
    BY <2>3, <2>4, <2>5
<1>8. CASE t.at = "create"
  <2>1. CreateRead(t)
    BY <1>8, StepAt
  <2>2. PICK a : a = Due
    OBVIOUS
  <2>3. CASE a = 0 /\ Do(t, {})
    BY <1>18, <2>1, <2>2, <2>3, CreateReadGoes, NothingStill
  <2>4. CASE a # 0
    <3>1. PICK u : Do(t, {u}) /\ Reads(u, t, a)
      BY <2>1, <2>2, <2>4, CreateReadGoes
    <3>2. row[a].status = "REQUESTED"
      BY <2>2, <2>4, NewestRequested
    <3>3. u.q = t.q /\ Harmless(u)
      BY <3>1, <3>2 DEF Harmless, Unsettles, Settled, Reads
    <3> QED
      BY <1>19, <2>1, <2>2, <3>1, <3>3, CreateReadGoes, NothingStill
  <2> QED
    BY <2>1, <2>2, <2>3, <2>4, CreateReadGoes
<1>9. CASE t.at = "generate" /\ t.for = "create"
  <2>1. Generate(t)
    BY <1>9, StepAt
  <2>2. PICK u : /\ Do(t, {u}) /\ u.q = t.q /\ DOMAIN u.held = {0}
                 /\ (u.at = "save" /\ u.for = t.for) \/ (u.at = "write" /\ u.for = "failed")
    BY <2>1, GenerateGoes
  <2>3. Harmless(u)
    BY <1>9, <2>2, Rows DEF Harmless, Unsettles
  <2> QED
    BY <1>2, <1>3, <2>1, <2>2, <2>3, GenerateGoes
<1>10. CASE t.at = "exists" /\ Used(username[t.q])
  <2>1. CreateExists(t)
    BY <1>10, StepAt
  <2>2. Nothing /\ Do(t, {})
    BY <1>10, <2>1, CreateExistsGoes
  <2> QED
    BY <1>4, <2>2
<1>11. CASE t.at = "exists" /\ ~Used(username[t.q])
  <2>1. CreateExists(t)
    BY <1>11, StepAt
  <2>2. PICK u : Do(t, {u}) /\ u.q = t.q /\ u.at = "oxCreate" /\ u.held = t.held /\ u.todo = t.todo
    BY <1>11, <2>1, CreateExistsGoes
  <2>3. Unsettles(t)
    BY <1>1, <1>11 DEF Harmless, Aside, Gives
  <2>4. Harmless(u)
    BY <2>2, <2>3 DEF Harmless, Unsettles
  <2> QED
    BY <1>4, <2>1, <2>2, <2>4, CreateExistsGoes
<1>12. CASE t.at = "oxCreate"
  <2>1. CreateUser(t)
    BY <1>12, StepAt
  <2>2. Unsettles(t)
    BY <1>1, <1>12 DEF Harmless, Aside, Gives
  <2>3. PICK u : /\ Do(t, {u}) /\ u.q = t.q /\ DOMAIN u.held = DOMAIN t.held
                 /\ (u.at = "save" /\ u.for = "oxid") \/ (u.at = "write" /\ u.for = "failed")
    BY <2>1, CreateUserGoes DEF Fails
  <2>4. Harmless(u)
    BY <2>2, <2>3 DEF Harmless, Unsettles
  <2>5. Still /\ (Used(username[t.q]) => Used(username[t.q])')
    BY <1>3, <2>1, CreateUserGoes
  <2> QED
    BY <1>2, <2>3, <2>4, <2>5
<1>13. CASE t.at = "join" /\ t.held = <<>>
  <2>1. Join(t)
    BY <1>13, StepAt
  <2>2. Still /\ UNCHANGED oxUser
    BY <2>1, JoinGoes, NothingStill
  <2>3. Do(t, {}) \/ \E u : Do(t, {u}) /\ Started1(u, t, "keycloakSet")
    BY <1>13, <2>1, JoinGoes
  <2>4. CASE Do(t, {})
    BY <1>18, <2>2, <2>4
  <2>5. ASSUME NEW u, Do(t, {u}), Started1(u, t, "keycloakSet") PROVE AfterKept
    <3>1. u.q = t.q /\ Harmless(u)
      BY <2>5 DEF Started1, Harmless, Gives
    <3> QED
      BY <1>19, <2>2, <2>5, <3>1
  <2> QED
    BY <2>3, <2>4, <2>5
<1>14. CASE t.at = "keycloakSet"
  <2>1. KeycloakSet(t)
    BY <1>14, StepAt
  <2>2. Still /\ UNCHANGED oxUser
    BY <2>1, KeycloakSetGoes, NothingStill
  <2>3. Do(t, {}) \/ \E u : Do(t, {u}) /\ Started1(u, t, "confirm")
    BY <1>14, <2>1, KeycloakSetGoes
  <2>4. CASE Do(t, {})
    BY <1>18, <2>2, <2>4
  <2>5. ASSUME NEW u, Do(t, {u}), Started1(u, t, "confirm") PROVE AfterKept
    <3>1. u.q = t.q /\ Harmless(u)
      BY <2>5 DEF Started1, Harmless, Gives
    <3> QED
      BY <1>19, <2>2, <2>5, <3>1
  <2> QED
    BY <2>3, <2>4, <2>5
<1>15. CASE t.at = "confirm"
  <2>1. Confirm(t)
    BY <1>15, StepAt
  <2>2. PICK a : a = Due
    OBVIOUS
  <2>3. Nothing /\ (Do(t, {}) \/ \E u : Do(t, {u}) /\ TakesUp(u, t, a))
    BY <2>1, <2>2, ConfirmGoes
  <2>4. CASE Do(t, {})
    BY <1>18, <2>3, <2>4, NothingStill
  <2>5. ASSUME NEW u, Do(t, {u}), TakesUp(u, t, a) PROVE AfterKept
    <3>1. u.q = t.q /\ Harmless(u)
      BY <2>5 DEF TakesUp, Harmless
    <3> QED
      BY <1>19, <2>3, <2>5, <3>1, NothingStill
  <2> QED
    BY <2>3, <2>4, <2>5
<1>16. CASE t.at = "save"
  <2>1. CheckSave(t)
    BY <1>16, StepAt
  <2>2. t.for \in {"enable", "confirm", "create"} \/ (t.for = "oxid" /\ Unsettles(t))
    BY <1>1, <1>16 DEF Harmless, Aside, Gives
  <2>3. CASE t.for \in {"enable", "create"}
    <3>1. PICK T : Do(t, T) /\ \A u \in T : Started1(u, t, "school")
      BY <1>1, <2>1, <2>3, CheckSaveGoes
    <3>2. \A u \in T : u.q = t.q /\ Harmless(u)
      BY <3>1 DEF Started1, Harmless
    <3> QED
      BY <1>4, <2>1, <3>1, <3>2, CheckSaveGoes
  <2>4. CASE t.for = "confirm"
    <3>1. Do(t, {})
      BY <1>1, <2>1, <2>4, CheckSaveGoes
    <3> QED
      BY <1>4, <2>1, <3>1, CheckSaveGoes
  <2>5. CASE t.for = "oxid" /\ Unsettles(t)
    <3>1. PICK u : Do(t, {u}) /\ Fails(u, t)
      BY <1>1, <2>1, <2>5, CheckSaveGoes
    <3>2. u.q = t.q /\ Harmless(u)
      BY <2>5, <3>1 DEF Fails, Harmless, Unsettles
    <3> QED
      BY <1>4, <2>1, <3>1, <3>2, CheckSaveGoes
  <2> QED
    BY <2>2, <2>3, <2>4, <2>5
<1>17. CASE t.at = "write"
  BY <1>17, StepAt, AfterWrite
<1> QED
  BY <1>1, <1>5, <1>6, <1>7, <1>8, <1>9, <1>10, <1>11, <1>12, <1>13, <1>14, <1>15, <1>16, <1>17
     DEF Harmless, Gives

-----------------------------------------------------------------------------
(* An address is to be enabled again                                       *)

(* Until a handler has enabled it. *)
BeforeKept == OneEnabled' /\ (Before' \/ After')

(* As long as the table stays, the newest rows are the same. *)
LEMMA StillNewest ==
  ASSUME Still PROVE /\ Newest({"ENABLED", "DISABLED"})' = Newest({"ENABLED", "DISABLED"})
                     /\ Due' = Due
BY DEF Still, Due, Newest, FirstOf, Addresses

(* Nothing is enabled, which is not more than one. *)
LEMMA NoneIsOne == NothingEnabled => OneEnabled
BY DEF NothingEnabled, OneEnabled

(* A handler that enables an address again goes on to, when the table stays. *)
LEMMA EnablesStill ==
  ASSUME Still, NEW u, Enables1(u) PROVE Enables1(u)'
<1>1. Blocked(u) => Blocked(u)'
  BY DEF Blocked, Still
<1>2. loaded' = loaded /\ order' = order /\ row' = row
  BY DEF Still
<1>3. Newest({"ENABLED", "DISABLED"})' = Newest({"ENABLED", "DISABLED"})
  BY StillNewest
<1> QED
  BY <1>1, <1>2, <1>3 DEF Enables1, Aside, Gives, Confirms

(* So a step that leaves the table as it is only has to lead to such handlers. *)
LEMMA BeforeStill ==
  ASSUME Before, Still, NEW t \in tasks, NEW T, Do(t, T), \A u \in T : Enables1(u)
  PROVE  BeforeKept
<1>1. \A u : Enables1(u) => Enables1(u)'
  BY EnablesStill
<1>2. NothingEnabled' /\ ~NoneSettled'
  BY DEF Before, Still, NothingEnabled, NoneSettled, Settled
<1>3. \A b \in Slots : Waits(b)' => Ahead(b)'
  BY StillWaits DEF Before
<1>4. Before'
  BY <1>1, <1>2, <1>3 DEF Before, Do
<1>5. OneEnabled'
  BY <1>2 DEF NothingEnabled, OneEnabled
<1> QED
  BY <1>4, <1>5 DEF BeforeKept

(* The copy of the person names the newest row when there is no address. *)
LEMMA CopiedText ==
  ASSUME Typed, Fit, NEW q \in Sessions, OxUserId(q) # 0
  PROVE  LET seq == loaded[q] IN
         /\ seq # <<>> /\ seq[1] \in Slots /\ row[seq[1]] # NoRow
         /\ \/ EmailOf(seq) = row[seq[1]].text /\ (\A i \in 1 .. Len(seq) : row[seq[i]].status # "ENABLED")
            \/ \E a \in Slots : row[a].status = "ENABLED" /\ EmailOf(seq) = row[a].text
         /\ row[seq[1]].status = "REQUESTED" => Waits(seq[1])
<1>1. PICK seq : seq = loaded[q]
  OBVIOUS
<1>2. seq \in Seq(Slots) /\ \A i \in 1 .. Len(seq) : row[seq[i]] # NoRow
  BY <1>1, Rows DEF Fit, RowsFit
<1>3. PICK a : a = FirstOf(seq, EmailAddressStatus \ {"FAILED"})
  OBVIOUS
<1>4. a # 0 /\ row[a].ox # 0
  BY <1>1, <1>3 DEF OxUserId
<1>5. PICK k \in 1 .. Len(seq) :
        /\ seq[k] = a /\ \A j \in 1 .. Len(seq) : j < k => row[seq[j]].status \notin EmailAddressStatus \ {"FAILED"}
  BY <1>2, <1>3, <1>4, FirstFound
<1>6. Len(seq) \in Nat /\ 1 \in 1 .. Len(seq) /\ seq # <<>> /\ seq[1] \in Slots
  BY <1>2, <1>5
<1>7. ASSUME row[seq[1]].status = "REQUESTED" PROVE Waits(seq[1])
  <2>1. ~(1 < k)
    BY <1>5, <1>6, <1>7 DEF EmailAddressStatus
  <2>2. seq[1] = a
    BY <1>5, <1>6, <2>1
  <2> QED
    BY <1>4, <1>7, <2>2 DEF Waits
<1>11. PICK S : S = {"ENABLED"}
  OBVIOUS
<1>8. PICK e : e = FirstOf(seq, S)
  OBVIOUS
<1>9. CASE e = 0
  <2>1. EmailOf(seq) = row[Head(seq)].text
    BY <1>6, <1>8, <1>9, <1>11 DEF EmailOf
  <2>4. \A i \in 1 .. Len(seq) : row[seq[i]].status \notin S
    BY <1>2, <1>8, <1>9, FirstFound
  <2>2. \A i \in 1 .. Len(seq) : row[seq[i]].status # "ENABLED"
    BY <1>11, <2>4
  <2>3. Head(seq) = seq[1]
    BY <1>2, <1>6
  <2> QED
    BY <1>1, <1>2, <1>6, <1>7, <2>1, <2>2, <2>3
<1>10. CASE e # 0
  <2>1. EmailOf(seq) = row[e].text
    BY <1>8, <1>10, <1>11 DEF EmailOf
  <2>2. e \in Slots /\ row[e].status = "ENABLED"
    BY <1>2, <1>8, <1>10, <1>11, FirstFound
  <2> QED
    BY <1>1, <1>2, <1>6, <1>7, <2>1, <2>2
<1> QED
  BY <1>9, <1>10

(* What is written then: the row is enabled, or another is in the way. *)
LEMMA BeforeWrite ==
  ASSUME Typed, Fit, overlaps = 0, person.exists, Before, NEW t \in tasks, Write(t)
  PROVE  BeforeKept
<1>1. t.at = "write" /\ RowsKept /\ UNCHANGED <<person, schools, offers, oxUser, keycloak, username, trouble>>
  BY WriteDoes
<1>2. PICK a, m : /\ Holding1(t, a, m)
                  /\ \/ ~CanWrite(a, m) /\ Still /\ Do(t, {})
                     \/ CanWrite(a, m) /\ a = 0 /\ Do(t, AfterSaved(t)) /\ \E n : Added(m, n, t.q)
                     \/ CanWrite(a, m) /\ a # 0 /\ Do(t, AfterSaved(t)) /\ Changed(m, a)
  BY WriteDoes
<1>3. /\ Shaped(t) /\ RowsFit /\ StatusFits(t, m)
      /\ a # 0 => a \in Slots /\ row[a] # NoRow
      /\ t.for \notin {"create", "change", "disabled", "failed"} => a # 0
      /\ a # 0 => m.text = row[a].text \/ (t.for = "confirm" /\ HasText(m.text))
      /\ Blocked(t) => ~CanWrite(a, m)
  BY <1>1, <1>2, WriteHolds DEF Holding1
<1>4. CASE ~CanWrite(a, m)
  BY <1>2, <1>4, BeforeStill
<1>5. CASE CanWrite(a, m)
  <2>1. t.for = "enable" /\ Newest({"ENABLED", "DISABLED"}) \in DOMAIN t.held /\ loaded[t.q] = order
    BY <1>1, <1>3, <1>5 DEF Before, Enables1, Aside, Gives, Confirms
  <2>2. Changed(m, a) /\ a # 0 /\ Do(t, AfterSaved(t)) /\ DOMAIN t.held = {a} /\ a \in Slots
    BY <1>2, <1>3, <1>5, <2>1 DEF Holding1
  <2>3. m.status = "ENABLED" /\ row[a].status # "ENABLED" /\ Newest({"ENABLED", "DISABLED"}) = a
    BY <1>1, <1>3, <2>1, <2>2 DEF StatusFits, Before, NothingEnabled
  <2>4. m # row[a] /\ row'[a] = m /\ \A b \in Slots : b # a => row'[b] = row[b]
    BY <2>2, <2>3 DEF Changed
  <2>5. Settled(a)' /\ \A b \in Slots : row'[b].status = "ENABLED" => b = a
    BY <2>2, <2>3, <2>4 DEF Settled, Before, NothingEnabled
  <2>6. ASSUME NEW b \in Slots, Waits(b)' PROVE Ahead(b)'
    <3>1. b # a
      BY <2>3, <2>4, <2>6 DEF Waits
    <3> QED
      BY <1>3, <2>2, <2>4, <2>5, <3>1, ChangedKept
  <2>7. ASSUME NEW u \in tasks PROVE Harmless(u)'
    <3>1. Enables1(u) /\ Shaped(u)
      BY <2>7, TaskTyped DEF Before
    <3>2. ASSUME u.at \in {"save", "write"}, u.for = "enable", a \in DOMAIN u.held PROVE Harmless(u)'
      <4>1. DOMAIN u.held = {a}
        BY <3>1, <3>2 DEF Shaped, HoldsOne
      <4>2. a \in Enabled'
        BY <1>1, <2>2, <2>3, <2>4 DEF Enabled
      <4> QED
        BY <3>2, <4>1, <4>2 DEF Harmless
    <3>3. ASSUME Confirms(u), Blocked(u) PROVE Harmless(u)'
      <4>1. Blocked(u)'
        BY <1>1, <3>3 DEF Blocked, RowsKept
      <4> QED
        BY <3>3, <4>1 DEF Harmless, Confirms
    <3> QED
      BY <2>3, <3>1, <3>2, <3>3 DEF Enables1, Harmless, Aside, Gives
  <2>8. ASSUME NEW u \in AfterSaved(t) PROVE Harmless(u)'
    <3>1. Continues(u, t)
      BY <1>1, <2>8, AfterSavedIs
    <3>2. u.at \in {"school", "create"}
      BY <2>1, <3>1 DEF Continues, Started1
    <3> QED
      BY <3>2 DEF Harmless
  <2>9. OneEnabled' /\ ~NothingEnabled'
    BY <2>2, <2>3, <2>4, <2>5 DEF OneEnabled, NothingEnabled
  <2> QED
    BY <2>2, <2>6, <2>7, <2>8, <2>9 DEF BeforeKept, After, Do
<1> QED
  BY <1>4, <1>5

(* Every step leads on to the one that enables the address. *)
LEMMA BeforeStep ==
  ASSUME Typed, Fit, overlaps = 0, person.exists, Before, NEW t \in tasks, Step(t)
  PROVE  BeforeKept
<1>1. Enables1(t) /\ Shaped(t) /\ Enabled = {} /\ t.q \in Sessions
  BY TaskTyped, EnabledOrNot DEF Before
<1>2. ASSUME Still, NEW T, Do(t, T), \A u \in T : Enables1(u) PROVE BeforeKept
  BY <1>2, BeforeStill
<1>3. ASSUME Still, Do(t, {}) PROVE BeforeKept
  BY <1>3, BeforeStill
<1>4. ASSUME Still, NEW u, Do(t, {u}), Enables1(u) PROVE BeforeKept
  BY <1>4, BeforeStill
<1>5. CASE Aside(t)
  <2>1. PICK T : Do(t, T) /\ \A u \in T : u.q = t.q /\ Aside(u)
    BY <1>5, AsideGoes
  <2>2. \A u \in T : Enables1(u)
    BY <2>1 DEF Enables1
  <2> QED
    BY <1>2, <1>5, <2>1, <2>2, AsideGoes
<1>6. CASE t.at = "school" /\ loaded[t.q] = order
  <2>1. CreateOrEnable(t)
    BY <1>6, StepAt
  <2>2. PICK a : a = Newest({"ENABLED", "DISABLED"})
    OBVIOUS
  <2>3. a # 0
    <3>1. {"ENABLED", "DISABLED"} \in SUBSET EmailAddressStatus
      BY DEF EmailAddressStatus
    <3> QED
      BY <2>2, <3>1, NewestFound DEF Fit, Before, NoneSettled, Settled
  <2>4. PICK T : /\ Do(t, T)
                 /\ \A u \in T :
                      \/ Started1(u, t, "alreadyExists") \/ Started1(u, t, "school")
                      \/ Started1(u, t, "generate") /\ u.for = "create" /\ Newest({"ENABLED", "DISABLED"}) = 0
                      \/ /\ u.q = t.q /\ u.at = "save" /\ u.for = "enable"
                         /\ LET c == Newest({"ENABLED", "DISABLED"}) IN
                            /\ c # 0 /\ row[c].status = "DISABLED"
                            /\ DOMAIN u.held = {c} /\ u.held[c] = [row[c] EXCEPT !.status = "ENABLED"]
    BY <2>1, CreateOrEnableGoes
  <2>5. \A u \in T : \/ Started1(u, t, "alreadyExists") \/ Started1(u, t, "school")
                     \/ u.q = t.q /\ u.at = "save" /\ u.for = "enable" /\ DOMAIN u.held = {a}
    BY <2>2, <2>3, <2>4
  <2>6. \A u \in T : Enables1(u)
    BY <1>6, <2>2, <2>5 DEF Started1, Enables1
  <2> QED
    BY <1>2, <2>1, <2>4, <2>6, CreateOrEnableGoes, NothingStill
<1>7. CASE t.at = "alreadyExists" /\ loaded[t.q] = order
  <2>1. AlreadyExists(t)
    BY <1>7, StepAt
  <2>2. /\ Still
        /\ \/ Do(t, {})
           \/ /\ person.exists /\ OxUserId(t.q) # 0
              /\ \E u : Do(t, {u}) /\ Started1(u, t, "join") /\ u.todo = t.todo /\ u.text = EmailOf(loaded[t.q])
    BY <2>1, AlreadyExistsGoes, NothingStill
  <2>3. CASE Do(t, {})
    BY <1>3, <2>2, <2>3
  <2>4. ASSUME OxUserId(t.q) # 0, NEW u, Do(t, {u}), Started1(u, t, "join"), u.text = EmailOf(loaded[t.q])
        PROVE  BeforeKept
    <3>1. PICK seq : seq = loaded[t.q]
      OBVIOUS
    <3>2. /\ seq # <<>> /\ seq[1] \in Slots /\ row[seq[1]] # NoRow
          /\ \/ EmailOf(seq) = row[seq[1]].text
             \/ \E a \in Slots : row[a].status = "ENABLED" /\ EmailOf(seq) = row[a].text
          /\ row[seq[1]].status = "REQUESTED" => Waits(seq[1])
      BY <1>1, <2>4, <3>1, CopiedText
    <3>3. u.text = row[seq[1]].text
      BY <2>4, <3>1, <3>2 DEF Before, NothingEnabled
    <3>4. PICK h : h = seq[1]
      OBVIOUS
    <3>5. ASSUME Waits(h) PROVE FALSE
      <4>1. Ahead(h)
        BY <3>2, <3>4, <3>5 DEF Before
      <4>2. seq = order /\ order \in Seq(Slots)
        BY <1>7, <3>1, Rows
      <4>3. 1 \in 1 .. Len(order) /\ order[1] = h
        BY <3>2, <3>4, <4>2
      <4>4. PICK i \in 1 .. Len(order) : i < 1
        BY <4>1, <4>3 DEF Ahead
      <4> QED
        BY <4>2, <4>4
    <3>6. h \in Slots /\ row[h] # NoRow /\ row[h].status # "REQUESTED" /\ row[h].text = u.text
      BY <3>2, <3>3, <3>4, <3>5
    <3>7. Enables1(u)
      BY <2>4, <3>6 DEF Enables1, Gives, Started1
    <3> QED
      BY <1>4, <2>2, <2>4, <3>7
  <2> QED
    BY <2>2, <2>3, <2>4
<1>8. CASE t.at \in {"join", "keycloakSet"} /\ t.held = <<>>
  <2>1. /\ Still
        /\ Do(t, {}) \/ \E u : Do(t, {u}) /\ u.at \in {"keycloakSet", "confirm"} /\ u.held = <<>> /\ u.text = t.text
    <3>1. CASE Join(t)
      BY <1>8, <3>1, JoinGoes DEF Started1
    <3>2. CASE KeycloakSet(t)
      BY <1>8, <3>2, KeycloakSetGoes DEF Started1
    <3> QED
      BY <1>8, <3>1, <3>2, StepAt
  <2>2. ASSUME NEW u, Do(t, {u}), u.at \in {"keycloakSet", "confirm"}, u.held = <<>>, u.text = t.text PROVE BeforeKept
    <3>1. Enables1(u)
      BY <1>1, <1>8, <2>2 DEF Enables1, Gives, Aside, Confirms
    <3> QED
      BY <1>4, <2>1, <2>2, <3>1
  <2> QED
    BY <1>3, <2>1, <2>2
<1>9. CASE t.at = "confirm"
  <2>1. Confirm(t)
    BY <1>9, StepAt
  <2>2. PICK a : a = Due
    OBVIOUS
  <2>3. Nothing /\ (Do(t, {}) \/ (a # 0 /\ \E u : Do(t, {u}) /\ TakesUp(u, t, a)))
    BY <2>1, <2>2, ConfirmGoes
  <2>4. CASE Do(t, {})
    BY <1>3, <2>3, <2>4, NothingStill
  <2>5. ASSUME a # 0, NEW u, Do(t, {u}), TakesUp(u, t, a) PROVE BeforeKept
    <3>1. row[a].status = "REQUESTED"
      BY <2>2, <2>5, NewestRequested
    <3>2. PICK h \in Slots : row[h] # NoRow /\ row[h].status # "REQUESTED" /\ row[h].text = t.text
      BY <1>1, <1>9 DEF Enables1, Aside, Gives, Confirms
    <3>3. Blocked(u)
      BY <2>5, <3>1, <3>2 DEF Blocked, TakesUp
    <3>4. Enables1(u)
      BY <2>5, <3>3 DEF Enables1, Confirms, TakesUp
    <3> QED
      BY <1>4, <2>3, <2>5, <3>4, NothingStill
  <2> QED
    BY <2>3, <2>4, <2>5
<1>10. CASE t.at = "save"
  <2>1. CheckSave(t)
    BY <1>10, StepAt
  <2>2. PICK u : /\ Do(t, {u}) /\ u.q = t.q /\ u.at = "write" /\ u.for = t.for /\ u.held = t.held
                 /\ u.todo = t.todo /\ u.text = t.text
    BY <1>1, <2>1, CheckSaveGoes
  <2>3. Enables1(u)
    BY <1>1, <1>10, <2>2 DEF Enables1, Aside, Gives, Confirms, Blocked
  <2> QED
    BY <1>4, <2>1, <2>2, <2>3, CheckSaveGoes, NothingStill
<1>11. CASE t.at = "write"
  BY <1>11, StepAt, BeforeWrite
<1> QED
  BY <1>1, <1>5, <1>6, <1>7, <1>8, <1>9, <1>10, <1>11 DEF Enables1, Gives, Confirms

-----------------------------------------------------------------------------
(* The first address                                                       *)

(* A handler leads on to others of these. *)
FirstKept == OneEnabled' /\ (First' \/ After')
NewOnly(u) == u.at = "write" /\ u.for = "failed" => \A a \in DOMAIN u.held : a = 0
LeadsOn(t) == \E T : Do(t, T) /\ \A u \in T : u.q = t.q /\ FirstTask(u) /\ NewOnly(u)

(* The steps of these handlers that only read lead to others of these. *)
LEMMA FirstGoes ==
  ASSUME Typed, Fit, person.exists, NEW t \in tasks, Step(t), FirstTask(t), t.at \notin {"write", "alreadyExists", "exists"},
         \A a \in Slots : row[a].status # "DISABLED"
  PROVE  Still /\ UNCHANGED oxUser /\ LeadsOn(t)
<1>1. ASSUME Do(t, {}) PROVE LeadsOn(t)
  BY <1>1 DEF LeadsOn
<1>2. ASSUME NEW u, Do(t, {u}), u.q = t.q, FirstTask(u), NewOnly(u) PROVE LeadsOn(t)
  <2>1. PICK T : T = {u}
    OBVIOUS
  <2>2. Do(t, T) /\ \A v \in T : v.q = t.q /\ FirstTask(v) /\ NewOnly(v)
    BY <1>2, <2>1
  <2> QED
    BY <2>2 DEF LeadsOn
<1>3. CASE Aside(t)
  <2>1. PICK T : Do(t, T) /\ \A u \in T : u.q = t.q /\ Aside(u)
    BY <1>3, AsideGoes
  <2>2. \A u \in T : u.q = t.q /\ FirstTask(u) /\ NewOnly(u)
    BY <2>1 DEF FirstTask, NewOnly, Aside
  <2> QED
    BY <1>3, <2>1, <2>2, AsideGoes DEF LeadsOn
<1>4. CASE t.at = "school"
  <2>1. CreateOrEnable(t)
    BY <1>4, StepAt
  <2>2. PICK a : a = Newest({"ENABLED", "DISABLED"})
    OBVIOUS
  <2>3. a = 0 \/ a \in Slots
    <3>1. {"ENABLED", "DISABLED"} \in SUBSET EmailAddressStatus
      BY DEF EmailAddressStatus
    <3> QED
      BY <2>2, <3>1, NewestTyped
  <2>4. PICK T : /\ Do(t, T)
                 /\ \A u \in T :
                      \/ Started1(u, t, "alreadyExists") \/ Started1(u, t, "school")
                      \/ Started1(u, t, "generate") /\ u.for = "create" /\ Newest({"ENABLED", "DISABLED"}) = 0
                      \/ /\ u.q = t.q /\ u.at = "save" /\ u.for = "enable"
                         /\ LET c == Newest({"ENABLED", "DISABLED"}) IN
                            /\ c # 0 /\ row[c].status = "DISABLED"
                            /\ DOMAIN u.held = {c} /\ u.held[c] = [row[c] EXCEPT !.status = "ENABLED"]
    BY <2>1, CreateOrEnableGoes
  <2>5. ASSUME NEW u \in T PROVE u.q = t.q /\ FirstTask(u) /\ NewOnly(u)
    <3>1. \/ Started1(u, t, "alreadyExists") \/ Started1(u, t, "school")
          \/ Started1(u, t, "generate") /\ u.for = "create"
          \/ a # 0 /\ row[a].status = "DISABLED"
      BY <2>2, <2>4, <2>5
    <3> QED
      BY <2>3, <3>1 DEF Started1, FirstTask, NewOnly
  <2> QED
    BY <2>1, <2>4, <2>5, CreateOrEnableGoes, NothingStill DEF LeadsOn
<1>5. CASE t.at = "create"
  <2>1. CreateRead(t)
    BY <1>5, StepAt
  <2>2. PICK a : a = Due
    OBVIOUS
  <2>3. Nothing /\ (Do(t, {}) \/ \E u : Do(t, {u}) /\ Reads(u, t, a))
    BY <2>1, <2>2, CreateReadGoes
  <2>4. ASSUME NEW u, Do(t, {u}), Reads(u, t, a) PROVE LeadsOn(t)
    <3>1. u.q = t.q /\ FirstTask(u) /\ NewOnly(u)
      BY <2>4 DEF Reads, FirstTask, NewOnly
    <3> QED
      BY <1>2, <2>4, <3>1
  <2> QED
    BY <1>1, <2>3, <2>4, NothingStill
<1>6. CASE t.at = "generate" /\ t.for = "create"
  <2>1. Generate(t)
    BY <1>6, StepAt
  <2>2. PICK u : /\ Do(t, {u}) /\ u.q = t.q /\ DOMAIN u.held = {0}
                 /\ (u.at = "save" /\ u.for = t.for) \/ (u.at = "write" /\ u.for = "failed")
    BY <2>1, GenerateGoes
  <2>3. FirstTask(u) /\ NewOnly(u)
    BY <1>6, <2>2 DEF FirstTask, NewOnly
  <2> QED
    BY <1>2, <2>1, <2>2, <2>3, GenerateGoes
<1>7. CASE t.at = "save" /\ t.for = "create"
  <2>1. CheckSave(t)
    BY <1>7, StepAt
  <2>2. CASE Enabled = {}
    <3>1. PICK u : Do(t, {u}) /\ u.q = t.q /\ u.at = "write" /\ u.for = t.for
      BY <2>1, <2>2, CheckSaveGoes
    <3>2. FirstTask(u) /\ NewOnly(u)
      BY <1>7, <3>1 DEF FirstTask, NewOnly
    <3> QED
      BY <1>2, <2>1, <3>1, <3>2, CheckSaveGoes, NothingStill
  <2>3. CASE Enabled # {}
    <3>1. PICK T : Do(t, T) /\ \A u \in T : Started1(u, t, "school")
      BY <1>7, <2>1, <2>3, CheckSaveGoes
    <3>2. \A u \in T : u.q = t.q /\ FirstTask(u) /\ NewOnly(u)
      BY <3>1 DEF Started1, FirstTask, NewOnly
    <3> QED
      BY <2>1, <3>1, <3>2, CheckSaveGoes, NothingStill DEF LeadsOn
  <2> QED
    BY <2>2, <2>3
<1> QED
  BY <1>3, <1>4, <1>5, <1>6, <1>7 DEF FirstTask

(* A write of one of them leads on to the next school, or to OX. *)
LEMMA FirstWritten ==
  ASSUME Typed, NEW t \in tasks, t.at = "write", t.for \in {"create", "failed"}, NEW u \in AfterSaved(t)
  PROVE  u.q = t.q /\ u.at \in {"school", "create"} /\ FirstTask(u) /\ NewOnly(u)
<1>1. Continues(u, t)
  BY AfterSavedIs
<1> QED
  BY <1>1 DEF Continues, Started1, FirstTask, NewOnly

(* The user was there before. *)
LEMMA ToUserStays ==
  ASSUME Typed, Fit, RowsKept, NEW q \in Sessions,
         loaded[q] # <<>> => loaded'[q] # <<>> /\ loaded'[q][1] = loaded[q][1],
         NEW u, ToUser(u, q)
  PROVE  ToUser(u, q)'
<1>1. loaded[q] # <<>> => loaded[q][1] \in Slots /\ row[loaded[q][1]] # NoRow
  <2>1. loaded[q] \in Seq(Slots)
    BY Rows
  <2>2. loaded[q] # <<>> => 1 \in 1 .. Len(loaded[q])
    BY <2>1
  <2> QED
    BY <2>1, <2>2 DEF Fit, RowsFit
<1>2. loaded[q] # <<>> => row'[loaded'[q][1]].text = row[loaded[q][1]].text
  BY <1>1 DEF RowsKept
<1> QED
  BY <1>2 DEF ToUser, FirstRow, FirstTask, Aside, Gives, Confirms

(* When the user was there, the step has to keep the session on its first row. *)
LEMMA UserWasGoesOn ==
  ASSUME Typed, Fit, UserWas, RowsKept, StatusKept, UNCHANGED <<person, schools, offers>>,
         Used(person.name) => Used(person.name)',
         NEW t \in tasks, loaded[t.q] # <<>> => loaded'[t.q] # <<>> /\ loaded'[t.q][1] = loaded[t.q][1],
         NEW T, Do(t, T), \A u \in T : u.q = t.q /\ ToUser(u, t.q)
  PROVE  FirstKept
<1>1. PICK q \in Sessions : q = t.q /\ \A u \in tasks : u.q = q /\ ToUser(u, q)
  BY DEF UserWas
<1>2. \A u \in tasks' : u.q = q /\ ToUser(u, q)'
  BY <1>1, ToUserStays DEF Do
<1>3. NoneSettled' /\ OneEnabled'
  BY DEF UserWas, Served, NoneSettled, StatusKept, OneEnabled, Settled
<1>4. Served'
  BY <1>3 DEF UserWas, Served, Entitled
<1>5. UserWas'
  BY <1>2, <1>4 DEF UserWas
<1> QED
  BY <1>3, <1>5 DEF FirstKept, First

(* What is written then: a new row, or that of the user is enabled. *)
LEMMA UserWasWrite ==
  ASSUME Typed, Fit, overlaps = 0, person.exists, UserWas, NEW t \in tasks, Write(t)
  PROVE  FirstKept
<1>1. t.at = "write" /\ RowsKept /\ UNCHANGED <<person, schools, offers, oxUser, keycloak, username, trouble>>
  BY WriteDoes
<1>2. PICK a, m : /\ Holding1(t, a, m)
                  /\ \/ ~CanWrite(a, m) /\ Still /\ Do(t, {})
                     \/ CanWrite(a, m) /\ a = 0 /\ Do(t, AfterSaved(t)) /\ \E n : Added(m, n, t.q)
                     \/ CanWrite(a, m) /\ a # 0 /\ Do(t, AfterSaved(t)) /\ Changed(m, a)
  BY WriteDoes
<1>3. /\ Shaped(t) /\ RowsFit /\ StatusFits(t, m)
      /\ a # 0 => a \in Slots /\ row[a] # NoRow
      /\ t.for = "create" => a = 0
      /\ t.for = "confirm" => a # 0
  BY <1>1, <1>2, WriteHolds DEF Holding1
<1>4. t.q \in Sessions /\ loaded[t.q] \in Seq(Slots) /\ DOMAIN t.held = {a} /\ m = t.held[a]
  BY <1>2, Rows, TaskTyped DEF Holding1
<1>5. ToUser(t, t.q) /\ NoneSettled /\ Used(person.name) /\ Used(person.name)'
  BY <1>1 DEF UserWas, Served, Used
<1>6. CASE ~CanWrite(a, m)
  <2>1. Still /\ Do(t, {}) /\ StatusKept
    BY <1>2, <1>6, StillKept
  <2> QED
    BY <1>1, <1>5, <2>1, UserWasGoesOn DEF Still
<1>7. CASE CanWrite(a, m) /\ t.for \in {"create", "failed"}
  <2>1. a = 0
    BY <1>1, <1>3, <1>4, <1>5, <1>7 DEF ToUser
  <2>2. PICK n : Added(m, n, t.q)
    BY <1>2, <1>7, <2>1
  <2>3. m.status \in {"REQUESTED", "FAILED"} /\ (m.status = "REQUESTED" => m.ox = 0)
    BY <1>1, <1>3, <1>7 DEF StatusFits
  <2>4. StatusKept
    BY <1>3, <2>2, <2>3, AddedKept
  <2>5. loaded[t.q] # <<>> => loaded'[t.q] # <<>> /\ loaded'[t.q][1] = loaded[t.q][1]
    <3>1. loaded'[t.q] = Append(loaded[t.q], n) /\ n \in Slots
      BY <1>4, <2>2, Rows DEF Added
    <3> QED
      BY <1>4, <3>1
  <2>6. \A u \in AfterSaved(t) : u.q = t.q /\ ToUser(u, t.q)
    BY <1>1, <1>7, FirstWritten DEF ToUser, Gives, Confirms
  <2> QED
    BY <1>1, <1>2, <1>5, <1>7, <2>1, <2>4, <2>5, <2>6, UserWasGoesOn
<1>8. CASE CanWrite(a, m) /\ t.for = "confirm"
  <2>1. Changed(m, a) /\ Do(t, AfterSaved(t)) /\ a \in Slots /\ a # 0 /\ m.status = "ENABLED" /\ ~Settled(a)
    BY <1>1, <1>2, <1>3, <1>5, <1>8 DEF StatusFits, NoneSettled
  <2>2. AfterSaved(t) = {}
    BY <1>1, <1>8, AfterSavedIs
  <2>3. m # row[a] /\ row'[a] = m /\ m.text = row[a].text /\ \A b \in Slots : b # a => row'[b] = row[b]
    BY <2>1 DEF Changed, Settled
  <2>4. PICK f : f = loaded[t.q][1]
    OBVIOUS
  <2>5. f = a
    <3>1. loaded[t.q] # <<>> /\ m.text = row[f].text
      BY <1>1, <1>4, <1>5, <1>8, <2>4 DEF ToUser, Confirms, FirstRow
    <3>2. f \in Slots
      BY <1>4, <2>4, <3>1
    <3> QED
      BY <1>8, <2>1, <3>1, <3>2 DEF CanWrite
  <2>6. Settled(a)' /\ \A b \in Slots : row'[b].status = "ENABLED" => b = a
    BY <1>5, <2>1, <2>3 DEF Settled, NoneSettled
  <2>7. ASSUME NEW b \in Slots, Waits(b)' PROVE Ahead(b)'
    <3>1. b # a
      BY <2>1, <2>3, <2>7 DEF Waits
    <3> QED
      BY <1>3, <2>1, <2>3, <2>6, <3>1, ChangedKept
  <2>8. a \in Enabled'
    BY <1>1, <2>1, <2>3 DEF Enabled
  <2>9. ASSUME NEW u \in tasks PROVE Harmless(u)'
    <3>1. u.q = t.q /\ ToUser(u, t.q) /\ Shaped(u)
      BY <2>9, TaskTyped DEF UserWas
    <3>2. ASSUME Confirms(u) PROVE Harmless(u)'
      <4>1. PICK b : DOMAIN u.held = {b}
        BY <3>1, <3>2 DEF Shaped, HoldsOne, Confirms
      <4>2. u.held[b].text = row'[a].text
        BY <2>3, <2>4, <2>5, <3>1, <3>2, <4>1 DEF ToUser, FirstRow
      <4>3. row'[a] # NoRow
        BY <2>1, <2>3 DEF NoRow
      <4>4. Blocked(u)' \/ DOMAIN u.held \subseteq Enabled'
        BY <2>1, <2>8, <4>1, <4>2, <4>3 DEF Blocked
      <4> QED
        BY <3>2, <4>4 DEF Harmless, Confirms
    <3>3. ASSUME u.at = "exists" PROVE Harmless(u)'
      <4>1. Used(username[t.q])
        BY <1>5 DEF Fit, InTurn
      <4>2. Used(username[t.q])'
        BY <1>1, <4>1 DEF Used
      <4>3. Used(username[u.q])'
        BY <3>1, <4>2
      <4> QED
        BY <3>3, <4>3 DEF Harmless
    <3>4. ASSUME u.at = "write", u.for \in {"create", "failed"} PROVE Harmless(u)'
      <4>1. HeldFits(u)
        BY <2>9 DEF Fit, HandlersFit
      <4>2. \A b \in DOMAIN u.held : b = 0
        BY <3>1, <3>4, <4>1 DEF ToUser, HeldFits, ForNew
      <4>3. Unsettles(u)'
        BY <4>2, Rows DEF Unsettles
      <4> QED
        BY <3>4, <4>3 DEF Harmless
    <3>5. FirstTask(u) \/ Gives(u) \/ Confirms(u)
      BY <3>1 DEF ToUser
    <3>6. Gives(u) => u.held = <<>>
      BY <3>1 DEF ToUser
    <3> QED
      BY <3>2, <3>3, <3>4, <3>5, <3>6 DEF FirstTask, Harmless, Aside, Gives
  <2>10. OneEnabled' /\ ~NothingEnabled'
    BY <2>1, <2>3, <2>6 DEF OneEnabled, NothingEnabled
  <2> QED
    BY <2>1, <2>2, <2>7, <2>9, <2>10 DEF FirstKept, After, Do
<1> QED
  BY <1>1, <1>5, <1>6, <1>7, <1>8 DEF ToUser, FirstTask, Gives, Confirms, Aside

(* The other steps pass the address on. *)
LEMMA UserWasStep ==
  ASSUME Typed, Fit, overlaps = 0, person.exists, UserWas, NEW t \in tasks, Step(t)
  PROVE  FirstKept
<1>1. /\ ToUser(t, t.q) /\ Shaped(t) /\ Enabled = {} /\ t.q \in Sessions /\ loaded[t.q] \in Seq(Slots)
      /\ NoneSettled /\ Used(person.name) /\ username[t.q] = person.name
  <2>1. NothingEnabled
    BY DEF UserWas, Served, NoneSettled, Settled, NothingEnabled
  <2> QED
    BY <2>1, TaskTyped, EnabledOrNot, Rows DEF UserWas, Served, Fit, InTurn
<1>2. ASSUME Still, UNCHANGED oxUser, NEW T, Do(t, T), \A u \in T : u.q = t.q /\ ToUser(u, t.q) PROVE FirstKept
  <2>1. RowsKept /\ StatusKept /\ UNCHANGED <<person, schools, offers>> /\ (Used(person.name) => Used(person.name)')
    BY <1>2, StillKept DEF Still, Used
  <2>2. loaded' = loaded
    BY <1>2 DEF Still
  <2> QED
    BY <1>2, <2>1, <2>2, UserWasGoesOn
<1>3. ASSUME Still, UNCHANGED oxUser, Do(t, {}) PROVE FirstKept
  BY <1>2, <1>3
<1>4. ASSUME Still, UNCHANGED oxUser, NEW u, Do(t, {u}), u.q = t.q, ToUser(u, t.q) PROVE FirstKept
  BY <1>2, <1>4
<1>5. CASE FirstTask(t) /\ t.at \notin {"write", "alreadyExists", "exists"}
  <2>1. Still /\ UNCHANGED oxUser /\ LeadsOn(t)
    BY <1>1, <1>5, FirstGoes DEF NoneSettled, Settled
  <2>2. PICK T : Do(t, T) /\ \A u \in T : u.q = t.q /\ FirstTask(u) /\ NewOnly(u)
    BY <2>1 DEF LeadsOn
  <2>3. \A u \in T : u.q = t.q /\ ToUser(u, t.q)
    BY <2>2 DEF ToUser, FirstTask, NewOnly, Gives, Confirms, Aside
  <2> QED
    BY <1>2, <2>1, <2>2, <2>3
<1>6. CASE t.at = "exists"
  <2>1. CreateExists(t)
    BY <1>6, StepAt
  <2>2. Nothing /\ Do(t, {})
    BY <1>1, <2>1, CreateExistsGoes
  <2> QED
    BY <1>3, <2>2, NothingStill
<1>7. CASE t.at = "alreadyExists"
  <2>1. AlreadyExists(t)
    BY <1>7, StepAt
  <2>2. /\ Nothing
        /\ \/ Do(t, {})
           \/ /\ person.exists /\ OxUserId(t.q) # 0
              /\ \E u : Do(t, {u}) /\ Started1(u, t, "join") /\ u.todo = t.todo /\ u.text = EmailOf(loaded[t.q])
    BY <2>1, AlreadyExistsGoes
  <2>3. CASE Do(t, {})
    BY <1>3, <2>2, <2>3, NothingStill
  <2>4. ASSUME OxUserId(t.q) # 0, NEW u, Do(t, {u}), Started1(u, t, "join"), u.text = EmailOf(loaded[t.q])
        PROVE  FirstKept
    <3>1. PICK seq : seq = loaded[t.q]
      OBVIOUS
    <3>2. /\ seq # <<>> /\ seq[1] \in Slots
          /\ \/ EmailOf(seq) = row[seq[1]].text
             \/ \E a \in Slots : row[a].status = "ENABLED" /\ EmailOf(seq) = row[a].text
      BY <1>1, <2>4, <3>1, CopiedText
    <3>3. u.text = row[seq[1]].text
      BY <1>1, <2>4, <3>1, <3>2 DEF NoneSettled, Settled
    <3>4. ToUser(u, t.q)
      BY <2>4, <3>1, <3>2, <3>3 DEF ToUser, Gives, Confirms, Started1, FirstRow
    <3> QED
      BY <1>4, <2>2, <2>4, <3>4, NothingStill DEF Started1
  <2> QED
    BY <2>2, <2>3, <2>4
<1>8. CASE t.at \in {"join", "keycloakSet"}
  <2>1. Gives(t) /\ t.held = <<>>
    BY <1>1, <1>8 DEF Gives, ToUser
  <2>2. /\ Still /\ UNCHANGED oxUser
        /\ \/ Do(t, {})
           \/ \E u : Do(t, {u}) /\ u.q = t.q /\ u.at \in {"keycloakSet", "confirm"} /\ u.held = <<>> /\ u.text = t.text
    <3>1. CASE Join(t)
      BY <2>1, <3>1, JoinGoes DEF Started1
    <3>2. CASE KeycloakSet(t)
      BY <3>2, KeycloakSetGoes DEF Started1
    <3> QED
      BY <1>8, <3>1, <3>2, StepAt
  <2>3. ASSUME NEW u, Do(t, {u}), u.q = t.q, u.at \in {"keycloakSet", "confirm"}, u.held = <<>>, u.text = t.text
        PROVE  FirstKept
    <3>1. ToUser(u, t.q)
      BY <1>1, <2>1, <2>3 DEF ToUser, Gives, Confirms
    <3> QED
      BY <1>4, <2>2, <2>3, <3>1
  <2> QED
    BY <1>3, <2>2, <2>3
<1>9. CASE t.at = "confirm"
  <2>1. Confirm(t)
    BY <1>9, StepAt
  <2>2. PICK a : a = Due
    OBVIOUS
  <2>3. Nothing /\ (Do(t, {}) \/ \E u : Do(t, {u}) /\ TakesUp(u, t, a))
    BY <2>1, <2>2, ConfirmGoes
  <2>4. CASE Do(t, {})
    BY <1>3, <2>3, <2>4, NothingStill
  <2>5. ASSUME NEW u, Do(t, {u}), TakesUp(u, t, a) PROVE FirstKept
    <3>1. loaded[t.q] # <<>> /\ t.text = row[FirstRow(t.q)].text
      BY <1>1, <1>9 DEF ToUser, Gives
    <3>2. u.q = t.q /\ ToUser(u, t.q)
      BY <2>5, <3>1 DEF ToUser, Gives, Confirms, TakesUp
    <3> QED
      BY <1>4, <2>3, <2>5, <3>2, NothingStill
  <2> QED
    BY <2>3, <2>4, <2>5
<1>10. CASE t.at = "save" /\ t.for = "confirm"
  <2>1. CheckSave(t)
    BY <1>10, StepAt
  <2>2. PICK u : /\ Do(t, {u}) /\ u.q = t.q /\ u.at = "write" /\ u.for = t.for /\ u.held = t.held
                 /\ u.todo = t.todo /\ u.text = t.text
    BY <1>1, <2>1, CheckSaveGoes
  <2>3. ToUser(u, t.q)
    BY <1>1, <1>10, <2>2 DEF ToUser, Gives, Confirms
  <2> QED
    BY <1>4, <2>1, <2>2, <2>3, CheckSaveGoes, NothingStill
<1>11. CASE t.at = "write"
  BY <1>11, StepAt, UserWasWrite
<1> QED
  BY <1>1, <1>5, <1>6, <1>7, <1>8, <1>9, <1>10, <1>11 DEF ToUser, Gives, Confirms

(* There is no user yet. *)
LEMMA NoUserGoesOn ==
  ASSUME NoUserYet, StatusKept, UNCHANGED <<person, schools, offers, oxUser>>, \A b \in Slots : ~Waits(b)',
         NEW t \in tasks, NEW T, Do(t, T), \A u \in T : FirstTask(u) \/ u.at = "oxCreate"
  PROVE  FirstKept
<1>1. NoneSettled' /\ OneEnabled'
  BY DEF NoUserYet, NoneSettled, StatusKept, OneEnabled, Settled
<1>2. Entitled' # {} /\ ~Used(person.name)'
  BY DEF NoUserYet, Entitled, Used
<1>3. \A u \in tasks' : FirstTask(u)' \/ u.at = "oxCreate"
  BY DEF NoUserYet, Do, FirstTask, Aside
<1>4. NoUserYet'
  BY <1>1, <1>2, <1>3 DEF NoUserYet
<1> QED
  BY <1>1, <1>4 DEF FirstKept, First

(* A write adds a row that names no user, or gives one up. *)
LEMMA NoUserWrite ==
  ASSUME Typed, Fit, NoUserYet, NEW t \in tasks, Write(t)
  PROVE  FirstKept
<1>1. t.at = "write" /\ RowsKept /\ UNCHANGED <<person, schools, offers, oxUser, keycloak, username, trouble>>
  BY WriteDoes
<1>2. PICK a, m : /\ Holding1(t, a, m)
                  /\ \/ ~CanWrite(a, m) /\ Still /\ Do(t, {})
                     \/ CanWrite(a, m) /\ a = 0 /\ Do(t, AfterSaved(t)) /\ \E n : Added(m, n, t.q)
                     \/ CanWrite(a, m) /\ a # 0 /\ Do(t, AfterSaved(t)) /\ Changed(m, a)
  BY WriteDoes
<1>3. /\ RowsFit /\ StatusFits(t, m)
      /\ t.for = "create" => a = 0
  BY <1>1, <1>2, WriteHolds DEF Holding1
<1>4. t.for \in {"create", "failed"}
  BY <1>1 DEF NoUserYet, FirstTask, Aside
<1>5. \A u \in AfterSaved(t) : FirstTask(u)
  BY <1>1, <1>4, FirstWritten
<1>6. m.status \in {"REQUESTED", "FAILED"} /\ (m.status = "REQUESTED" => m.ox = 0)
      /\ (a # 0 => m.status = "FAILED")
  BY <1>1, <1>3, <1>4 DEF StatusFits
<1>7. CASE ~CanWrite(a, m)
  <2>1. Still /\ Do(t, {}) /\ StatusKept /\ \A b \in Slots : ~Waits(b)'
    BY <1>2, <1>7, StillKept, StillWaits DEF NoUserYet
  <2> QED
    BY <1>1, <2>1, NoUserGoesOn
<1>8. CASE CanWrite(a, m) /\ a = 0
  <2>1. PICK n : Added(m, n, t.q)
    BY <1>2, <1>8
  <2>2. StatusKept /\ \A b \in Slots : ~Waits(b)'
    BY <1>3, <1>6, <2>1, AddedKept DEF NoUserYet
  <2> QED
    BY <1>1, <1>2, <1>5, <1>8, <2>2, NoUserGoesOn
<1>9. CASE CanWrite(a, m) /\ a # 0
  <2>1. Changed(m, a)
    BY <1>2, <1>9
  <2>2. StatusKept /\ \A b \in Slots : ~Waits(b)'
    BY <1>6, <1>9, <2>1 DEF Changed, StatusKept, Settled, Waits, NoUserYet, NoneSettled
  <2> QED
    BY <1>1, <1>2, <1>5, <1>9, <2>2, NoUserGoesOn
<1> QED
  BY <1>7, <1>8, <1>9

(* Until it is made, for the row it was read from. *)
LEMMA NoUserStep ==
  ASSUME Typed, Fit, overlaps = 0, person.exists, NoUserYet, NEW t \in tasks, Step(t)
  PROVE  FirstKept
<1>1. /\ FirstTask(t) \/ t.at = "oxCreate"
      /\ Shaped(t) /\ t.q \in Sessions /\ NoneSettled /\ ~Used(person.name) /\ username[t.q] = person.name
  BY TaskTyped DEF NoUserYet, Fit, InTurn
<1>2. ASSUME Still, UNCHANGED oxUser, NEW T, Do(t, T), \A u \in T : FirstTask(u) \/ u.at = "oxCreate" PROVE FirstKept
  <2>1. StatusKept /\ UNCHANGED <<person, schools, offers, oxUser>> /\ \A b \in Slots : ~Waits(b)'
    BY <1>2, StillKept, StillWaits DEF Still, NoUserYet
  <2> QED
    BY <1>2, <2>1, NoUserGoesOn
<1>3. ASSUME Still, UNCHANGED oxUser, Do(t, {}) PROVE FirstKept
  BY <1>2, <1>3
<1>4. ASSUME Still, UNCHANGED oxUser, NEW u, Do(t, {u}), FirstTask(u) \/ u.at = "oxCreate" PROVE FirstKept
  BY <1>2, <1>4
<1>5. CASE FirstTask(t) /\ t.at \notin {"write", "alreadyExists", "exists"}
  <2>1. Still /\ UNCHANGED oxUser /\ LeadsOn(t)
    BY <1>1, <1>5, FirstGoes DEF NoneSettled, Settled
  <2> QED
    BY <1>2, <2>1 DEF LeadsOn
<1>6. CASE t.at = "exists"
  <2>1. CreateExists(t)
    BY <1>6, StepAt
  <2>2. Nothing /\ \E u : Do(t, {u}) /\ u.at = "oxCreate"
    BY <1>1, <2>1, CreateExistsGoes
  <2> QED
    BY <1>4, <2>2, NothingStill
<1>7. CASE t.at = "alreadyExists"
  <2>1. AlreadyExists(t)
    BY <1>7, StepAt
  <2>2. OxUserId(t.q) = 0
    <3>1. PICK seq : seq = loaded[t.q]
      OBVIOUS
    <3>2. PICK S : S = EmailAddressStatus \ {"FAILED"}
      OBVIOUS
    <3>3. PICK a : a = FirstOf(seq, S)
      OBVIOUS
    <3>4. ASSUME a # 0 PROVE row[a].ox = 0
      <4>1. seq \in Seq(Slots)
        BY <1>1, <3>1, Rows
      <4>2. a \in Slots /\ row[a].status \in S
        BY <3>3, <3>4, <4>1, FirstFound
      <4>3. row[a].status = "REQUESTED"
        BY <1>1, <3>2, <4>2 DEF EmailAddressStatus, NoneSettled, Settled
      <4> QED
        BY <4>2, <4>3 DEF NoUserYet, Waits
    <3> QED
      BY <3>1, <3>2, <3>3, <3>4 DEF OxUserId
  <2>3. Nothing /\ Do(t, {})
    BY <2>1, <2>2, AlreadyExistsGoes
  <2> QED
    BY <1>3, <2>3, NothingStill
<1>8. CASE t.at = "oxCreate"
  <2>1. CreateUser(t) /\ HeldFits(t)
    BY <1>8, StepAt DEF Fit, HandlersFit
  <2>2. Still
    BY <2>1, CreateUserGoes
  <2>3. CASE UNCHANGED oxUser /\ \E u : Do(t, {u}) /\ Fails(u, t)
    <3>1. PICK u : Do(t, {u}) /\ Fails(u, t)
      BY <2>3
    <3>2. FirstTask(u)
      BY <3>1 DEF FirstTask, Fails
    <3> QED
      BY <1>4, <2>2, <2>3, <3>1, <3>2
  <2>4. ASSUME Used(username[t.q])',
               NEW u, Do(t, {u}), u.q = t.q, u.at = "save", u.for = "oxid", DOMAIN u.held = DOMAIN t.held
        PROVE  FirstKept
    <3>1. PICK w : DOMAIN t.held = {w}
      BY <1>1, <1>8 DEF Shaped, HoldsOne
    <3>2. w # 0
      BY <1>1, <1>8, <3>1 DEF Shaped
    <3>3. w \in Slots /\ row[w] # NoRow
      BY <2>1, <3>1, <3>2 DEF HeldFits
    <3>4. username' = username /\ person' = person /\ row' = row /\ Entitled' = Entitled
      BY <2>2 DEF Still, Entitled
    <3>5. Used(person.name)'
      <4>1. username'[t.q] = person'.name
        BY <1>1, <3>4
      <4> QED
        BY <2>4, <4>1 DEF Used
    <3>6. \A v \in tasks : ForUser(v, w)'
      BY DEF NoUserYet, ForUser, FirstTask, Gives, Confirms, Aside
    <3>7. ForUser(u, w)'
      BY <2>4, <3>1 DEF ForUser, Gives, Confirms
    <3>8. \A a \in Slots : ~Settled(a)' /\ ~Waits(a)'
      BY <1>1, <3>4 DEF NoneSettled, Settled, Waits, NoUserYet
    <3>9. UserOf(w)'
      BY <2>4, <3>3, <3>4, <3>5, <3>6, <3>7, <3>8 DEF UserOf, Do, NoUserYet
    <3>10. OneEnabled'
      BY <3>8 DEF OneEnabled, Settled
    <3> QED
      BY <3>3, <3>9, <3>10 DEF FirstKept, First
  <2> QED
    BY <2>1, <2>3, <2>4, CreateUserGoes
<1>9. CASE t.at = "write"
  BY <1>9, StepAt, NoUserWrite
<1> QED
  BY <1>1, <1>5, <1>6, <1>7, <1>8, <1>9

(* The user was made for a row. *)
LEMMA ForUserStays ==
  ASSUME RowsKept, NEW w \in Slots, row[w] # NoRow,
         \A h \in Slots : row[h].status = "FAILED" /\ h # w => row'[h].status = "FAILED",
         NEW u, ForUser(u, w)
  PROVE  ForUser(u, w)'
<1>1. row'[w].text = row[w].text
  BY DEF RowsKept
<1>2. Blocked(u) => Blocked(u)'
  BY DEF Blocked, RowsKept
<1>3. ASSUME NEW h \in Slots, h # w, row[h].status = "FAILED" PROVE row'[h].status = "FAILED" /\ row'[h].text = row[h].text
  BY <1>3 DEF RowsKept, NoRow
<1> QED
  BY <1>1, <1>2, <1>3 DEF ForUser, FirstTask, Aside, Gives, Confirms

(* A step has to keep the row: it alone may be enabled, or wait. *)
LEMMA UserOfGoesOn ==
  ASSUME RowsKept, NEW w \in Slots, UserOf(w), UNCHANGED <<person, schools, offers>>,
         Used(person.name) => Used(person.name)',
         \A h \in Slots : row[h].status = "FAILED" /\ h # w => row'[h].status = "FAILED",
         \A a \in Slots : Settled(a)' => a = w /\ row'[a].status = "ENABLED",
         \A b \in Slots : Waits(b)' => b = w,
         NEW t \in tasks, NEW T, Do(t, T), \A u \in T : ForUser(u, w)
  PROVE  FirstKept
<1>1. row[w] # NoRow /\ row'[w] # NoRow
  BY DEF UserOf, RowsKept
<1>2. \A u \in tasks' : ForUser(u, w)'
  BY <1>1, ForUserStays DEF Do, UserOf
<1>3. Entitled' # {} /\ Used(person.name)'
  BY DEF UserOf, Entitled
<1>4. UserOf(w)'
  BY <1>1, <1>2, <1>3 DEF UserOf
<1>5. OneEnabled'
  BY DEF OneEnabled, Settled
<1> QED
  BY <1>4, <1>5 DEF FirstKept, First

(* Which is so if the table stays as it is. *)
LEMMA UserOfStill ==
  ASSUME Still, NEW w \in Slots, UserOf(w), Used(person.name) => Used(person.name)',
         NEW t \in tasks, NEW T, Do(t, T), \A u \in T : ForUser(u, w)
  PROVE  FirstKept
<1>1. RowsKept /\ StatusKept /\ UNCHANGED <<person, schools, offers>> /\ row' = row
  BY StillKept DEF Still
<1>2. \A a \in Slots : Settled(a)' => a = w /\ row'[a].status = "ENABLED"
  BY <1>1 DEF UserOf, Settled
<1>3. \A b \in Slots : Waits(b)' => b = w
  BY StillWaits DEF UserOf
<1> QED
  BY <1>1, <1>2, <1>3, UserOfGoesOn

(* What is written then: the row is the only one that may be enabled. *)
LEMMA UserOfWrite ==
  ASSUME Typed, Fit, NEW w \in Slots, UserOf(w), NEW t \in tasks, Write(t)
  PROVE  FirstKept
<1>1. t.at = "write" /\ RowsKept /\ UNCHANGED <<person, schools, offers, oxUser, keycloak, username, trouble>>
  BY WriteDoes
<1>2. PICK a, m : /\ Holding1(t, a, m)
                  /\ \/ ~CanWrite(a, m) /\ Still /\ Do(t, {})
                     \/ CanWrite(a, m) /\ a = 0 /\ Do(t, AfterSaved(t)) /\ \E n : Added(m, n, t.q)
                     \/ CanWrite(a, m) /\ a # 0 /\ Do(t, AfterSaved(t)) /\ Changed(m, a)
  BY WriteDoes
<1>3. /\ RowsFit /\ StatusFits(t, m) /\ HeldFits(t)
      /\ t.for = "create" => a = 0
      /\ t.for \in {"confirm", "oxid"} => a # 0
      /\ Blocked(t) => ~CanWrite(a, m)
  BY <1>1, <1>2, WriteHolds DEF Holding1
<1>4. /\ t.for \in {"create", "failed", "confirm", "oxid"} /\ ForUser(t, w) /\ DOMAIN t.held = {a} /\ m = t.held[a]
      /\ t.for = "oxid" => a = w
      /\ t.for = "confirm" => a = w \/ Blocked(t)
  BY <1>1, <1>2 DEF UserOf, ForUser, FirstTask, Aside, Gives, Confirms, Holding1
<1>5. Used(person.name) => Used(person.name)'
  BY <1>1 DEF Used
<1>6. CASE ~CanWrite(a, m)
  <2>1. Still /\ Do(t, {})
    BY <1>2, <1>6
  <2> QED
    BY <1>5, <2>1, UserOfStill
<1>7. ASSUME t.for # "oxid" PROVE \A u \in AfterSaved(t) : ForUser(u, w)
  <2>1. CASE t.for = "confirm"
    BY <1>1, <2>1, AfterSavedIs
  <2>2. CASE t.for \in {"create", "failed"}
    BY <1>1, <2>2, FirstWritten DEF ForUser, Gives, Confirms
  <2> QED
    BY <1>4, <1>7, <2>1, <2>2
<1>8. ASSUME t.for = "oxid", NEW u \in AfterSaved(t) PROVE ForUser(u, w)
  <2>1. u.at = "join" /\ u.held = t.held /\ u.text = t.text
    BY <1>1, <1>8, AfterSavedIs DEF Continues, Started1
  <2>2. t.text = m.text /\ m.text = row[w].text
    BY <1>1, <1>3, <1>4, <1>8 DEF HeldFits, Confirms
  <2> QED
    BY <1>4, <1>8, <2>1, <2>2 DEF ForUser, Gives, Confirms
<1>9. CASE CanWrite(a, m) /\ a = 0
  <2>1. m.status \in {"REQUESTED", "FAILED"} /\ (m.status = "REQUESTED" => m.ox = 0) /\ t.for # "oxid"
    BY <1>1, <1>3, <1>4, <1>9 DEF StatusFits
  <2>2. PICK n : Added(m, n, t.q)
    BY <1>2, <1>9
  <2>3. StatusKept /\ \A b \in Slots : Waits(b)' => Waits(b)
    BY <1>3, <2>1, <2>2, AddedKept
  <2>4. \A c \in Slots : Settled(c)' => c = w /\ row'[c].status = "ENABLED"
    BY <2>3 DEF UserOf, StatusKept
  <2>5. \A b \in Slots : Waits(b)' => b = w
    BY <2>3 DEF UserOf
  <2>6. \A h \in Slots : row[h].status = "FAILED" /\ h # w => row'[h].status = "FAILED"
    BY <2>2 DEF Added, NoRow
  <2> QED
    BY <1>1, <1>2, <1>5, <1>7, <1>9, <2>1, <2>4, <2>5, <2>6, UserOfGoesOn
<1>10. CASE CanWrite(a, m) /\ a # 0
  <2>1. Changed(m, a) /\ Do(t, AfterSaved(t)) /\ row'[a] = m /\ \A b \in Slots : b # a => row'[b] = row[b]
    BY <1>2, <1>10 DEF Changed
  <2>2. \/ m.status = "FAILED"
        \/ a = w /\ m.status \in {"ENABLED", "REQUESTED"}
    BY <1>1, <1>3, <1>4, <1>10 DEF StatusFits
  <2>3. \A c \in Slots : Settled(c)' => c = w /\ row'[c].status = "ENABLED"
    <3>1. ASSUME NEW c \in Slots, c # a, Settled(c)' PROVE c = w /\ row'[c].status = "ENABLED"
      <4>1. row'[c] = row[c]
        BY <2>1, <3>1
      <4>2. Settled(c)
        BY <3>1, <4>1 DEF Settled
      <4> QED
        BY <4>1, <4>2 DEF UserOf
    <3>2. Settled(a)' => a = w /\ row'[a].status = "ENABLED"
      BY <2>1, <2>2 DEF Settled
    <3> QED
      BY <3>1, <3>2
  <2>4. \A b \in Slots : Waits(b)' => b = w
    BY <2>1, <2>2 DEF Waits, UserOf
  <2>5. \A h \in Slots : row[h].status = "FAILED" /\ h # w => row'[h].status = "FAILED"
    BY <2>1, <2>2
  <2>6. \A u \in AfterSaved(t) : ForUser(u, w)
    BY <1>7, <1>8
  <2> QED
    BY <1>1, <1>5, <2>1, <2>3, <2>4, <2>5, <2>6, UserOfGoesOn
<1> QED
  BY <1>6, <1>9, <1>10

(* The other steps bring the answer of OX to it. *)
LEMMA UserOfStep ==
  ASSUME Typed, Fit, overlaps = 0, person.exists, NEW w \in Slots, UserOf(w), NEW t \in tasks, Step(t)
  PROVE  FirstKept
<1>1. /\ ForUser(t, w) /\ Shaped(t) /\ t.q \in Sessions /\ Used(person.name) /\ username[t.q] = person.name
      /\ row[w] # NoRow /\ loaded[t.q] \in Seq(Slots)
      /\ \A a \in Slots : Settled(a) => a = w /\ row[a].status = "ENABLED"
      /\ \A b \in Slots : Waits(b) => b = w
  BY TaskTyped, Rows DEF UserOf, Fit, InTurn
<1>2. ASSUME Still, UNCHANGED oxUser, NEW T, Do(t, T), \A u \in T : ForUser(u, w) PROVE FirstKept
  <2>1. Used(person.name) => Used(person.name)'
    BY <1>2 DEF Still, Used
  <2> QED
    BY <1>2, <2>1, UserOfStill
<1>3. ASSUME Still, UNCHANGED oxUser, Do(t, {}) PROVE FirstKept
  BY <1>2, <1>3
<1>4. ASSUME Still, UNCHANGED oxUser, NEW u, Do(t, {u}), ForUser(u, w) PROVE FirstKept
  BY <1>2, <1>4
<1>5. ASSUME NEW u, Fails(u, t) PROVE ForUser(u, w)
  BY <1>5 DEF Fails, ForUser, FirstTask, Gives, Confirms
<1>6. CASE FirstTask(t) /\ t.at \notin {"write", "alreadyExists", "exists"}
  <2>1. \A a \in Slots : row[a].status # "DISABLED"
    BY <1>1 DEF Settled
  <2>2. Still /\ UNCHANGED oxUser /\ LeadsOn(t)
    BY <1>6, <2>1, FirstGoes
  <2>3. PICK T : Do(t, T) /\ \A u \in T : u.q = t.q /\ FirstTask(u) /\ NewOnly(u)
    BY <2>2 DEF LeadsOn
  <2>4. \A u \in T : ForUser(u, w)
    BY <2>3 DEF ForUser, FirstTask, Gives, Confirms, Aside
  <2> QED
    BY <1>2, <2>2, <2>3, <2>4
<1>7. CASE t.at = "exists"
  <2>1. CreateExists(t)
    BY <1>7, StepAt
  <2>2. Nothing /\ Do(t, {})
    BY <1>1, <2>1, CreateExistsGoes
  <2> QED
    BY <1>3, <2>2, NothingStill
<1>8. CASE t.at = "oxCreate"
  <2>1. CreateUser(t)
    BY <1>8, StepAt
  <2>2. Still /\ UNCHANGED oxUser /\ \E u : Do(t, {u}) /\ Fails(u, t)
    BY <1>1, <2>1, CreateUserGoes
  <2> QED
    BY <1>4, <1>5, <2>2
<1>9. CASE t.at = "alreadyExists"
  <2>1. AlreadyExists(t)
    BY <1>9, StepAt
  <2>2. /\ Nothing
        /\ \/ Do(t, {})
           \/ /\ person.exists /\ OxUserId(t.q) # 0
              /\ \E u : Do(t, {u}) /\ Started1(u, t, "join") /\ u.todo = t.todo /\ u.text = EmailOf(loaded[t.q])
    BY <2>1, AlreadyExistsGoes
  <2>3. CASE Do(t, {})
    BY <1>3, <2>2, <2>3, NothingStill
  <2>4. ASSUME OxUserId(t.q) # 0, NEW u, Do(t, {u}), Started1(u, t, "join"), u.text = EmailOf(loaded[t.q])
        PROVE  FirstKept
    <3>1. PICK seq : seq = loaded[t.q]
      OBVIOUS
    <3>2. /\ seq # <<>> /\ seq[1] \in Slots /\ row[seq[1]] # NoRow
          /\ \/ EmailOf(seq) = row[seq[1]].text
             \/ \E a \in Slots : row[a].status = "ENABLED" /\ EmailOf(seq) = row[a].text
          /\ row[seq[1]].status = "REQUESTED" => Waits(seq[1])
      BY <1>1, <2>4, <3>1, CopiedText
    <3>3. PICK h : h = seq[1]
      OBVIOUS
    <3>4. row[h].status \in EmailAddressStatus
      BY <3>2, <3>3, Rows
    <3>5. u.text = row[w].text \/ (h # w /\ row[h].status = "FAILED" /\ row[h].text = u.text)
      <4>1. CASE \E a \in Slots : row[a].status = "ENABLED" /\ EmailOf(seq) = row[a].text
        BY <1>1, <2>4, <3>1, <4>1 DEF Settled
      <4>2. CASE EmailOf(seq) = row[h].text /\ h # w
        BY <1>1, <2>4, <3>1, <3>2, <3>3, <3>4, <4>2 DEF Settled, EmailAddressStatus
      <4>3. CASE EmailOf(seq) = row[h].text /\ h = w
        BY <2>4, <3>1, <4>3
      <4> QED
        BY <3>2, <3>3, <4>1, <4>2, <4>3
    <3>6. h \in Slots
      BY <3>2, <3>3
    <3>7. ForUser(u, w)
      BY <2>4, <3>5, <3>6 DEF ForUser, Gives, Confirms, Started1
    <3> QED
      BY <1>4, <2>2, <2>4, <3>7, NothingStill
  <2> QED
    BY <2>2, <2>3, <2>4
<1>10. CASE t.at \in {"join", "keycloakSet"}
  <2>1. /\ Still /\ UNCHANGED oxUser
        /\ \/ Do(t, {})
           \/ \E u : Do(t, {u}) /\ u.at \in {"keycloakSet", "confirm"} /\ u.text = t.text
           \/ \E u : Do(t, {u}) /\ Fails(u, t)
    <3>1. CASE Join(t)
      BY <3>1, JoinGoes DEF Started1
    <3>2. CASE KeycloakSet(t)
      BY <3>2, KeycloakSetGoes DEF Started1
    <3> QED
      BY <1>10, <3>1, <3>2, StepAt
  <2>2. ASSUME NEW u, Do(t, {u}), u.at \in {"keycloakSet", "confirm"}, u.text = t.text PROVE FirstKept
    <3>1. ForUser(u, w)
      BY <1>1, <1>10, <2>2 DEF ForUser, Gives, Confirms
    <3> QED
      BY <1>4, <2>1, <2>2, <3>1
  <2>3. ASSUME NEW u, Do(t, {u}), Fails(u, t) PROVE FirstKept
    BY <1>4, <1>5, <2>1, <2>3
  <2> QED
    BY <1>3, <2>1, <2>2, <2>3
<1>11. CASE t.at = "confirm"
  <2>1. Confirm(t)
    BY <1>11, StepAt
  <2>2. PICK a : a = Due
    OBVIOUS
  <2>3. Nothing /\ (Do(t, {}) \/ (a # 0 /\ \E u : Do(t, {u}) /\ TakesUp(u, t, a)))
    BY <2>1, <2>2, ConfirmGoes
  <2>4. CASE Do(t, {})
    BY <1>3, <2>3, <2>4, NothingStill
  <2>5. ASSUME a # 0, NEW u, Do(t, {u}), TakesUp(u, t, a) PROVE FirstKept
    <3>1. row[a].status = "REQUESTED" /\ a \in Slots
      BY <2>2, <2>5, NewestRequested
    <3>2. t.text = row[w].text \/ \E h \in Slots : h # w /\ row[h].status = "FAILED" /\ row[h].text = t.text
      BY <1>1, <1>11 DEF ForUser, Gives
    <3>3. DOMAIN u.held = {w} \/ Blocked(u)
      <4>1. CASE \E h \in Slots : h # w /\ row[h].status = "FAILED" /\ row[h].text = t.text
        BY <2>5, <3>1, <4>1 DEF Blocked, TakesUp, NoRow
      <4>2. CASE t.text = row[w].text
        BY <1>1, <2>5, <3>1, <4>2 DEF Blocked, TakesUp
      <4> QED
        BY <3>2, <4>1, <4>2
    <3>4. ForUser(u, w)
      BY <2>5, <3>3 DEF ForUser, Gives, Confirms, TakesUp
    <3> QED
      BY <1>4, <2>3, <2>5, <3>4, NothingStill
  <2> QED
    BY <2>3, <2>4, <2>5
<1>12. CASE t.at = "save" /\ t.for \in {"oxid", "confirm"}
  <2>1. CheckSave(t)
    BY <1>12, StepAt
  <2>2. CASE Enabled = {}
    <3>1. PICK u : /\ Do(t, {u}) /\ u.q = t.q /\ u.at = "write" /\ u.for = t.for /\ u.held = t.held
                   /\ u.todo = t.todo /\ u.text = t.text
      BY <2>1, <2>2, CheckSaveGoes
    <3>2. ForUser(u, w)
      BY <1>1, <1>12, <3>1 DEF ForUser, Gives, Confirms, Blocked, FirstTask, Aside
    <3> QED
      BY <1>4, <2>1, <3>1, <3>2, CheckSaveGoes, NothingStill
  <2>3. CASE Enabled # {} /\ t.for = "oxid"
    <3>1. PICK u : Do(t, {u}) /\ Fails(u, t)
      BY <2>1, <2>3, CheckSaveGoes
    <3> QED
      BY <1>4, <1>5, <2>1, <3>1, CheckSaveGoes, NothingStill
  <2>4. CASE Enabled # {} /\ t.for = "confirm"
    <3>1. Do(t, {})
      BY <2>1, <2>4, CheckSaveGoes
    <3> QED
      BY <1>3, <2>1, <3>1, CheckSaveGoes, NothingStill
  <2> QED
    BY <1>12, <2>2, <2>3, <2>4
<1>13. CASE t.at = "write"
  BY <1>13, StepAt, UserOfWrite
<1> QED
  BY <1>1, <1>6, <1>7, <1>8, <1>9, <1>10, <1>11, <1>12, <1>13 DEF ForUser, Gives, Confirms

(* So a first address is the only one. *)
LEMMA FirstStep ==
  ASSUME Typed, Fit, overlaps = 0, person.exists, First, NEW t \in tasks, Step(t)
  PROVE  FirstKept
BY UserWasStep, NoUserStep, UserOfStep DEF First

-----------------------------------------------------------------------------
(* A person who is being deleted                                           *)

(* From then on addresses are only disabled. *)
LeavingKept == OneEnabled' /\ Leaving'

(* A step has to enable none, and to give back no school. *)
LEMMA LeavingGoesOn ==
  ASSUME OneEnabled, Leaving, NEW t, NEW T, Do(t, T), \A u \in T : u.at \in GonePlaces \ {"person"},
         keycloak' = "gone", schools' \subseteq schools,
         \A a \in Slots : row'[a].status = "ENABLED" => row[a].status = "ENABLED"
  PROVE  LeavingKept
BY DEF LeavingKept, OneEnabled, Leaving, Do

(* Which is so if the table stays as it is. *)
LEMMA LeavingStill ==
  ASSUME OneEnabled, Leaving, NEW t, NEW T, Do(t, T), \A u \in T : u.at \in GonePlaces \ {"person"}, Still
  PROVE  LeavingKept
<1>1. keycloak' = "gone" /\ schools' = schools /\ row' = row
  BY DEF Still, Leaving
<1> QED
  BY <1>1, LeavingGoesOn

(* And so does every step of a handler in progress. *)
LEMMA LeavingStep ==
  ASSUME Typed, Fit, OneEnabled, Leaving, NEW t \in tasks, Step(t)
  PROVE  LeavingKept
<1>1. keycloak = "gone" /\ t.at \in GonePlaces /\ (t.at = "person" => schools \subseteq t.school)
  BY DEF Leaving
<1>2. CASE t.at = "person"
  <2>1. HandlePerson(t)
    BY <1>2, StepAt
  <2>2. Entitled \subseteq t.school
    BY <1>1, <1>2 DEF Entitled
  <2>3. PICK u : Do(t, {u}) /\ Started1(u, t, "without")
    BY <2>1, <2>2, HandlePersonGoes
  <2>4. Still
    BY <2>1, HandlePersonGoes, NothingStill
  <2>5. \A v \in {u} : v.at \in GonePlaces \ {"person"}
    BY <2>3 DEF Started1, GonePlaces
  <2> QED
    BY <2>3, <2>4, <2>5, LeavingStill
<1>3. CASE t.at = "without"
  <2>1. DisableRead(t)
    BY <1>3, StepAt
  <2>2. Still
    BY <2>1, DisableReadGoes, NothingStill
  <2>3. \E T : Do(t, T) /\ \A u \in T : u.at = "disable"
    <3>1. CASE Do(t, {})
      BY <3>1
    <3>2. ASSUME NEW u, Do(t, {u}), u.at = "disable" PROVE \E T : Do(t, T) /\ \A v \in T : v.at = "disable"
      BY <3>2
    <3> QED
      BY <2>1, <3>1, <3>2, DisableReadGoes
  <2>4. PICK T : Do(t, T) /\ \A u \in T : u.at = "disable"
    BY <2>3
  <2>5. \A u \in T : u.at \in GonePlaces \ {"person"}
    BY <2>4 DEF GonePlaces
  <2> QED
    BY <2>2, <2>4, <2>5, LeavingStill
<1>4. CASE t.at = "disable" /\ DisableOne(t)
  <2>1. UNCHANGED <<person, schools, offers, oxUser, keycloak, username>> /\ HandlersFit
    BY <1>4, DisableOneGoes DEF Fit
  <2>2. PICK a \in DOMAIN t.held : \E u :
          /\ a \in Slots /\ t.held[a] \in EmailAddress
          /\ Do(t, {u}) /\ u.q = t.q /\ u.at = "disable" /\ u.todo = t.todo
          /\ DOMAIN u.held = DOMAIN t.held \ {a} /\ \A b \in DOMAIN u.held : u.held[b] = t.held[b]
          /\ \/ CanWrite(a, t.held[a]) /\ Update(a, t.held[a]) /\ UNCHANGED trouble
             \/ CanWrite(a, t.held[a]) /\ Fault /\ UNCHANGED <<row, order, loaded>>
             \/ ~CanWrite(a, t.held[a]) /\ UNCHANGED trouble /\ UNCHANGED <<row, order, loaded>>
    BY <1>4, DisableOneGoes
  <2>3. PICK u : Do(t, {u}) /\ u.at = "disable"
    BY <2>2
  <2>6. t.held[a].status = "DISABLED"
    BY <1>4, <2>1 DEF HandlersFit, HeldFits, StatusFits
  <2>4. ASSUME NEW b \in Slots, row'[b].status = "ENABLED" PROVE row[b].status = "ENABLED"
    BY <2>2, <2>4, <2>6, Rows DEF Update
  <2>5. \A v \in {u} : v.at \in GonePlaces \ {"person"}
    BY <2>3 DEF GonePlaces
  <2> QED
    BY <1>1, <2>1, <2>3, <2>4, <2>5, LeavingGoesOn
<1>5. CASE t.at = "disable" /\ DisableDone(t)
  <2>1. Still
    BY <1>5, DisableDoneGoes, NothingStill
  <2>2. PICK T : Do(t, T) /\ \A u \in T : Started1(u, t, "disabledInOx") \/ Started1(u, t, "disabledInKeycloak")
    BY <1>5, DisableDoneGoes
  <2>3. \A u \in T : u.at \in GonePlaces \ {"person"}
    BY <2>2 DEF Started1, GonePlaces
  <2> QED
    BY <2>1, <2>2, <2>3, LeavingStill
<1>6. CASE t.at \in SideSteps
  <2>1. LeaveRead(t) \/ DisabledInOx(t) \/ ListGroups(t) \/ Leave(t) \/ LeaveDone(t) \/ KeycloakUnset(t)
    BY <1>6, StepAt
  <2>2. Still /\ \E T : Do(t, T) /\ \A u \in T : Aways(u, t)
    BY <2>1, SideStepGoes
  <2>3. PICK T : Do(t, T) /\ \A u \in T : Aways(u, t)
    BY <2>2
  <2>4. \A u \in T : u.at \in GonePlaces \ {"person"}
    BY <2>3 DEF Aways, GonePlaces
  <2> QED
    BY <2>2, <2>3, <2>4, LeavingStill
<1>7. CASE t.at = "deactivate"
  <2>1. Deactivate(t)
    BY <1>7, StepAt
  <2>2. \A a \in Slots : row'[a] # row[a] => row'[a].status = "DISABLED"
    BY <2>1, DeactivateFits
  <2>3. \A a \in Slots : row'[a].status = "ENABLED" => row[a].status = "ENABLED"
    BY <2>2
  <2>4. Do(t, {}) /\ keycloak' = keycloak /\ schools' = schools
    BY <2>1 DEF Deactivate
  <2> QED
    BY <1>1, <2>3, <2>4, LeavingGoesOn
<1>8. CASE t.at = "deleted"
  <2>1. DeletedInOx(t)
    BY <1>8, StepAt
  <2>2. Still
    BY <2>1, DeletedInOxGoes, NothingStill
  <2>3. PICK T : Do(t, T) /\ \A u \in T : u.q = t.q /\ u.at = "list" /\ u.held = <<>>
    BY <2>1, DeletedInOxGoes
  <2>4. \A u \in T : u.at \in GonePlaces \ {"person"}
    BY <2>3 DEF GonePlaces
  <2> QED
    BY <2>2, <2>3, <2>4, LeavingStill
<1>9. CASE t.at = "retire" \/ t.at = "deleteRow"
  <2>1. Retire(t) \/ DeleteRow(t)
    BY <1>9, StepAt
  <2>2. Do(t, {}) /\ row' = row /\ keycloak' = keycloak /\ schools' \subseteq schools
    BY <2>1 DEF Retire, DeleteRow, table
  <2> QED
    BY <1>1, <2>2, LeavingGoesOn
<1> QED
  BY <1>1, <1>2, <1>3, <1>4, <1>5, <1>6, <1>7, <1>8, <1>9, StepAt DEF GonePlaces, SideSteps

(* Until then, a step leaves the person and its user there. *)
LEMMA StaysThere ==
  ASSUME Typed, NEW t \in tasks, Step(t), t.at # "deleteRow", person.exists, keycloak # "gone"
  PROVE  person'.exists /\ keycloak' # "gone" /\ person' = person
<1>1. ~DeleteRow(t)
  BY DEF DeleteRow, At
<1>2. CASE KeycloakSet(t) \/ KeycloakUnset(t)
  BY <1>2 DEF KeycloakSet, KeycloakUnset
<1>3. CASE CheckSave(t) \/ Write(t) \/ HandlePerson(t) \/ CreateOrEnable(t) \/ Generate(t)
  BY <1>3 DEF CheckSave, Write, HandlePerson, CreateOrEnable, Generate
<1>4. CASE DisableRead(t) \/ DisableDone(t) \/ HandleRenamed(t) \/ RenamedWith(t) \/ RenamedWithout(t) \/ DisableOne(t)
  BY <1>4 DEF DisableRead, DisableDone, HandleRenamed, RenamedWith, RenamedWithout, DisableOne
<1>5. CASE Confirm(t) \/ ConfirmDisabled(t) \/ Deactivate(t) \/ CreateRead(t) \/ CreateExists(t)
  BY <1>5 DEF Confirm, ConfirmDisabled, Deactivate, CreateRead, CreateExists
<1>6. CASE CreateUser(t) \/ Join(t) \/ ChangeUser(t) \/ AlreadyExists(t) \/ ChangeRead(t)
  BY <1>6 DEF CreateUser, Join, ChangeUser, AlreadyExists, ChangeRead
<1>7. CASE LeaveRead(t) \/ DisabledInOx(t) \/ DeletedInOx(t) \/ LeaveDone(t) \/ ListGroups(t) \/ Leave(t) \/ Retire(t)
  BY <1>7 DEF LeaveRead, DisabledInOx, DeletedInOx, LeaveDone, ListGroups, Leave, Retire
<1> QED
  BY <1>1, <1>2, <1>3, <1>4, <1>5, <1>6, <1>7 DEF Step

-----------------------------------------------------------------------------
(* One handler after the other                                             *)

(* A step that changes neither the table nor the rights leaves what a handler *)
(* in the line is about as it is.                                             *)
LEMMA FixesStill ==
  ASSUME Still, NEW u, NEW b \in Slots
  PROVE  Fixes(u, b)' <=> Fixes(u, b)
<1>1. /\ Due' = Due /\ (Entitled' = {} <=> Entitled = {}) /\ (NothingEnabled' <=> NothingEnabled)
      /\ (NoneSettled' <=> NoneSettled) /\ row' = row
  BY StillNewest DEF Still, Entitled, NothingEnabled, NoneSettled, Settled
<1>2. Answers(u, b)' <=> Answers(u, b)
  BY <1>1 DEF Answers, Confirms
<1> QED
  BY <1>1, <1>2 DEF Fixes, WillServe

(* So what a handler in the line holds is still right for it. *)
LEMMA InLineStill ==
  ASSUME Still, Calm' => Calm, NEW u, InLine(u), u.at # "person"
  PROVE  InLine(u)'
<1>1. Due' = Due /\ (NothingEnabled' <=> NothingEnabled) /\ row' = row
  BY StillNewest DEF Still, NothingEnabled
<1>2. AboutNewest(u)' <=> AboutNewest(u)
  BY <1>1 DEF AboutNewest
<1>3. \A x : HasText(x)' <=> HasText(x)
  BY <1>1 DEF HasText
<1> QED
  BY <1>1, <1>2, <1>3 DEF InLine, ForNew, Requesting

(* What is in the line is not one of the handlers beside it. *)
LEMMA InLineIsLine ==
  ASSUME NEW u, InLine(u) PROVE Line(u)
BY DEF InLine, Line, LinePlaces

(* The others in progress do not answer for an address that waits. *)
LEMMA SideFixesNot ==
  ASSUME NEW u, ~Line(u), NEW b PROVE ~Fixes(u, b)
BY DEF Line, Fixes, Answers, Confirms, WillServe

(* The handler goes on to the next: what waits is settled by then, or the next *)
(* one sees to it.                                                             *)
OneKept == OneEnabled' /\ (OneLine' \/ After' \/ Before' \/ First')

(* It has to be the only one, and the address enabled no more than one. *)
LEMMA LineGoesOn ==
  ASSUME OneEnabled', OneLine, NEW t \in tasks, Line(t), NEW T, Do(t, T),
         \A u \in T : (Line(u) => InLine(u)') /\ (~Line(u) => u.for # "deleted"),
         \A u, v \in T : Line(u) /\ Line(v) => u = v,
         \A b \in Slots : Waits(b)' => Ahead(b)' \/ Served' \/ \E u \in T : Fixes(u, b)',
         Calm' => \A b \in Slots : ~Waits(b)'
  PROVE  OneKept
<1>1. \A u \in tasks \ {t} : ~Line(u) /\ u.for # "deleted"
  BY DEF OneLine
<1>2. \A u, v \in tasks' : Line(u) /\ Line(v) => u = v
  BY <1>1 DEF Do
<1>3. \A u \in tasks' : IF Line(u) THEN InLine(u)' ELSE u.for # "deleted"
  BY <1>1 DEF Do
<1>4. Settles'
  BY DEF Settles, Do
<1>5. \A u : Line(u)' <=> Line(u)
  BY DEF Line
<1>6. OneLine'
  BY <1>2, <1>3, <1>4, <1>5 DEF OneLine
<1> QED
  BY <1>6 DEF OneKept

(* If the table stays, what the next one sees to has to be what this one did. *)
LEMMA LineStill ==
  ASSUME OneEnabled, OneLine, NEW t \in tasks, Line(t), Still, Calm' => Calm, Used(person.name) => Used(person.name)',
         NEW T, Do(t, T),
         \A u \in T : (Line(u) => InLine(u) /\ u.at # "person") /\ (~Line(u) => u.for # "deleted"),
         \A u, v \in T : Line(u) /\ Line(v) => u = v,
         \A b \in Slots : Waits(b) /\ ~Served /\ Fixes(t, b) => Served' \/ \E u \in T : Fixes(u, b)
  PROVE  OneKept
<1>1. \A u \in T : (Line(u) => InLine(u)') /\ (~Line(u) => u.for # "deleted")
  BY InLineStill
<1>2. Served => Served'
  BY DEF Served, NoneSettled, Settled, Still, Entitled
<1>3. ASSUME NEW b \in Slots, Waits(b)' PROVE Ahead(b)' \/ Served' \/ \E u \in T : Fixes(u, b)'
  <2>1. Waits(b) /\ (Ahead(b)' <=> Ahead(b))
    BY <1>3, StillWaits
  <2>2. CASE Ahead(b) \/ Served
    BY <1>2, <2>1, <2>2
  <2>3. CASE \E u \in tasks : Fixes(u, b)
    <3>1. Fixes(t, b)
      BY <2>3, SideFixesNot DEF OneLine
    <3>2. Served' \/ \E u \in T : Fixes(u, b)
      BY <1>2, <2>1, <3>1
    <3> QED
      BY <3>2, FixesStill
  <2> QED
    BY <2>1, <2>2, <2>3 DEF OneLine, Settles
<1>4. Calm' => \A b \in Slots : ~Waits(b)'
  BY StillWaits DEF OneLine
<1>5. OneEnabled'
  BY DEF OneEnabled, Still
<1> QED
  BY <1>1, <1>3, <1>4, <1>5, LineGoesOn

(* There is one next, or none. *)
LEMMA LineToOne ==
  ASSUME OneEnabled, OneLine, NEW t \in tasks, Line(t), Still, Calm' => Calm, Used(person.name) => Used(person.name)',
         NEW u, Do(t, {u}), InLine(u), u.at # "person",
         \A b \in Slots : Waits(b) /\ ~Served /\ Fixes(t, b) => Served' \/ Fixes(u, b)
  PROVE  OneKept
<1>1. PICK T : T = {u}
  OBVIOUS
<1>2. /\ Do(t, T) /\ \A v, w \in T : Line(v) /\ Line(w) => v = w
      /\ \A v \in T : InLine(v) /\ v.at # "person" /\ Line(v)
      /\ \A b \in Slots : Waits(b) /\ ~Served /\ Fixes(t, b) => Served' \/ \E v \in T : Fixes(v, b)
  BY <1>1, InLineIsLine
<1> QED
  BY <1>2, LineStill

(* The last one ends when nothing is left for it to see to. *)
LEMMA LineToNone ==
  ASSUME OneEnabled, OneLine, NEW t \in tasks, Line(t), Still, Calm' => Calm, Used(person.name) => Used(person.name)',
         Do(t, {}), \A b \in Slots : Waits(b) /\ ~Served => ~Fixes(t, b)
  PROVE  OneKept
<1>1. PICK T : T = {}
  OBVIOUS
<1>2. Do(t, T)
  BY <1>1
<1> QED
  BY <1>1, <1>2, LineStill

(* A handler beside the line. *)
LEMMA SideStep ==
  ASSUME Typed, OneEnabled, OneLine, NEW t \in tasks, ~Line(t), Step(t), Calm' => Calm
  PROVE  OneKept
<1>1. t.at \in SideSteps /\ t.for # "deleted"
  BY DEF OneLine, Line, SideSteps
<1>2. LeaveRead(t) \/ DisabledInOx(t) \/ ListGroups(t) \/ Leave(t) \/ LeaveDone(t) \/ KeycloakUnset(t)
  BY <1>1, StepAt
<1>3. Still /\ UNCHANGED oxUser /\ \E T : Do(t, T) /\ \A u \in T : Aways(u, t)
  BY <1>2, SideStepGoes
<1>4. PICK T : Do(t, T) /\ \A u \in T : Aways(u, t)
  BY <1>3
<1>5. \A u \in T : ~Line(u) /\ u.for # "deleted" /\ (Aside(t) => Aside(u))
  BY <1>1, <1>4 DEF Aways, Line, Aside
<1>6. ASSUME NEW u \in tasks \ {t}, Line(u) PROVE InLine(u)'
  <2>1. InLine(u)
    BY <1>6 DEF OneLine
  <2>2. CASE u.at # "person"
    BY <1>3, <2>1, <2>2, InLineStill
  <2>3. CASE u.at = "person"
    <3>1. u.school = {} /\ loaded[u.q] = order /\ u.todo = {} /\ \A v \in tasks \ {u} : Aside(v)
      BY <2>1, <2>3 DEF InLine
    <3>2. \A v \in tasks' \ {u} : Aside(v)
      BY <1>4, <1>5, <1>6, <3>1 DEF Do
    <3>3. loaded'[u.q] = order'
      BY <1>3, <3>1 DEF Still
    <3>4. u.at \in LinePlaces
      BY <2>3 DEF LinePlaces
    <3>5. \A v : Aside(v)' <=> Aside(v)
      BY DEF Aside
    <3> QED
      BY <2>3, <3>1, <3>2, <3>3, <3>4, <3>5 DEF InLine, ForNew, Requesting
  <2> QED
    BY <2>2, <2>3
<1>7. \A u, v \in tasks' : Line(u) /\ Line(v) => u = v
  BY <1>4, <1>5 DEF OneLine, Do
<1>8. \A u \in tasks' : IF Line(u) THEN InLine(u)' ELSE u.for # "deleted"
  BY <1>4, <1>5, <1>6 DEF OneLine, Do
<1>9. Settles'
  <2>1. Served => Served'
    BY <1>3 DEF Served, NoneSettled, Settled, Still, Entitled, Used
  <2>2. ASSUME NEW b \in Slots, Waits(b)' PROVE Ahead(b)' \/ Served' \/ \E u \in tasks' : Fixes(u, b)'
    <3>1. Waits(b) /\ (Ahead(b)' <=> Ahead(b))
      BY <1>3, <2>2, StillWaits
    <3>2. ASSUME NEW u \in tasks, Fixes(u, b) PROVE u \in tasks' /\ Fixes(u, b)'
      BY <1>3, <1>4, <3>2, FixesStill, SideFixesNot DEF Do
    <3> QED
      BY <2>1, <3>1, <3>2 DEF OneLine, Settles
  <2> QED
    BY <2>2 DEF Settles
<1>10. Calm' => \A b \in Slots : ~Waits(b)'
  BY <1>3, StillWaits DEF OneLine
<1>11. \A u : Line(u)' <=> Line(u)
  BY DEF Line
<1>12. OneLine'
  BY <1>7, <1>8, <1>9, <1>10, <1>11 DEF OneLine
<1>13. OneEnabled'
  BY <1>3 DEF OneEnabled, Still
<1> QED
  BY <1>12, <1>13 DEF OneKept

(* A row that is taken up, or disabled, moves to the front of those that wait. *)
LEMMA LineChanged ==
  ASSUME Typed, Fit, OneEnabled', OneLine, NEW t \in tasks, Line(t), NEW m, NEW a, Changed(m, a), m # row[a],
         m.status \in {"ENABLED", "DISABLED"}, NEW T, Do(t, T), Calm' => Calm,
         \A u \in T : InLine(u)', \A u, v \in T : u = v
  PROVE  OneKept
<1>1. a \in Slots /\ Settled(a)' /\ row'[a] = m
  BY DEF Changed, Settled
<1>2. ASSUME NEW b \in Slots, Waits(b)' PROVE Waits(b) /\ Ahead(b)'
  <2>1. b # a
    BY <1>1, <1>2 DEF Waits
  <2> QED
    BY <1>1, <1>2, <2>1, ChangedKept DEF Fit
<1>3. Calm' => \A b \in Slots : ~Waits(b)'
  BY <1>2 DEF OneLine
<1>4. \A u \in T : Line(u)
  BY DEF InLine, Line, LinePlaces
<1> QED
  BY <1>2, <1>3, <1>4, LineGoesOn

(* One that is given up, or told of the user that was made for it. *)
LEMMA LineKeeps ==
  ASSUME OneEnabled, OneLine, NEW t \in tasks, Line(t), StatusKept, UNCHANGED <<person, schools, offers, oxUser>>,
         NEW T, Do(t, T), Calm' => Calm, \A u \in T : InLine(u)', \A u, v \in T : u = v,
         \A b \in Slots : Waits(b)' =>
            \/ Waits(b) /\ (Ahead(b) => Ahead(b)') /\ (Fixes(t, b) => \E u \in T : Fixes(u, b)')
            \/ ~Calm' /\ \E u \in T : Fixes(u, b)'
  PROVE  OneKept
<1>1. Served => Served'
  BY DEF Served, NoneSettled, StatusKept, Entitled, Used
<1>2. OneEnabled'
  BY DEF OneEnabled, StatusKept
<1>3. \A u \in T : Line(u)
  BY DEF InLine, Line, LinePlaces
<1>4. ASSUME NEW b \in Slots, Waits(b)' PROVE Ahead(b)' \/ Served' \/ \E u \in T : Fixes(u, b)'
  <2>1. CASE \E u \in T : Fixes(u, b)'
    BY <2>1
  <2>2. CASE /\ Waits(b) /\ (Ahead(b) => Ahead(b)')
             /\ Fixes(t, b) => \E u \in T : Fixes(u, b)'
    <3>1. CASE Ahead(b) \/ Served
      BY <1>1, <2>2, <3>1
    <3>2. CASE \E u \in tasks : Fixes(u, b)
      <4>1. Fixes(t, b)
        BY <3>2, SideFixesNot DEF OneLine
      <4> QED
        BY <2>2, <4>1
    <3> QED
      BY <2>2, <3>1, <3>2 DEF OneLine, Settles
  <2> QED
    BY <1>4, <2>1, <2>2
<1>5. Calm' => \A b \in Slots : ~Waits(b)'
  BY DEF OneLine
<1> QED
  BY <1>2, <1>3, <1>4, <1>5, LineGoesOn

(* A save that is refused, *)
LEMMA LineRefused ==
  ASSUME Typed, Fit, person.exists, OneEnabled, OneLine, NEW t \in tasks, t.at = "write", InLine(t), Calm' => Calm,
         NEW a, NEW m, Holding1(t, a, m), ~CanWrite(a, m), Still, Used(person.name) => Used(person.name)', Do(t, {})
  PROVE  OneKept
<1>1. a \in 0 .. MaxAddresses /\ DOMAIN t.held = {a} /\ m = t.held[a] /\ Line(t)
  BY InLineIsLine DEF Holding1
<1>2. /\ m.text # 0 /\ RowsFit
      /\ a # 0 => a \in Slots /\ row[a] # NoRow
      /\ t.for \in {"create", "change", "disabled"} => a = 0
  BY <1>1, WriteHolds
<1>3. t.for # "create"
  <2>1. ASSUME t.for = "create" PROVE FALSE
    <3>1. a = 0 /\ ~HasText(m.text)
      BY <1>1, <1>2, <2>1 DEF InLine, ForNew
    <3> QED
      BY <1>2, <3>1, CanWriteNew
  <2> QED
    BY <2>1
<1>4. ASSUME NEW b \in Slots, Waits(b) PROVE ~Fixes(t, b)
  <2>1. b # 0
    BY <1>4, Rows
  <2>2. ASSUME Fixes(t, b) PROVE a = b /\ (m.text = row[b].text \/ t.for = "failed")
    BY <1>1, <1>3, <1>4, <2>2 DEF Fixes, Answers, Confirms, WillServe
  <2>3. ASSUME Fixes(t, b) PROVE m.text = row[b].text
    <3>1. CASE t.for = "failed"
      BY <1>1, <2>1, <2>2, <2>3, <3>1, WriteHolds
    <3> QED
      BY <2>2, <2>3, <3>1
  <2> QED
    BY <1>2, <2>1, <2>2, <2>3, CanWriteOwn
<1> QED
  BY <1>1, <1>4, LineToNone

(* one that adds a row, *)
LEMMA LineAdded ==
  ASSUME Typed, Fit, OneEnabled, OneLine, NEW t \in tasks, t.at = "write", InLine(t), Calm' => Calm,
         UNCHANGED <<person, schools, offers, oxUser>>,
         NEW m, Holding1(t, 0, m), NEW n, NEW q, Added(m, n, q), Do(t, AfterSaved(t))
  PROVE  OneKept
<1>1. DOMAIN t.held = {0} /\ m = t.held[0] /\ Line(t) /\ Shaped(t) /\ t.todo = {} /\ t.for # "enable"
  BY InLineIsLine, TaskTyped DEF Holding1, InLine
<1>2. StatusFits(t, m) /\ RowsFit /\ t.for \in {"create", "change", "disabled", "failed"}
  BY <1>1, WriteHolds, BoundsAssumption
<1>3. m.status \in {"REQUESTED", "FAILED"} /\ (m.status = "REQUESTED" => m.ox = 0)
  BY <1>2 DEF StatusFits
<1>4. /\ StatusKept
      /\ \A b \in Slots : Waits(b)' => b # n /\ Waits(b)
      /\ \A b \in Slots : Waits(b)' /\ Ahead(b) => Ahead(b)'
  BY <1>2, <1>3, AddedKept
<1>5. \A u \in AfterSaved(t) : Continues(u, t)
  BY AfterSavedIs
<1>6. ASSUME NEW u \in AfterSaved(t) PROVE InLine(u)'
  <2>1. /\ u.held = <<>> /\ u.todo = {}
        /\ (u.at = "create" /\ t.for = "create") \/ u.at = "change"
    BY <1>1, <1>2, <1>5, <1>6, AfterSavedIs DEF Continues, Started1
  <2>2. u.at = "create" => ~Calm
    BY <2>1 DEF InLine, Requesting
  <2> QED
    BY <2>1, <2>2 DEF InLine, LinePlaces, ForNew, Requesting
<1>7. \A u, v \in AfterSaved(t) : u = v
  BY <1>1, AfterSavedIs
<1>8. ASSUME NEW b \in Slots, Fixes(t, b) PROVE \E u \in AfterSaved(t) : Fixes(u, b)'
  <2>1. b # 0
    BY Rows
  <2>2. NoneSettled /\ Entitled # {} /\ t.for = "create"
    BY <1>1, <1>2, <1>8, <2>1 DEF Fixes, Answers, Confirms, WillServe
  <2>3. PICK u \in AfterSaved(t) : u.at = "create"
    BY <2>2, AfterSavedIs
  <2>4. NoneSettled' /\ Entitled' # {}
    BY <1>4, <2>2 DEF NoneSettled, StatusKept, Entitled
  <2> QED
    BY <2>3, <2>4 DEF Fixes, WillServe
<1> QED
  BY <1>1, <1>4, <1>6, <1>7, <1>8, LineKeeps

(* and one that changes a row. *)
LEMMA LineRewritten ==
  ASSUME Typed, Fit, person.exists, person'.exists, Typed', OneEnabled, OneLine, NEW t \in tasks, t.at = "write", InLine(t),
         Calm' => Calm, UNCHANGED <<person, schools, offers, oxUser, username>>, keycloak' = keycloak,
         NEW a, a # 0, NEW m, Holding1(t, a, m), Changed(m, a), Do(t, AfterSaved(t))
  PROVE  OneKept
<1>1. /\ DOMAIN t.held = {a} /\ m = t.held[a] /\ Line(t) /\ Shaped(t) /\ t.todo = {} /\ t.for # "enable"
      /\ a \in Slots /\ row'[a] = m /\ row[a] # NoRow /\ \A b \in Slots : b # a => row'[b] = row[b]
  BY InLineIsLine, TaskTyped DEF Holding1, InLine, Changed
<1>2. StatusFits(t, m) /\ RowsFit /\ HeldFits(t) /\ t.for \in {"oxid", "confirm", "failed", "rename", "disable"}
  <2>1. a \in 0 .. MaxAddresses
    BY DEF Holding1
  <2> QED
    BY <1>1, <2>1, WriteHolds DEF Shaped
<1>3. /\ t.for = "confirm" => m.status = "ENABLED"
      /\ t.for \in {"rename", "disable"} => m.status = "DISABLED"
      /\ t.for = "oxid" => m.status = "REQUESTED"
      /\ t.for = "failed" => m.status = "FAILED"
  BY <1>2 DEF StatusFits
<1>4. \A u \in AfterSaved(t) : Continues(u, t)
  BY AfterSavedIs
<1>5. \A u, v \in AfterSaved(t) : u = v
  BY <1>1, AfterSavedIs
<1>6. Used(person.name) => Used(person.name)'
  BY DEF Used
<1>7. CASE t.for \in {"confirm", "rename", "disable"}
  <2>1. ASSUME NEW u \in AfterSaved(t) PROVE u.at = "generate" /\ u.for = "change" /\ u.held = <<>> /\ u.todo = {}
    BY <1>4, <1>7, <2>1, AfterSavedIs DEF Continues, Started1
  <2>2. \A u \in AfterSaved(t) : InLine(u)' /\ InLine(u) /\ Line(u) /\ u.at # "person"
    BY <2>1 DEF InLine, LinePlaces, ForNew, Requesting, Line
  <2>3. CASE m # row[a]
    <3>1. OneEnabled'
      <4>1. t.for = "confirm" => NothingEnabled
        BY <1>1 DEF InLine
      <4> QED
        BY <1>1, <1>3, <1>7, <4>1 DEF OneEnabled, NothingEnabled
    <3>2. m.status \in {"ENABLED", "DISABLED"}
      BY <1>3, <1>7
    <3> QED
      BY <1>1, <1>5, <2>2, <2>3, <3>1, <3>2, LineChanged
  <2>4. CASE m = row[a]
    <3>1. Still
      BY <2>4 DEF Changed, Still
    <3>2. ASSUME NEW b \in Slots, Waits(b) PROVE ~Fixes(t, b)
      <4>1. b # a
        BY <1>3, <1>7, <2>4, <3>2 DEF Waits
      <4> QED
        BY <1>1, <1>7, <4>1 DEF Fixes, Answers, Confirms, WillServe
    <3> QED
      BY <1>1, <1>5, <1>6, <2>2, <3>1, <3>2, LineStill
  <2> QED
    BY <2>3, <2>4
<1>8. ASSUME t.for \in {"oxid", "failed"}
      PROVE  Due = a /\ row[a].status = "REQUESTED" /\ StatusKept /\ (Settled(a)' \/ ~Settled(a))
  <2>1. Due = a
    BY <1>1, <1>8 DEF InLine, AboutNewest
  <2>2. row[a].status = "REQUESTED"
    BY <2>1, NewestRequested
  <2>3. StatusKept
    BY <1>1, <1>3, <1>8, <2>2 DEF StatusKept, Settled
  <2> QED
    BY <2>1, <2>2, <2>3 DEF Settled
<1>9. CASE t.for = "failed"
  <2>1. AfterSaved(t) = {}
    BY <1>1, <1>9, AfterSavedIs
  <2>2. ASSUME NEW b \in Slots, Waits(b)' PROVE Waits(b) /\ (Ahead(b) => Ahead(b)') /\ ~Fixes(t, b)
    <3>1. b # a
      BY <1>1, <1>3, <1>9, <2>2 DEF Waits
    <3>2. Waits(b) /\ (Ahead(b) => Ahead(b)')
      BY <1>2, <1>8, <1>9, <2>2, <3>1, ChangedKept
    <3>3. ~Fixes(t, b)
      BY <1>1, <1>9, <3>1 DEF Fixes, Answers, Confirms, WillServe
    <3> QED
      BY <3>2, <3>3
  <2> QED
    BY <1>1, <1>8, <1>9, <2>1, <2>2, LineKeeps
<1>10. CASE t.for = "oxid"
  <2>1. NothingEnabled' /\ NothingEnabled /\ ~Calm
    <3>1. NothingEnabled /\ ~Calm
      BY <1>1, <1>10 DEF InLine, Requesting
    <3> QED
      BY <1>1, <1>3, <1>10, <3>1 DEF NothingEnabled
  <2>2. Due' = a
    <3>1. CASE m = row[a]
      BY <1>8, <1>10, <3>1 DEF Changed, Due, Newest, FirstOf, Addresses
    <3>2. CASE m # row[a]
      <4>1. order' = ToFront(order, a)
        BY <3>2 DEF Changed
      <4>2. \E i \in 1 .. Len(order) : order[i] = a
        BY <1>1, <1>2 DEF RowsFit
      <4>3. order'[1] = a /\ Len(order') = Len(order)
        BY <1>1, <4>1, <4>2, Rows, InFront
      <4>4. order' # <<>>
        BY <4>2, <4>3, Rows
      <4>5. row'[a].status = "REQUESTED"
        BY <1>1, <1>3, <1>10
      <4> QED
        BY <1>1, <4>3, <4>4, <4>5, DueFrontAfter
    <3> QED
      BY <3>1, <3>2
  <2>3. ASSUME NEW u \in AfterSaved(t) PROVE u.at = "join" /\ u.held = t.held /\ u.todo = {}
    BY <1>1, <1>4, <1>10, <2>3 DEF Continues
  <2>4. \A u \in AfterSaved(t) : InLine(u)'
    <3>1. t.held # <<>>
      BY <1>1
    <3>2. ASSUME NEW u \in AfterSaved(t) PROVE AboutNewest(u)'
      BY <1>1, <2>2, <2>3, <3>2 DEF AboutNewest
    <3> QED
      BY <2>1, <2>3, <3>1, <3>2 DEF InLine, LinePlaces, ForNew, Requesting
  <2>5. PICK u \in AfterSaved(t) : TRUE
    BY <1>1, <1>10, AfterSavedIs
  <2>6. Fixes(u, a)'
    BY <1>1, <2>1, <2>2, <2>3, <2>5 DEF Fixes, Answers
  <2>7. ASSUME NEW b \in Slots, b # a, Waits(b)' PROVE Waits(b) /\ (Ahead(b) => Ahead(b)') /\ ~Fixes(t, b)
    <3>1. Waits(b) /\ (Ahead(b) => Ahead(b)')
      BY <1>2, <1>8, <1>10, <2>7, ChangedKept
    <3>2. ~Fixes(t, b)
      BY <1>1, <1>10, <2>7 DEF Fixes, Answers, Confirms, WillServe
    <3> QED
      BY <3>1, <3>2
  <2>8. ~Calm'
    BY <2>1
  <2> QED
    BY <1>1, <1>5, <1>8, <1>10, <2>4, <2>5, <2>6, <2>7, <2>8, LineKeeps
<1> QED
  BY <1>2, <1>7, <1>9, <1>10

(* The save of the handler in the line. *)
LEMMA LineWrite ==
  ASSUME Typed, Typed', Fit, person.exists, OneEnabled, OneLine, NEW t \in tasks, InLine(t), Write(t), Calm' => Calm
  PROVE  OneKept
<1>1. t.at = "write" /\ RowsKept /\ UNCHANGED <<person, schools, offers, oxUser, keycloak, username, trouble>>
  BY WriteDoes
<1>2. PICK a, m : /\ Holding1(t, a, m)
                  /\ \/ ~CanWrite(a, m) /\ Still /\ Do(t, {})
                     \/ CanWrite(a, m) /\ a = 0 /\ Do(t, AfterSaved(t)) /\ \E n : Added(m, n, t.q)
                     \/ CanWrite(a, m) /\ a # 0 /\ Do(t, AfterSaved(t)) /\ Changed(m, a)
  BY WriteDoes
<1>3. Used(person.name) => Used(person.name)'
  BY <1>1 DEF Used
<1>4. CASE ~CanWrite(a, m)
  BY <1>1, <1>2, <1>3, <1>4, LineRefused
<1>5. CASE CanWrite(a, m) /\ a = 0
  <2>1. PICK n : Added(m, n, t.q)
    BY <1>2, <1>5
  <2>2. Holding1(t, 0, m)
    BY <1>2, <1>5
  <2> QED
    BY <1>1, <1>2, <1>5, <2>1, <2>2, LineAdded
<1>6. CASE CanWrite(a, m) /\ a # 0
  BY <1>1, <1>2, <1>6, LineRewritten
<1> QED
  BY <1>4, <1>5, <1>6

(* The rights are looked at: they ask for none, or there is one to keep, to *)
(* enable again, or to make.                                                *)
LEMMA LinePerson ==
  ASSUME Typed, Fit, overlaps = 0, person.exists, OneEnabled, OneLine, NEW t \in tasks, InLine(t),
         HandlePerson(t), Calm' => Calm
  PROVE  OneKept
<1>1. Nothing /\ Still /\ UNCHANGED oxUser /\ t.at = "person"
  BY HandlePersonGoes, NothingStill
<1>2. /\ t.school = {} /\ loaded[t.q] = order /\ \A u \in tasks \ {t} : Aside(u)
      /\ Line(t)
  BY <1>1, InLineIsLine DEF InLine
<1>3. PICK u : /\ Do(t, {u})
               /\ \/ Started1(u, t, "without") /\ u.todo = {} /\ Entitled \subseteq t.school
                  \/ Started1(u, t, "school") /\ ~(Entitled \subseteq t.school)
  BY HandlePersonGoes
<1>4. Used(person.name) => Used(person.name)'
  BY <1>1 DEF Used, Still
<1>5. CASE Started1(u, t, "without") /\ u.todo = {} /\ Entitled \subseteq t.school
  <2>1. InLine(u) /\ u.at = "without"
    BY <1>5 DEF InLine, LinePlaces, Started1, ForNew, Requesting
  <2>2. \A b \in Slots : Fixes(u, b)
    BY <1>2, <1>5, <2>1 DEF Fixes
  <2> QED
    BY <1>1, <1>2, <1>3, <1>4, <2>1, <2>2, LineToOne
<1>6. CASE Started1(u, t, "school") /\ ~(Entitled \subseteq t.school)
  <2>1. Entitled # {} /\ Entitled' # {} /\ u.at = "school" /\ u.q = t.q
    BY <1>1, <1>2, <1>6 DEF Started1, Entitled, Still
  <2>2. \A v \in tasks' : Aside(v) \/ (v.at = "school" /\ v.q = t.q)
    BY <1>2, <1>3, <2>1 DEF Do
  <2>3. OneEnabled' /\ (NothingEnabled' <=> NothingEnabled) /\ (NoneSettled' <=> NoneSettled)
    BY <1>1 DEF Still, OneEnabled, NothingEnabled, NoneSettled, Settled
  <2>4. ASSUME NEW b \in Slots, Waits(b)' PROVE Waits(b) /\ (Ahead(b)' \/ Served)
    <3>1. Waits(b) /\ (Ahead(b)' <=> Ahead(b))
      BY <1>1, <2>4, StillWaits
    <3>2. ASSUME NEW v \in tasks PROVE ~Fixes(v, b)
      <4>1. CASE v = t
        BY <1>1, <2>1, <4>1 DEF Fixes, Answers, Confirms, WillServe
      <4>2. CASE v # t
        BY <1>2, <3>2, <4>2, SideFixesNot DEF Aside, Line
      <4> QED
        BY <4>1, <4>2
    <3> QED
      BY <3>1, <3>2 DEF OneLine, Settles
  <2>5. CASE ~NothingEnabled
    <3>1. ~Served
      BY <2>5 DEF Served, NoneSettled, NothingEnabled, Settled
    <3>2. \A v \in tasks' : Harmless(v)'
      BY <2>2 DEF Harmless, Aside
    <3>3. After'
      BY <2>3, <2>4, <2>5, <3>1, <3>2 DEF After
    <3> QED
      BY <2>3, <3>3 DEF OneKept
  <2>6. CASE NothingEnabled /\ ~NoneSettled
    <3>1. ~Served
      BY <2>6 DEF Served
    <3>2. loaded'[t.q] = order'
      BY <1>1, <1>2 DEF Still
    <3>3. \A v \in tasks' : Enables1(v)'
      BY <2>2, <3>2 DEF Enables1, Aside
    <3>4. Before'
      BY <2>3, <2>4, <2>6, <3>1, <3>3 DEF Before
    <3> QED
      BY <2>3, <3>4 DEF OneKept
  <2>7. CASE NoneSettled /\ Used(person.name)
    <3>1. Served'
      BY <1>4, <2>1, <2>3, <2>7 DEF Served
    <3>2. \A v \in tasks' : v.q = t.q
      BY <1>3, <2>1 DEF Fit, InTurn, Do
    <3>3. \A v \in tasks' : ToUser(v, t.q)'
      BY <2>2 DEF ToUser, FirstTask, Aside, Gives, Confirms
    <3>4. t.q \in Sessions
      BY TaskTyped
    <3>5. UserWas'
      BY <3>1, <3>2, <3>3, <3>4 DEF UserWas
    <3> QED
      BY <2>3, <3>5 DEF OneKept, First
  <2>8. CASE NoneSettled /\ ~Used(person.name)
    <3>1. \A b \in Slots : ~Waits(b)'
      <4>1. ASSUME NEW b \in Slots, Waits(b)' PROVE FALSE
        <5>1. Waits(b) /\ Ahead(b)'
          BY <2>4, <2>8, <4>1 DEF Served
        <5>2. Ahead(b) /\ row[b] # NoRow /\ RowsFit
          BY <1>1, <5>1, StillWaits, WaitsIs DEF Fit
        <5> QED
          BY <2>8, <5>2, NoneAhead
      <4> QED
        BY <4>1
    <3>2. \A v \in tasks' : FirstTask(v)
      BY <2>2 DEF FirstTask
    <3>3. ~Used(person.name)'
      BY <1>1, <2>8 DEF Used, Still
    <3>4. NoUserYet'
      BY <2>1, <2>3, <2>8, <3>1, <3>2, <3>3 DEF NoUserYet, FirstTask, Aside
    <3> QED
      BY <2>3, <3>4 DEF OneKept, First
  <2> QED
    BY <2>5, <2>6, <2>7, <2>8
<1> QED
  BY <1>3, <1>5, <1>6

(* None is asked for: each address that waits is disabled. *)
LEMMA LineDisable ==
  ASSUME Typed, Fit, person.exists, OneEnabled, OneLine, NEW t \in tasks, InLine(t),
         DisableOne(t), Calm' => Calm, Fault => Calm
  PROVE  OneKept
<1>1. /\ t.at = "disable" /\ t.todo = {} /\ Line(t) /\ HeldFits(t) /\ RowsFit /\ person'.exists
      /\ UNCHANGED <<person, schools, offers, oxUser, keycloak, username>>
  BY DisableOneGoes, InLineIsLine DEF InLine, Fit, HandlersFit
<1>2. PICK a \in DOMAIN t.held : \E u :
        /\ a \in Slots /\ t.held[a] \in EmailAddress
        /\ Do(t, {u}) /\ u.q = t.q /\ u.at = "disable" /\ u.todo = t.todo
        /\ DOMAIN u.held = DOMAIN t.held \ {a} /\ \A b \in DOMAIN u.held : u.held[b] = t.held[b]
        /\ \/ CanWrite(a, t.held[a]) /\ Update(a, t.held[a]) /\ UNCHANGED trouble
           \/ CanWrite(a, t.held[a]) /\ Fault /\ UNCHANGED <<row, order, loaded>>
           \/ ~CanWrite(a, t.held[a]) /\ UNCHANGED trouble /\ UNCHANGED <<row, order, loaded>>
  BY DisableOneGoes
<1>3. PICK m : m = t.held[a]
  OBVIOUS
<1>4. PICK u : /\ Do(t, {u}) /\ u.at = "disable" /\ u.todo = {} /\ DOMAIN u.held = DOMAIN t.held \ {a}
  BY <1>1, <1>2
<1>5. a \in Slots /\ a # 0 /\ row[a] # NoRow /\ m.status = "DISABLED" /\ m.text = row[a].text /\ m \in EmailAddress
  BY <1>1, <1>2, <1>3, Rows DEF HeldFits, StatusFits, Confirms
<1>6. CanWrite(a, m)
  BY <1>1, <1>5, CanWriteOwn
<1>7. InLine(u) /\ InLine(u)' /\ u.at # "person"
  BY <1>4 DEF InLine, LinePlaces, ForNew, Requesting
<1>8. Used(person.name) => Used(person.name)'
  BY <1>1 DEF Used
<1>9. ASSUME Still, \A b \in Slots : Waits(b) => b # a PROVE OneKept
  <2>1. ASSUME NEW b \in Slots, Waits(b), Fixes(t, b) PROVE Fixes(u, b)
    <3>1. b \in DOMAIN t.held /\ b # a
      BY <1>1, <1>9, <2>1 DEF Fixes, Answers, Confirms, WillServe
    <3> QED
      BY <1>4, <3>1 DEF Fixes
  <2> QED
    BY <1>1, <1>4, <1>7, <1>8, <1>9, <2>1, LineToOne
<1>10. CASE Update(a, m)
  <2>1. Changed(m, a)
    BY <1>1, <1>5, <1>6, <1>10, UpdateFits DEF Changed
  <2>2. CASE m = row[a]
    <3>1. Still
      BY <1>1, <2>1, <2>2 DEF Changed, Still
    <3>2. \A b \in Slots : Waits(b) => b # a
      BY <1>5, <2>2 DEF Waits
    <3> QED
      BY <1>9, <3>1, <3>2
  <2>3. CASE m # row[a]
    <3>1. OneEnabled'
      BY <1>5, <2>1 DEF OneEnabled, Changed
    <3>2. PICK T : T = {u}
      OBVIOUS
    <3>3. Do(t, T) /\ (\A v \in T : InLine(v)') /\ (\A v, w \in T : v = w)
      BY <1>4, <1>7, <3>2
    <3> QED
      BY <1>1, <1>5, <2>1, <2>3, <3>1, <3>3, LineChanged
  <2> QED
    BY <2>2, <2>3
<1>11. CASE Fault /\ UNCHANGED <<row, order, loaded>>
  <2>1. Still
    BY <1>1, <1>11 DEF Still
  <2>2. \A b \in Slots : ~Waits(b)
    BY <1>11 DEF OneLine
  <2> QED
    BY <1>9, <2>1, <2>2
<1> QED
  BY <1>2, <1>3, <1>6, <1>10, <1>11

(* Without a failure a name is changed when the address is enabled, if one is due. *)
LEMMA RenamedEnabled ==
  ASSUME Typed, CalmInv, Calm, person.exists, keycloak # "gone", NEW t \in tasks, t.at = "renamedWith"
  PROVE  Enabled # {}
<1>1. Base /\ Living
  BY DEF CalmInv, Gone
<1>2. Solo
  BY <1>1 DEF Living, Off, On, TaskOff, OffSteps, TaskOn, Stays
<1>3. Renaming(t)
  <2>1. Chain(t)
    BY <1>2 DEF Solo, Stays
  <2> QED
    BY <2>1 DEF Chain, Generating, Changing, Confirming, Retaining, Beginning, Creating, Joining
<1>4. row[Cur].status = "ENABLED" /\ HasRows
  BY <1>3 DEF Renaming, IsEnabled
<1>5. Cur \in Slots
  BY <1>1, <1>4, KnownRows DEF Base, Known
<1> QED
  BY <1>4, <1>5 DEF Enabled

(* What is planned, and the save that looks for an enabled address. *)
LEMMA LinePlans ==
  ASSUME Typed, CalmInv, Fit, overlaps = 0, person.exists, keycloak # "gone", OneEnabled, OneLine,
         NEW t \in tasks, InLine(t), Step(t), Calm' => Calm, Fault => Calm,
         t.at \in {"without", "renamed", "renamedWith", "renamedWithout", "generate", "save"}
  PROVE  OneKept
<1>1. Line(t) /\ t.todo = {} /\ HeldFits(t)
  BY InLineIsLine DEF InLine, Fit, HandlersFit
<1>2. ASSUME Still, UNCHANGED oxUser, NEW u, Do(t, {u}), InLine(u), u.at # "person",
             \A b \in Slots : Waits(b) /\ ~Served /\ Fixes(t, b) => Fixes(u, b)
      PROVE  OneKept
  <2>1. Used(person.name) => Used(person.name)'
    BY <1>2 DEF Still, Used
  <2> QED
    BY <1>1, <1>2, <2>1, LineToOne
<1>3. ASSUME Still, UNCHANGED oxUser, Do(t, {}), \A b \in Slots : Waits(b) /\ ~Served => ~Fixes(t, b)
      PROVE  OneKept
  <2>1. Used(person.name) => Used(person.name)'
    BY <1>3 DEF Still, Used
  <2> QED
    BY <1>1, <1>3, <2>1, LineToNone
<1>4. CASE t.at = "without"
  <2>1. DisableRead(t)
    BY <1>4, StepAt
  <2>2. Still /\ UNCHANGED oxUser
    BY <2>1, DisableReadGoes, NothingStill
  <2>3. CASE Do(t, {}) /\ \A a \in Slots : row[a].status \in {"DISABLED", "none"}
    <3>1. \A b \in Slots : ~Waits(b)
      BY <2>3 DEF Waits
    <3> QED
      BY <1>3, <2>2, <2>3, <3>1
  <2>4. ASSUME NEW u, Do(t, {u}), u.at = "disable", u.todo = t.todo,
               \A a \in Slots : row[a].status \notin {"DISABLED", "none"} => a \in DOMAIN u.held
        PROVE  OneKept
    <3>1. InLine(u)
      BY <1>1, <2>4 DEF InLine, LinePlaces, ForNew, Requesting
    <3>2. \A b \in Slots : Waits(b) => Fixes(u, b)
      BY <2>4 DEF Waits, Fixes
    <3> QED
      BY <1>2, <2>2, <2>4, <3>1, <3>2
  <2> QED
    BY <2>1, <2>3, <2>4, DisableReadGoes
<1>5. CASE t.at = "renamed"
  <2>1. HandleRenamed(t)
    BY <1>5, StepAt
  <2>2. Still /\ UNCHANGED oxUser
    BY <2>1, HandleRenamedGoes, NothingStill
  <2>3. PICK u : /\ Do(t, {u}) /\ u.todo = {}
                 /\ \/ Started1(u, t, "renamedWith") /\ Entitled # {}
                    \/ Started1(u, t, "renamedWithout") /\ Entitled = {}
    BY <2>1, HandleRenamedGoes
  <2>4. InLine(u) /\ u.at # "person"
    BY <2>3 DEF InLine, LinePlaces, ForNew, Requesting, Started1
  <2>5. \A b : Fixes(t, b) => Fixes(u, b)
    BY <1>5, <2>3 DEF Fixes, Answers, Confirms, WillServe, Started1
  <2> QED
    BY <1>2, <2>2, <2>3, <2>4, <2>5
<1>6. CASE t.at = "renamedWith"
  <2>1. RenamedWith(t)
    BY <1>6, StepAt
  <2>2. Still /\ UNCHANGED oxUser
    BY <2>1, RenamedWithGoes, NothingStill
  <2>3. CASE Enabled = {}
    <3>1. PICK u : Do(t, {u}) /\ Started1(u, t, "generate") /\ u.for = "create" /\ u.todo = t.todo
      BY <2>1, <2>3, RenamedWithGoes
    <3>2. ~Calm
      BY <1>6, <2>3, RenamedEnabled
    <3>3. InLine(u) /\ u.at # "person"
      BY <1>1, <3>1, <3>2 DEF InLine, LinePlaces, ForNew, Requesting, Started1
    <3>4. \A b : Fixes(t, b) => Fixes(u, b)
      BY <1>6, <3>1 DEF Fixes, Answers, Confirms, WillServe, Started1
    <3> QED
      BY <1>2, <2>2, <3>1, <3>3, <3>4
  <2>4. ASSUME NEW a \in Enabled, NEW u, Do(t, {u}), u.at = "write", u.for = "rename", u.todo = t.todo
        PROVE  OneKept
    <3>1. InLine(u) /\ u.at # "person"
      BY <1>1, <2>4 DEF InLine, LinePlaces, ForNew, Requesting
    <3>2. \A b : ~Fixes(t, b)
      BY <1>6, <2>4 DEF Fixes, Answers, Confirms, Enabled, NoneSettled, Settled
    <3> QED
      BY <1>2, <2>2, <2>4, <3>1, <3>2
  <2> QED
    BY <2>1, <2>3, <2>4, RenamedWithGoes
<1>7. CASE t.at = "renamedWithout"
  <2>1. RenamedWithout(t)
    BY <1>7, StepAt
  <2>2. Still /\ UNCHANGED oxUser
    BY <2>1, RenamedWithoutGoes, NothingStill
  <2>3. \A b : ~Fixes(t, b)
    BY <1>7 DEF Fixes, Answers, Confirms, WillServe
  <2>4. CASE Do(t, {})
    BY <1>3, <2>2, <2>3, <2>4
  <2>5. ASSUME NEW u, Do(t, {u}), Started1(u, t, "generate"), u.for = "disabled", u.todo = t.todo PROVE OneKept
    <3>1. InLine(u) /\ u.at # "person"
      BY <1>1, <2>5 DEF InLine, LinePlaces, ForNew, Requesting, Started1
    <3> QED
      BY <1>2, <2>2, <2>3, <2>5, <3>1
  <2> QED
    BY <2>1, <2>4, <2>5, RenamedWithoutGoes
<1>8. CASE t.at = "generate"
  <2>1. Generate(t)
    BY <1>8, StepAt
  <2>2. Still /\ UNCHANGED oxUser /\ t.for \in {"create", "change", "disabled"}
    BY <2>1, GenerateGoes
  <2>3. PICK u : /\ Do(t, {u}) /\ u.q = t.q /\ u.todo = t.todo /\ DOMAIN u.held = {0}
                 /\ \/ /\ u.at = "save" /\ u.for = t.for
                       /\ u.held[0].status = "REQUESTED" /\ u.held[0].ox = 0
                       /\ u.held[0].text # 0 /\ u.held[0].text \notin UsedTexts
                       /\ UNCHANGED trouble
                    \/ /\ u.at = "write" /\ u.for = "failed"
                       /\ u.held[0].status = "FAILED" /\ u.held[0].ox = 0 /\ u.held[0].text # 0
                       /\ Fault
    BY <2>1, GenerateGoes
  <2>4. CASE u.at = "save" /\ u.for = t.for /\ u.held[0].text \notin UsedTexts
    <3>1. ~HasText(u.held[0].text)
      BY <2>4 DEF HasText, UsedTexts
    <3>2. Requesting(u) => ~Calm
      BY <1>8, <2>2, <2>4 DEF InLine, Requesting
    <3>3. InLine(u) /\ u.at # "person"
      BY <1>1, <2>2, <2>3, <2>4, <3>1, <3>2 DEF InLine, LinePlaces, ForNew
    <3>4. \A b : Fixes(t, b) => Fixes(u, b)
      BY <1>8, <2>4 DEF Fixes, Answers, Confirms, WillServe
    <3> QED
      BY <1>2, <2>2, <2>3, <3>3, <3>4
  <2>5. CASE u.at = "write" /\ u.for = "failed" /\ Fault
    <3>1. InLine(u) /\ u.at # "person"
      BY <1>1, <2>3, <2>5 DEF InLine, LinePlaces, ForNew, Requesting, AboutNewest
    <3>2. \A b \in Slots : ~Waits(b)
      BY <2>5 DEF OneLine
    <3> QED
      BY <1>2, <2>2, <2>3, <3>1, <3>2
  <2> QED
    BY <2>3, <2>4, <2>5
<1>9. CASE t.at = "save"
  <2>1. CheckSave(t)
    BY <1>9, StepAt
  <2>2. Still /\ UNCHANGED oxUser
    BY <2>1, CheckSaveGoes, NothingStill
  <2>3. CASE Enabled = {}
    <3>1. PICK u : /\ Do(t, {u}) /\ u.at = "write" /\ u.for = t.for /\ u.held = t.held /\ u.todo = t.todo
      BY <2>1, <2>3, CheckSaveGoes
    <3>2. NothingEnabled
      BY <2>3, EnabledOrNot
    <3>3. (Requesting(u) => ~Calm) /\ t.for # "enable" /\ t.for # "failed"
      BY <1>9, <3>1, TaskTyped DEF InLine, Requesting, Shaped
    <3>4. InLine(u) /\ u.at # "person"
      BY <1>1, <1>9, <3>1, <3>2, <3>3 DEF InLine, LinePlaces, ForNew, AboutNewest
    <3>5. \A b : Fixes(t, b) => Fixes(u, b)
      BY <1>9, <3>1 DEF Fixes, Answers, Confirms, WillServe
    <3> QED
      BY <1>2, <2>2, <3>1, <3>4, <3>5
  <2>4. CASE Enabled # {}
    <3>1. ~NothingEnabled /\ ~NoneSettled
      BY <2>4 DEF Enabled, NothingEnabled, NoneSettled, Settled
    <3>2. \A b : ~Fixes(t, b)
      BY <1>9, <3>1 DEF Fixes
    <3>3. CASE t.for = "oxid"
      <4>1. PICK u : Do(t, {u}) /\ Fails(u, t)
        BY <2>1, <2>4, <3>3, CheckSaveGoes
      <4>2. InLine(u) /\ u.at # "person"
        BY <1>1, <1>9, <3>3, <4>1 DEF InLine, LinePlaces, ForNew, Requesting, AboutNewest, Fails
      <4> QED
        BY <1>2, <2>2, <3>2, <4>1, <4>2
    <3>4. CASE t.for # "oxid"
      <4>1. Do(t, {})
        BY <1>1, <2>1, <2>4, <3>4, CheckSaveGoes
      <4> QED
        BY <1>3, <2>2, <3>2, <4>1
    <3> QED
      BY <3>3, <3>4
  <2> QED
    BY <2>3, <2>4
<1> QED
  BY <1>4, <1>5, <1>6, <1>7, <1>8, <1>9

(* The calls to OX and to Keycloak, and what follows on an answer. *)
LEMMA LineCalls ==
  ASSUME Typed, Fit, overlaps = 0, person.exists, keycloak # "gone", OneEnabled, OneLine,
         NEW t \in tasks, InLine(t), Step(t), Calm' => Calm, Fault => Calm,
         t.at \in {"create", "exists", "oxCreate", "join", "keycloakSet"}
  PROVE  OneKept
<1>1. Line(t) /\ t.todo = {} /\ HeldFits(t) /\ Shaped(t) /\ username[t.q] = person.name
  BY InLineIsLine, TaskTyped DEF InLine, Fit, HandlersFit, InTurn
<1>2. ASSUME Still, Used(person.name) => Used(person.name)', NEW u, Do(t, {u}), InLine(u), u.at # "person",
             \A b \in Slots : Waits(b) /\ ~Served /\ Fixes(t, b) => Served' \/ Fixes(u, b)
      PROVE  OneKept
  BY <1>1, <1>2, LineToOne
<1>3. ASSUME Still, UNCHANGED oxUser, Do(t, {}), \A b \in Slots : Waits(b) /\ ~Served => ~Fixes(t, b)
      PROVE  OneKept
  <2>1. Used(person.name) => Used(person.name)'
    BY <1>3 DEF Still, Used
  <2> QED
    BY <1>1, <1>3, <2>1, LineToNone
<1>4. UNCHANGED oxUser /\ Still => (Used(person.name) => Used(person.name)')
  BY DEF Used, Still
<1>5. Fault => \A b \in Slots : ~Waits(b)
  BY DEF OneLine
<1>6. ASSUME NEW u, Fails(u, t), AboutNewest(t) PROVE InLine(u) /\ u.at # "person"
  BY <1>1, <1>6 DEF InLine, LinePlaces, ForNew, Requesting, AboutNewest, Fails
<1>7. CASE t.at = "create"
  <2>1. CreateRead(t)
    BY <1>7, StepAt
  <2>2. PICK a : a = Due
    OBVIOUS
  <2>3. Still /\ UNCHANGED oxUser
    BY <2>1, <2>2, CreateReadGoes, NothingStill
  <2>4. CASE a = 0 /\ Do(t, {})
    <3>1. \A b \in Slots : ~Waits(b)
      BY <2>2, <2>4, WaitsIs DEF Fit
    <3> QED
      BY <1>3, <2>3, <2>4, <3>1
  <2>5. CASE a # 0
    <3>1. PICK u : Do(t, {u}) /\ Reads(u, t, a)
      BY <2>1, <2>2, <2>5, CreateReadGoes
    <3>2. ~Calm
      BY <1>7 DEF InLine, Requesting
    <3>3. InLine(u) /\ u.at # "person"
      BY <1>1, <2>2, <3>1, <3>2 DEF InLine, LinePlaces, ForNew, AboutNewest, Reads
    <3>4. \A b : Fixes(t, b) => Fixes(u, b)
      BY <1>7, <3>1 DEF Fixes, Answers, Confirms, WillServe, Reads
    <3> QED
      BY <1>2, <1>4, <2>3, <3>1, <3>3, <3>4
  <2> QED
    BY <2>1, <2>2, <2>4, <2>5, CreateReadGoes
<1>8. CASE t.at = "exists"
  <2>1. CreateExists(t)
    BY <1>8, StepAt
  <2>2. Still /\ UNCHANGED oxUser
    BY <2>1, CreateExistsGoes, NothingStill
  <2>3. CASE Used(username[t.q]) /\ Do(t, {})
    <3>1. Used(person.name)
      BY <1>1, <2>3
    <3>2. \A b : ~Served => ~Fixes(t, b)
      BY <1>8, <3>1 DEF Fixes, Answers, Confirms, WillServe, Served
    <3> QED
      BY <1>3, <2>2, <2>3, <3>2
  <2>4. ASSUME NEW u, Do(t, {u}), u.at = "oxCreate", u.held = t.held, u.todo = t.todo PROVE OneKept
    <3>1. ~Calm
      BY <1>8 DEF InLine, Requesting
    <3>2. InLine(u) /\ u.at # "person"
      BY <1>1, <1>8, <2>4, <3>1 DEF InLine, LinePlaces, ForNew, AboutNewest
    <3>3. \A b : Fixes(t, b) => Fixes(u, b)
      BY <1>8, <2>4 DEF Fixes, Answers, Confirms, WillServe
    <3> QED
      BY <1>2, <1>4, <2>2, <2>4, <3>2, <3>3
  <2> QED
    BY <2>1, <2>3, <2>4, CreateExistsGoes
<1>9. CASE t.at = "oxCreate"
  <2>1. CreateUser(t)
    BY <1>9, StepAt
  <2>2. Still /\ AboutNewest(t) /\ ~Calm
    BY <1>9, <2>1, CreateUserGoes DEF InLine, Requesting
  <2>3. \A b : Fixes(t, b) => NoneSettled /\ Entitled # {}
    BY <1>9 DEF Fixes, Answers, Confirms, WillServe
  <2>4. ASSUME ~Used(username[t.q]), Used(username[t.q])', NEW u, Do(t, {u}), u.at = "save", u.for = "oxid",
               u.todo = t.todo, DOMAIN u.held = DOMAIN t.held
        PROVE  OneKept
    <3>1. InLine(u) /\ u.at # "person"
      BY <1>1, <2>2, <2>4 DEF InLine, LinePlaces, ForNew, AboutNewest
    <3>2. username'[t.q] = person'.name
      BY <1>1, <2>2 DEF Still
    <3>3. Used(person.name)'
      BY <2>4, <3>2
    <3>4. \A b : Fixes(t, b) => Served'
      BY <2>2, <2>3, <3>3 DEF Served, NoneSettled, Settled, Entitled, Still
    <3> QED
      BY <1>2, <2>2, <2>4, <3>1, <3>3, <3>4
  <2>5. ASSUME UNCHANGED oxUser, Used(username[t.q]) \/ Fault, NEW u, Do(t, {u}), Fails(u, t)
        PROVE  OneKept
    <3>1. InLine(u) /\ u.at # "person"
      BY <1>6, <2>2, <2>5
    <3>2. ASSUME NEW b \in Slots, Waits(b), ~Served PROVE ~Fixes(t, b)
      BY <1>1, <1>5, <2>3, <2>5, <3>2 DEF Served
    <3> QED
      BY <1>2, <1>4, <2>2, <2>5, <3>1, <3>2
  <2> QED
    BY <2>1, <2>4, <2>5, CreateUserGoes
<1>10. CASE t.at = "join"
  <2>1. Join(t)
    BY <1>10, StepAt
  <2>2. Still /\ UNCHANGED oxUser /\ AboutNewest(t) /\ t.held # <<>> /\ NothingEnabled
    BY <1>10, <2>1, JoinGoes DEF InLine
  <2>3. \A b : Fixes(t, b) => Due = b /\ DOMAIN t.held = {b}
    BY <1>10 DEF Fixes, Answers, Confirms, WillServe
  <2>4. ASSUME NEW u, Do(t, {u}), Started1(u, t, "keycloakSet"), u.todo = {}, u.text = t.text PROVE OneKept
    <3>1. InLine(u) /\ u.at # "person"
      BY <2>4 DEF InLine, LinePlaces, ForNew, Requesting, Started1
    <3>2. ASSUME NEW b \in Slots, Fixes(t, b) PROVE Fixes(u, b)
      <4>1. Due = b /\ b \in DOMAIN t.held /\ b # 0
        BY <2>3, <3>2, Rows
      <4>2. t.text = row[b].text
        BY <1>1, <1>10, <4>1 DEF HeldFits, Confirms
      <4> QED
        BY <2>2, <2>4, <4>1, <4>2 DEF Fixes, Answers, Started1
    <3> QED
      BY <1>2, <1>4, <2>2, <2>4, <3>1, <3>2
  <2>5. ASSUME NEW u, Do(t, {u}), Fails(u, t) PROVE OneKept
    <3>1. InLine(u) /\ u.at # "person"
      BY <1>6, <2>2, <2>5
    <3>2. \A b : Fixes(t, b) => Fixes(u, b)
      BY <2>3, <2>5 DEF Fixes, Fails
    <3> QED
      BY <1>2, <1>4, <2>2, <2>5, <3>1, <3>2
  <2> QED
    BY <2>1, <2>2, <2>4, <2>5, JoinGoes
<1>11. CASE t.at = "keycloakSet"
  <2>1. KeycloakSet(t)
    BY <1>11, StepAt
  <2>2. Still /\ UNCHANGED oxUser
    BY <2>1, KeycloakSetGoes
  <2>3. ASSUME NEW u, Do(t, {u}), Started1(u, t, "confirm"), u.todo = {}, u.text = t.text PROVE OneKept
    <3>1. InLine(u) /\ u.at # "person"
      BY <2>3 DEF InLine, LinePlaces, ForNew, Requesting, Started1
    <3>2. \A b : Fixes(t, b) => Fixes(u, b)
      BY <1>11, <2>3 DEF Fixes, Answers, Confirms, WillServe, Started1
    <3> QED
      BY <1>2, <1>4, <2>2, <2>3, <3>1, <3>2
  <2>4. CASE Fault /\ Do(t, {})
    BY <1>3, <1>5, <2>2, <2>4
  <2>5. Finds(t)
    BY <1>1 DEF Finds
  <2> QED
    BY <2>1, <2>3, <2>4, <2>5, KeycloakSetGoes
<1> QED
  BY <1>7, <1>8, <1>9, <1>10, <1>11

(* An answer from OX confirms the newest address that waits, or disables it. *)
LEMMA LineAnswers ==
  ASSUME Typed, Fit, overlaps = 0, person.exists, OneEnabled, OneLine,
         NEW t \in tasks, InLine(t), Step(t), Calm' => Calm, Fault => Calm,
         t.at \in {"confirm", "confirmDisabled", "change", "oxChange"}
  PROVE  OneKept
<1>1. Line(t) /\ t.todo = {} /\ HeldFits(t) /\ username[t.q] = person.name
  BY InLineIsLine DEF InLine, Fit, HandlersFit, InTurn
<1>2. ASSUME Still, Used(person.name) => Used(person.name)', NEW u, Do(t, {u}), InLine(u), u.at # "person",
             \A b \in Slots : Waits(b) /\ ~Served /\ Fixes(t, b) => Fixes(u, b)
      PROVE  OneKept
  BY <1>1, <1>2, LineToOne
<1>3. ASSUME Still, UNCHANGED oxUser, Do(t, {}), \A b \in Slots : Waits(b) /\ ~Served => ~Fixes(t, b)
      PROVE  OneKept
  <2>1. Used(person.name) => Used(person.name)'
    BY <1>3 DEF Still, Used
  <2> QED
    BY <1>1, <1>3, <2>1, LineToNone
<1>4. UNCHANGED oxUser /\ Still => (Used(person.name) => Used(person.name)')
  BY DEF Used, Still
<1>5. PICK a : a = Due
  OBVIOUS
<1>6. a = 0 => \A b \in Slots : ~Waits(b)
  BY <1>5, WaitsIs DEF Fit
<1>7. CASE t.at = "confirm"
  <2>1. Confirm(t)
    BY <1>7, StepAt
  <2>2. Still /\ UNCHANGED oxUser
    BY <1>5, <2>1, ConfirmGoes, NothingStill
  <2>3. CASE a = 0 /\ Do(t, {})
    BY <1>3, <1>6, <2>2, <2>3
  <2>4. ASSUME NEW u, Do(t, {u}), TakesUp(u, t, a) PROVE OneKept
    <3>1. InLine(u) /\ u.at # "person"
      BY <1>1, <2>4 DEF InLine, LinePlaces, ForNew, Requesting, TakesUp
    <3>2. \A b : Fixes(t, b) => Fixes(u, b)
      BY <1>5, <1>7, <2>4 DEF Fixes, Answers, Confirms, WillServe, TakesUp
    <3> QED
      BY <1>2, <1>4, <2>2, <2>4, <3>1, <3>2
  <2> QED
    BY <1>5, <2>1, <2>3, <2>4, ConfirmGoes
<1>8. CASE t.at = "confirmDisabled"
  <2>1. ConfirmDisabled(t)
    BY <1>8, StepAt
  <2>2. Still /\ UNCHANGED oxUser
    BY <1>5, <2>1, ConfirmDisabledGoes, NothingStill
  <2>3. \A b : ~Fixes(t, b)
    BY <1>8 DEF Fixes, Answers, Confirms, WillServe
  <2>4. CASE a = 0 /\ Do(t, {})
    BY <1>3, <2>2, <2>3, <2>4
  <2>5. ASSUME NEW u, Do(t, {u}), SetsAside(u, t, a) PROVE OneKept
    <3>1. InLine(u) /\ u.at # "person"
      BY <1>1, <2>5 DEF InLine, LinePlaces, ForNew, Requesting, SetsAside
    <3> QED
      BY <1>2, <1>4, <2>2, <2>3, <2>5, <3>1
  <2> QED
    BY <1>5, <2>1, <2>4, <2>5, ConfirmDisabledGoes
<1>9. CASE t.at = "change"
  <2>1. ChangeRead(t)
    BY <1>9, StepAt
  <2>2. Still /\ UNCHANGED oxUser
    BY <1>5, <2>1, ChangeReadGoes, NothingStill
  <2>3. \A b : ~Fixes(t, b)
    BY <1>9 DEF Fixes, Answers, Confirms, WillServe
  <2>4. CASE Do(t, {})
    BY <1>3, <2>2, <2>3, <2>4
  <2>5. ASSUME NEW u, Do(t, {u}), ReadsToo(u, t, a) PROVE OneKept
    <3>1. InLine(u) /\ u.at # "person"
      BY <1>1, <1>5, <2>5 DEF InLine, LinePlaces, ForNew, Requesting, AboutNewest, ReadsToo
    <3> QED
      BY <1>2, <1>4, <2>2, <2>3, <2>5, <3>1
  <2> QED
    BY <1>5, <2>1, <2>4, <2>5, ChangeReadGoes
<1>10. CASE t.at = "oxChange"
  <2>1. ChangeUser(t)
    BY <1>10, StepAt
  <2>2. Still /\ (UNCHANGED oxUser \/ Used(username[t.q])')
    BY <2>1, ChangeUserGoes
  <2>3. Used(person.name) => Used(person.name)'
    <3>1. username'[t.q] = person'.name
      BY <1>1, <2>2 DEF Still
    <3> QED
      BY <1>4, <2>2, <3>1
  <2>4. \A b : ~Fixes(t, b)
    BY <1>10 DEF Fixes, Answers, Confirms, WillServe
  <2>5. ASSUME NEW u, Do(t, {u}), u.todo = {}, Started1(u, t, "keycloakSet") \/ Started1(u, t, "confirmDisabled")
        PROVE  OneKept
    <3>1. InLine(u) /\ u.at # "person"
      BY <2>5 DEF InLine, LinePlaces, ForNew, Requesting, Started1
    <3> QED
      BY <1>2, <2>2, <2>3, <2>4, <2>5, <3>1
  <2>6. ASSUME NEW u, Do(t, {u}), Fails(u, t) PROVE OneKept
    <3>1. InLine(u) /\ u.at # "person"
      BY <1>1, <1>10, <2>6 DEF InLine, LinePlaces, ForNew, Requesting, AboutNewest, Fails
    <3> QED
      BY <1>2, <2>2, <2>3, <2>4, <2>6, <3>1
  <2> QED
    BY <2>1, <2>5, <2>6, ChangeUserGoes
<1> QED
  BY <1>7, <1>8, <1>9, <1>10

(* Every step of the line, or beside it. *)
LEMMA LineStep ==
  ASSUME Typed, Typed', CalmInv, Fit, overlaps = 0, person.exists, keycloak # "gone", OneEnabled, OneLine,
         NEW t \in tasks, Step(t), Calm' => Calm, Fault => Calm
  PROVE  OneKept
<1>1. CASE ~Line(t)
  BY <1>1, SideStep
<1>2. CASE Line(t)
  <2>1. InLine(t) /\ t.at \in LinePlaces
    BY <1>2 DEF OneLine, InLine
  <2>2. CASE t.at = "person"
    BY <2>1, <2>2, StepAt, LinePerson
  <2>3. CASE t.at = "write"
    BY <2>1, <2>3, StepAt, LineWrite
  <2>4. CASE t.at = "disable" /\ DisableOne(t)
    BY <2>1, <2>4, LineDisable
  <2>5. CASE t.at = "disable" /\ DisableDone(t)
    <3>1. Still /\ UNCHANGED oxUser /\ t.held = <<>>
      BY <2>5, DisableDoneGoes, NothingStill
    <3>2. PICK T : Do(t, T) /\ \A u \in T :
                   /\ Started1(u, t, "disabledInOx") \/ Started1(u, t, "disabledInKeycloak")
                   /\ u.for = "none"
      BY <2>5, DisableDoneGoes
    <3>3. \A u \in T : ~Line(u) /\ u.for # "deleted"
      BY <3>2 DEF Started1, Line
    <3>4. \A b \in Slots : ~Fixes(t, b)
      BY <2>5, <3>1 DEF Fixes, Answers, Confirms, WillServe
    <3>5. Used(person.name) => Used(person.name)'
      BY <3>1 DEF Used, Still
    <3> QED
      BY <1>2, <3>1, <3>2, <3>3, <3>4, <3>5, LineStill
  <2>6. CASE t.at \in {"without", "renamed", "renamedWith", "renamedWithout", "generate", "save"}
    BY <2>1, <2>6, LinePlans
  <2>7. CASE t.at \in {"create", "exists", "oxCreate", "join", "keycloakSet"}
    BY <2>1, <2>7, LineCalls
  <2>8. CASE t.at \in {"confirm", "confirmDisabled", "change", "oxChange"}
    BY <2>1, <2>8, LineAnswers
  <2> QED
    BY <2>1, <2>2, <2>3, <2>4, <2>5, <2>6, <2>7, <2>8, StepAt DEF LinePlaces
<1> QED
  BY <1>1, <1>2

-----------------------------------------------------------------------------
(* A handler that ends early, and a restart                                *)

(* Fewer handlers are in progress, and nothing else has changed.  What is in *)
(* the line was the only one left to see to an address that waits: so it    *)
(* may not be given up, except by the first failure, before which none does. *)
Fewer == Still /\ UNCHANGED oxUser /\ tasks' \subseteq tasks

(* In the line none is given up but by the first failure. *)
LEMMA LineShrinks ==
  ASSUME OneLine, Fewer, Calm' => Calm, tasks' = tasks \/ Calm PROVE OneLine'
<1>1. Still
  BY DEF Fewer
<1>2. ASSUME NEW u \in tasks', Line(u) PROVE InLine(u)'
  <2>1. InLine(u)
    BY <1>2 DEF OneLine, Fewer
  <2>2. CASE u.at = "person"
    <3>1. \A v : Aside(v)' <=> Aside(v)
      BY DEF Aside
    <3>2. \A v \in tasks' \ {u} : Aside(v)
      BY <2>1, <2>2 DEF InLine, Fewer
    <3>3. loaded'[u.q] = order'
      BY <1>1, <2>1, <2>2 DEF InLine, Still
    <3> QED
      BY <2>1, <2>2, <3>1, <3>2, <3>3 DEF InLine, ForNew, Requesting
  <2> QED
    BY <1>1, <2>1, <2>2, InLineStill
<1>3. ASSUME NEW b \in Slots, Waits(b)' PROVE Ahead(b)' \/ Served' \/ \E u \in tasks' : Fixes(u, b)'
  <2>1. Waits(b) /\ (Ahead(b)' <=> Ahead(b)) /\ tasks' = tasks
    BY <1>1, <1>3, StillWaits DEF OneLine
  <2>2. Served => Served'
    BY <1>1 DEF Served, NoneSettled, Settled, Still, Entitled, Used, Fewer
  <2>3. \A u : Fixes(u, b)' <=> Fixes(u, b)
    BY <1>1, FixesStill
  <2> QED
    BY <2>1, <2>2, <2>3 DEF OneLine, Settles
<1>4. Calm' => \A b \in Slots : ~Waits(b)'
  BY <1>1, StillWaits DEF OneLine
<1>5. \A u : Line(u)' <=> Line(u)
  BY DEF Line
<1>6. /\ \A u, v \in tasks' : Line(u) /\ Line(v) => u = v
      /\ \A u \in tasks' : ~Line(u) => u.for # "deleted"
  BY DEF OneLine, Fewer
<1> QED
  BY <1>2, <1>3, <1>4, <1>5, <1>6 DEF OneLine, Settles

(* For the first address, any may end, *)
LEMMA FirstShrinks ==
  ASSUME Typed, Fit, First, Fewer PROVE First'
<1>1. Still /\ RowsKept /\ StatusKept /\ row' = row /\ loaded' = loaded
  BY StillKept DEF Fewer, Still
<1>2. /\ Used(person.name)' <=> Used(person.name)
      /\ NoneSettled' <=> NoneSettled
      /\ Entitled' = Entitled
  BY <1>1 DEF Fewer, Used, Still, NoneSettled, Settled, Entitled
<1>3. CASE UserWas
  <2>1. PICK q \in Sessions : \A u \in tasks : u.q = q /\ ToUser(u, q)
    BY <1>3 DEF UserWas
  <2>2. \A u \in tasks' : u.q = q /\ ToUser(u, q)'
    BY <1>1, <2>1, ToUserStays DEF Fewer
  <2>3. Served'
    BY <1>2, <1>3 DEF UserWas, Served
  <2> QED
    BY <2>2, <2>3 DEF First, UserWas
<1>4. CASE NoUserYet
  <2>1. \A b \in Slots : ~Waits(b)'
    BY <1>1, <1>4, StillWaits DEF NoUserYet
  <2>2. \A u \in tasks' : FirstTask(u)' \/ u.at = "oxCreate"
    BY <1>4 DEF NoUserYet, Fewer, FirstTask, Aside
  <2> QED
    BY <1>2, <1>4, <2>1, <2>2 DEF First, NoUserYet
<1>5. ASSUME NEW w \in Slots, UserOf(w) PROVE UserOf(w)'
  <2>1. row[w] # NoRow /\ \A u \in tasks' : ForUser(u, w)
    BY <1>5 DEF UserOf, Fewer
  <2>2. \A u \in tasks' : ForUser(u, w)'
    BY <1>1, <2>1, ForUserStays
  <2>3. \A b \in Slots : Waits(b)' => b = w
    BY <1>1, <1>5, StillWaits DEF UserOf
  <2>4. \A a \in Slots : Settled(a)' => a = w /\ row'[a].status = "ENABLED"
    BY <1>1, <1>5 DEF UserOf, Settled
  <2> QED
    BY <1>1, <1>2, <1>5, <2>2, <2>3, <2>4 DEF UserOf
<1> QED
  BY <1>3, <1>4, <1>5 DEF First

(* as it may when one is enabled, or to be enabled again. *)
LEMMA Shrinks ==
  ASSUME Typed, Fit, OneEnabled, Leaving \/ Asked, Fewer, Calm' => Calm, tasks' = tasks \/ Calm
  PROVE  OneEnabled' /\ (Leaving \/ Asked)'
<1>1. Still /\ RowsKept /\ StatusKept /\ UNCHANGED <<person, schools, username, row>> /\ tasks' \subseteq tasks
  BY StillKept DEF Fewer, Still
<1>2. OneEnabled'
  BY <1>1 DEF OneEnabled
<1>3. Leaving => Leaving'
  BY <1>1 DEF Leaving, Still
<1>4. ASSUME After, person.exists PROVE After'
  <2>1. \A u \in tasks : Used(username[u.q]) => Used(username[u.q])'
    BY <1>1 DEF Used, Fewer
  <2>2. \A u \in tasks' : Harmless(u)'
    BY <1>1, <1>4, <2>1, HarmlessStays DEF After
  <2>3. \A b \in Slots : Waits(b)' => Ahead(b)'
    BY <1>1, <1>4, StillWaits DEF After
  <2> QED
    BY <1>1, <1>4, <2>2, <2>3 DEF After, NothingEnabled
<1>5. ASSUME Before PROVE Before'
  <2>1. \A u \in tasks' : Enables1(u)'
    BY <1>1, <1>5, EnablesStill DEF Before
  <2>2. \A b \in Slots : Waits(b)' => Ahead(b)'
    BY <1>1, <1>5, StillWaits DEF Before
  <2> QED
    BY <1>1, <1>5, <2>1, <2>2 DEF Before, NothingEnabled, NoneSettled, Settled
<1>6. ASSUME Asked PROVE Asked'
  <2>1. keycloak' # "gone" /\ person'.exists /\ person.exists
    BY <1>1, <1>6 DEF Asked, Still
  <2>2. (OneLine \/ After \/ Before \/ First)'
    BY <1>4, <1>5, <1>6, <2>1, LineShrinks, FirstShrinks DEF Asked
  <2> QED
    BY <2>1, <2>2 DEF Asked
<1> QED
  BY <1>2, <1>3, <1>6

(* The rows stay as they are, and what the others hold fits them. *)
LEMMA FewerFits ==
  ASSUME Fit, Fewer, overlaps' = overlaps PROVE Fit'
<1>1. /\ Still /\ row' = row /\ order' = order /\ loaded' = loaded /\ username' = username /\ person' = person
      /\ RowsKept /\ tasks' \subseteq tasks
  BY StillKept DEF Fewer, Still
<1>2. RowsFit'
  BY <1>1 DEF Fit, RowsFit
<1>3. HandlersFit'
  BY <1>1, FitsStays DEF Fit, HandlersFit
<1>4. InTurn'
  BY <1>1 DEF Fit, InTurn
<1> QED
  BY <1>2, <1>3, <1>4 DEF Fit

-----------------------------------------------------------------------------
(* Requests that begin                                                     *)

(* A request that begins fits: its copy of the person has the rows there are. *)
LEMMA BeginFits ==
  ASSUME Typed, Fit, NEW q \in Sessions, NEW name, Begin(q, name), row' = row, order' = order, person'.name = name,
         NEW N, tasks' = tasks \union N,
         \A u \in N : u.q = q /\ u.held = <<>> /\ u.at \notin {"join", "keycloakSet", "confirm", "oxChange"}
  PROVE  Fit'
<1>1. RowsFit /\ HandlersFit /\ InTurn
  BY DEF Fit
<1>2. /\ loaded' = [loaded EXCEPT ![q] = order] /\ username' = [username EXCEPT ![q] = name]
      /\ IF tasks = {} THEN UNCHANGED <<faults, overlaps>> ELSE overlaps' = overlaps + 1
  BY DEF Begin
<1>3. /\ loaded \in [Sessions -> Seq(Slots)] /\ username \in [Sessions -> Names \union {0}] /\ overlaps \in Nat
  BY TypedParts, BoundsAssumption DEF TableTyped, OthersTyped
<1>4. loaded'[q] = order /\ username'[q] = name /\ \A p \in Sessions : p # q => loaded'[p] = loaded[p]
  BY <1>2, <1>3
<1>5. RowsFit'
  <2>1. ASSUME NEW p \in Sessions PROVE \A i \in 1 .. Len(loaded'[p]) : row'[loaded'[p][i]] # NoRow
    <3>1. CASE p = q
      BY <1>1, <1>4, <3>1 DEF RowsFit
    <3>2. CASE p # q
      BY <1>1, <1>4, <3>2 DEF RowsFit
    <3> QED
      BY <3>1, <3>2
  <2>2. \A p \in Sessions : \A i \in 1 .. Len(loaded[p])' : row'[loaded[p]'[i]] # NoRow
    BY <2>1
  <2> QED
    BY <1>1, <2>2 DEF RowsFit
<1>6. RowsKept
  BY DEF RowsKept
<1>7. HandlersFit'
  <2>1. ASSUME NEW u \in tasks PROVE HeldFits(u)'
    BY <1>1, <1>6, <2>1, FitsStays DEF HandlersFit
  <2>2. ASSUME NEW u \in N PROVE HeldFits(u)'
    <3>1. HeldFits(u)
      BY <2>2, EmptyFits
    <3> QED
      BY <1>6, <3>1, FitsStays
  <2> QED
    BY <2>1, <2>2 DEF HandlersFit
<1>8. InTurn'
  <2>1. CASE tasks = {}
    BY <1>4, <2>1 DEF InTurn
  <2>2. CASE tasks # {}
    BY <1>2, <1>3, <2>2 DEF InTurn
  <2> QED
    BY <2>1, <2>2
<1> QED
  BY <1>5, <1>7, <1>8 DEF Fit

(* When nothing is in progress, an address waits only behind one that was valid, *)
(* or for a user that has its name already.                                     *)
LEMMA WaitingIsServed ==
  ASSUME Asked, tasks = {}, NEW b \in Slots, Waits(b) PROVE Ahead(b) \/ Served
<1>1. CASE OneLine
  BY <1>1 DEF OneLine, Settles
<1>2. CASE After \/ Before
  BY <1>2 DEF After, Before
<1>3. CASE UserWas \/ NoUserYet
  BY <1>3 DEF UserWas, NoUserYet
<1>4. ASSUME NEW w \in Slots, UserOf(w) PROVE Served
  <2>1. b = w /\ row[w].status = "REQUESTED"
    BY <1>4 DEF UserOf, Waits
  <2>2. NoneSettled
    BY <1>4, <2>1 DEF UserOf, NoneSettled, Settled
  <2> QED
    BY <1>4, <2>2 DEF Served, UserOf
<1> QED
  BY <1>1, <1>2, <1>3, <1>4 DEF Asked, First

(* Without a failure, none waits then. *)
LEMMA CalmRests ==
  ASSUME Typed, CalmInv, Calm, keycloak # "gone", tasks = {}, NEW b \in Slots PROVE ~Waits(b)
<1>1. TableInv /\ Living
  BY DEF CalmInv, Gone, Base
<1>2. Steady
  BY <1>1, LivingRests DEF Rested
<1>3. CASE b \in Known
  BY <1>2, <1>3 DEF Steady, Waits
<1>4. CASE b \notin Known
  BY <1>1, <1>4 DEF TableInv, Waits, NoRow
<1> QED
  BY <1>3, <1>4

(* What begins is one handler, and one beside it. *)
LEMMA OneBegins ==
  ASSUME Typed, CalmInv, Asked, OneEnabled, tasks = {}, NEW q \in Sessions, NEW name, Begin(q, name),
         row' = row, order' = order, oxUser' = oxUser, keycloak' = keycloak, Calm' => Calm, person'.exists,
         NEW p, p.q = q, p.todo = {}, InLine(p)' , NEW L, tasks' = {p} \union L, \A l \in L : Aside(l),
         Served => Served' \/ \A b : Fixes(p, b)'
  PROVE  OneEnabled' /\ Asked'
<1>1. OneEnabled'
  BY DEF OneEnabled
<1>2. \A b \in Slots : (Waits(b)' <=> Waits(b)) /\ (Ahead(b)' <=> Ahead(b))
  BY DEF Waits, Ahead, Settled
<1>3. Line(p) /\ \A l \in L : ~Line(l) /\ l.for # "deleted"
  BY DEF InLine, Line, LinePlaces, Aside
<1>4. \A u, v \in tasks' : Line(u) /\ Line(v) => u = v
  BY <1>3
<1>5. \A u \in tasks' : IF Line(u) THEN InLine(u)' ELSE u.for # "deleted"
  BY <1>3
<1>6. ASSUME NEW b \in Slots, Waits(b)' PROVE Ahead(b)' \/ Served' \/ \E u \in tasks' : Fixes(u, b)'
  BY <1>2, <1>6, WaitingIsServed
<1>7. Calm' => \A b \in Slots : ~Waits(b)'
  BY <1>2, CalmRests DEF Asked
<1>8. \A u : Line(u)' <=> Line(u)
  BY DEF Line
<1>9. OneLine'
  BY <1>4, <1>5, <1>6, <1>7, <1>8 DEF OneLine, Settles
<1> QED
  BY <1>1, <1>9 DEF Asked

(* A change of the rights. *)
LEMMA RightsBegin ==
  ASSUME Typed, CalmInv, Asked, OneEnabled, tasks = {}, NEW q \in Sessions, Begin(q, person.name),
         row' = row, order' = order, oxUser' = oxUser, keycloak' = keycloak, person' = person, Calm' => Calm,
         NEW L, tasks' = {Task(q, "person")} \union L, \A l \in L : Aside(l)
  PROVE  OneEnabled' /\ Asked'
<1>1. PICK p : p = Task(q, "person")
  OBVIOUS
<1>2. p.q = q /\ p.at = "person" /\ p.for = "none" /\ p.school = {} /\ p.todo = {} /\ p.held = <<>>
  BY <1>1 DEF Task
<1>3. loaded'[p.q] = order'
  BY <1>2, TypedParts DEF Begin, TableTyped
<1>4. tasks' = {p} \union L /\ \A l \in L : Aside(l)
  BY <1>1
<1>5. \A v \in tasks' \ {p} : Aside(v)
  BY <1>4
<1>6. InLine(p)'
  BY <1>2, <1>3, <1>5 DEF InLine, LinePlaces, ForNew, Requesting, Aside
<1>7. ASSUME Served PROVE Served' \/ \A b : Fixes(p, b)'
  <2>1. CASE Entitled' = {}
    BY <1>2, <2>1 DEF Fixes
  <2>2. CASE Entitled' # {}
    BY <1>7, <2>2 DEF Served, NoneSettled, Settled, Used
  <2> QED
    BY <2>1, <2>2
<1>8. person'.exists
  BY DEF Asked
<1> QED
  BY <1>2, <1>4, <1>6, <1>7, <1>8, OneBegins

(* A change of the name. *)
LEMMA NameBegins ==
  ASSUME Typed, CalmInv, Asked, OneEnabled, tasks = {}, NEW q \in Sessions, Rename(q), Calm' => Calm
  PROVE  OneEnabled' /\ Asked'
<1>1. PICK p : p = Task(q, "renamed")
  OBVIOUS
<1>2. p.q = q /\ p.at = "renamed" /\ p.for = "none" /\ p.todo = {} /\ p.held = <<>>
  BY <1>1 DEF Task
<1>3. /\ Begin(q, person.name + 1) /\ tasks' = {p} \union {} /\ UNCHANGED <<row, order, schools, offers, oxUser, keycloak>>
      /\ person'.exists = person.exists
  BY <1>1, TypedParts DEF Rename, table, ox, OthersTyped
<1>4. InLine(p)'
  BY <1>2 DEF InLine, LinePlaces, ForNew, Requesting
<1>5. ASSUME Served PROVE \A b : Fixes(p, b)'
  <2>1. NoneSettled' /\ Entitled' # {}
    BY <1>3, <1>5 DEF Served, NoneSettled, Settled, Entitled
  <2> QED
    BY <1>2, <2>1 DEF Fixes, WillServe
<1>6. person'.exists
  BY <1>3 DEF Asked
<1>7. PICK L : L = {}
  OBVIOUS
<1>8. tasks' = {p} \union L /\ \A l \in L : Aside(l)
  BY <1>3, <1>7
<1> QED
  BY <1>2, <1>3, <1>4, <1>5, <1>6, <1>8, OneBegins

(* The end. *)
LEMMA EndBegins ==
  ASSUME OneEnabled, tasks = {}, NEW q \in Sessions, Delete(q)
  PROVE  OneEnabled' /\ Leaving'
<1>1. /\ row' = row /\ keycloak' = "gone" /\ schools' = schools
      /\ tasks' = {[Task(q, "person") EXCEPT !.school = schools],
                   [Task(q, "leaveRead") EXCEPT !.school = schools],
                   [Task(q, "deactivate") EXCEPT !.text = EmailOf(order)],
                   [Task(q, "deleted") EXCEPT !.text = EmailOf(order)],
                   Task(q, "deleteRow")}
  BY DEF Delete, table
<1>2. \A t \in tasks' : t.at \in GonePlaces /\ (t.at = "person" => t.school = schools)
  BY <1>1 DEF Task, GonePlaces
<1> QED
  BY <1>1, <1>2 DEF OneEnabled, Leaving

-----------------------------------------------------------------------------
(* All steps                                                               *)

(* At first a person has no address, or one that is enabled or disabled. *)
LEMMA InitOne == Init => Fit /\ OneInv
<1> SUFFICES ASSUME Init PROVE Fit /\ OneInv
  OBVIOUS
<1>1. PICK known \in BOOLEAN, st \in {"ENABLED", "DISABLED"} :
        /\ row = [a \in Slots |-> IF known /\ a = 1 THEN [status |-> st, ox |-> 1, text |-> 1] ELSE NoRow]
        /\ order = IF known THEN <<1>> ELSE <<>>
        /\ keycloak # "gone"
  <2>1. PICK known \in BOOLEAN :
          LET entitled == IF offers THEN schools ELSE {} IN
          /\ row = [a \in Slots |->
                     IF known /\ a = 1
                     THEN [status |-> IF entitled = {} THEN "DISABLED" ELSE "ENABLED", ox |-> 1, text |-> 1]
                     ELSE NoRow]
          /\ order = IF known THEN <<1>> ELSE <<>>
          /\ keycloak = IF entitled = {} THEN "unset" ELSE "set"
    BY DEF Init
  <2>2. PICK st \in {"ENABLED", "DISABLED"} :
          st = IF (IF offers THEN schools ELSE {}) = {} THEN "DISABLED" ELSE "ENABLED"
    OBVIOUS
  <2> QED
    BY <2>1, <2>2
<1>2. /\ person.exists /\ tasks = {} /\ loaded = [q \in Sessions |-> <<>>]
  BY DEF Init
<1>3. \A a \in Slots : a \in Nat /\ a >= 1
  BY BoundsAssumption DEF Slots
<1>4. 1 \in Slots
  BY BoundsAssumption DEF Slots
<1>5. \A a \in Slots : row[a] # NoRow <=> known /\ a = 1
  BY <1>1 DEF NoRow
<1>6. Fit
  <2>1. \A a \in Slots : row[a] # NoRow <=> a <= Len(order)
    <3>1. CASE known
      <4>1. Len(order) = 1
        BY <1>1, <3>1
      <4> QED
        BY <1>3, <1>5, <3>1, <4>1
    <3>2. CASE ~known
      <4>1. Len(order) = 0
        BY <1>1, <3>2
      <4> QED
        BY <1>3, <1>5, <3>2, <4>1
    <3> QED
      BY <3>1, <3>2
  <2>2. ASSUME NEW a \in Slots, row[a] # NoRow PROVE row[a].text # 0 /\ \E i \in 1 .. Len(order) : order[i] = a
    <3>1. known /\ a = 1
      BY <1>5, <2>2
    <3>2. row[a].text = 1 /\ order = <<1>>
      BY <1>1, <3>1
    <3>3. 1 \in 1 .. Len(order) /\ order[1] = a
      BY <3>1, <3>2
    <3> QED
      BY <3>2, <3>3
  <2>3. \A i \in 1 .. Len(order) : row[order[i]] # NoRow
    BY <1>1, <1>4, <1>5
  <2>4. \A a, b \in Slots : row[a] # NoRow /\ row[b] # NoRow /\ row[a].text = row[b].text => a = b
    BY <1>5
  <2>5. \A q \in Sessions : \A i \in 1 .. Len(loaded[q]) : row[loaded[q][i]] # NoRow
    BY <1>2
  <2>6. RowsFit
    BY <2>1, <2>2, <2>3, <2>4, <2>5 DEF RowsFit
  <2> QED
    BY <1>2, <2>6 DEF Fit, HandlersFit, InTurn
<1>7. OneEnabled
  BY <1>1 DEF OneEnabled, NoRow
<1>8. \A b \in Slots : ~Waits(b)
  BY <1>1 DEF Waits, NoRow
<1>9. OneLine
  BY <1>2, <1>8 DEF OneLine, Settles
<1> QED
  BY <1>1, <1>2, <1>6, <1>7, <1>9 DEF OneInv, Asked

(* A step of a handler keeps it so, *)
LEMMA StepOne ==
  ASSUME Typed, Typed', CalmInv, Fit, Single, Single', OneEnabled, Leaving \/ Asked, NEW t \in tasks, Step(t),
         Calm' => Calm
  PROVE  OneEnabled' /\ (Leaving \/ Asked)'
<1>1. overlaps = 0 /\ (Fault => Calm)
  BY FaultIsFirst DEF Single
<1>2. CASE Leaving
  BY <1>2, LeavingStep DEF LeavingKept
<1>3. CASE Asked
  <2>1. keycloak # "gone" /\ person.exists
    BY <1>3 DEF Asked
  <2>2. t.at # "deleteRow"
    <3>1. OneLine => t.at # "deleteRow"
      BY DEF OneLine, Line, InLine, LinePlaces
    <3>2. After \/ Before => t.at # "deleteRow"
      BY DEF After, Before, Harmless, Enables1, Aside, Gives, Confirms
    <3>3. First => t.at # "deleteRow"
      BY DEF First, UserWas, NoUserYet, UserOf, ToUser, ForUser, FirstTask, Aside, Gives, Confirms
    <3> QED
      BY <1>3, <3>1, <3>2, <3>3 DEF Asked
  <2>3. person'.exists /\ keycloak' # "gone"
    BY <2>1, <2>2, StaysThere
  <2>4. CASE After
    BY <1>1, <2>1, <2>3, <2>4, AfterStep DEF AfterKept, Asked
  <2>5. CASE Before
    BY <1>1, <2>1, <2>3, <2>5, BeforeStep DEF BeforeKept, Asked
  <2>6. CASE First
    BY <1>1, <2>1, <2>3, <2>6, FirstStep DEF FirstKept, Asked
  <2>7. CASE OneLine
    BY <1>1, <2>1, <2>3, <2>7, LineStep DEF OneKept, Asked
  <2> QED
    BY <1>3, <2>4, <2>5, <2>6, <2>7 DEF Asked
<1> QED
  BY <1>2, <1>3

(* a request that begins does, *)
LEMMA BeginsOne ==
  ASSUME Typed, CalmInv, Fit, NEW q \in Sessions,
         (\E S \in SUBSET Schools : ChangeKontexte(q, S)) \/ ChangeRolle(q) \/ Rename(q) \/ Delete(q), Calm' => Calm
  PROVE  /\ Fit'
         /\ OneEnabled /\ (Leaving \/ Asked) /\ Single' => OneEnabled' /\ (Leaving \/ Asked)'
<1>1. ASSUME NEW name, Begin(q, name), Single' PROVE tasks = {} /\ keycloak # "gone"
  <2>1. overlaps \in Nat /\ overlaps' = 0
    BY <1>1, TypedParts, BoundsAssumption DEF OthersTyped, Single
  <2> QED
    BY <1>1, <2>1 DEF Begin
<1>2. ASSUME NEW at PROVE LET t == Task(q, at) IN t.q = q /\ t.at = at /\ t.held = <<>> /\ t.for = "none"
  BY DEF Task
<1>3. keycloak # "gone" => ~Leaving
  BY DEF Leaving
<1>4. ASSUME NEW S \in SUBSET Schools, ChangeKontexte(q, S)
      PROVE  /\ Fit'
             /\ OneEnabled /\ (Leaving \/ Asked) /\ Single' => OneEnabled' /\ (Leaving \/ Asked)'
  <2>1. /\ Begin(q, person.name) /\ UNCHANGED <<row, order, person, oxUser, keycloak>>
        /\ tasks' = tasks \union {Task(q, "person"), [Task(q, "leaveRead") EXCEPT !.school = schools \ S]}
    BY <1>4 DEF ChangeKontexte, table, ox
  <2>2. PICK l : l = [Task(q, "leaveRead") EXCEPT !.school = schools \ S]
    OBVIOUS
  <2>3. l.q = q /\ l.at = "leaveRead" /\ l.held = <<>> /\ l.for = "none"
    BY <2>2 DEF Task
  <2>4. PICK N : N = {Task(q, "person"), l}
    OBVIOUS
  <2>5. \A u \in N : u.q = q /\ u.held = <<>> /\ u.at \notin {"join", "keycloakSet", "confirm", "oxChange"}
    BY <1>2, <2>3, <2>4
  <2>6. tasks' = tasks \union N
    BY <2>1, <2>2, <2>4
  <2>7. Fit'
    BY <2>1, <2>5, <2>6, BeginFits
  <2>8. ASSUME OneEnabled, Leaving \/ Asked, Single' PROVE OneEnabled' /\ Asked'
    <3>1. tasks = {} /\ Asked
      BY <1>1, <1>3, <2>1, <2>8
    <3>2. PICK L : L = {l}
      OBVIOUS
    <3>3. tasks' = {Task(q, "person")} \union L /\ \A v \in L : Aside(v)
      BY <2>3, <2>4, <2>6, <3>1, <3>2 DEF Aside
    <3> QED
      BY <2>1, <2>8, <3>1, <3>3, RightsBegin
  <2> QED
    BY <2>7, <2>8
<1>5. CASE ChangeRolle(q)
  <2>1. /\ Begin(q, person.name) /\ UNCHANGED <<row, order, person, oxUser, keycloak>>
        /\ tasks' = tasks \union {Task(q, "person")}
    BY <1>5 DEF ChangeRolle, table, ox
  <2>2. PICK N : N = {Task(q, "person")}
    OBVIOUS
  <2>3. \A u \in N : u.q = q /\ u.held = <<>> /\ u.at \notin {"join", "keycloakSet", "confirm", "oxChange"}
    BY <1>2, <2>2
  <2>4. tasks' = tasks \union N
    BY <2>1, <2>2
  <2>5. Fit'
    BY <2>1, <2>3, <2>4, BeginFits
  <2>6. ASSUME OneEnabled, Leaving \/ Asked, Single' PROVE OneEnabled' /\ Asked'
    <3>1. tasks = {} /\ Asked
      BY <1>1, <1>3, <2>1, <2>6
    <3>2. PICK L : L = {}
      OBVIOUS
    <3>3. tasks' = {Task(q, "person")} \union L /\ \A v \in L : Aside(v)
      BY <2>1, <3>1, <3>2
    <3> QED
      BY <2>1, <2>6, <3>1, <3>3, RightsBegin
  <2> QED
    BY <2>5, <2>6
<1>6. CASE Rename(q)
  <2>1. /\ Begin(q, person.name + 1) /\ UNCHANGED <<row, order>> /\ person'.name = person.name + 1
        /\ tasks' = tasks \union {Task(q, "renamed")}
    BY <1>6, TypedParts DEF Rename, table, OthersTyped
  <2>2. PICK N : N = {Task(q, "renamed")}
    OBVIOUS
  <2>3. \A u \in N : u.q = q /\ u.held = <<>> /\ u.at \notin {"join", "keycloakSet", "confirm", "oxChange"}
    BY <1>2, <2>2
  <2>4. tasks' = tasks \union N
    BY <2>1, <2>2
  <2>5. Fit'
    BY <2>1, <2>3, <2>4, BeginFits
  <2>6. ASSUME OneEnabled, Leaving \/ Asked, Single' PROVE OneEnabled' /\ Asked'
    BY <1>1, <1>3, <1>6, <2>1, <2>6, NameBegins
  <2> QED
    BY <2>5, <2>6
<1>7. CASE Delete(q)
  <2>1. /\ Begin(q, person.name) /\ UNCHANGED <<row, order>> /\ person' = person
        /\ tasks' = tasks \union
             {[Task(q, "person") EXCEPT !.school = schools],
              [Task(q, "leaveRead") EXCEPT !.school = schools],
              [Task(q, "deactivate") EXCEPT !.text = EmailOf(order)],
              [Task(q, "deleted") EXCEPT !.text = EmailOf(order)],
              Task(q, "deleteRow")}
    BY <1>7 DEF Delete, table
  <2>2. PICK N : N = {[Task(q, "person") EXCEPT !.school = schools],
                      [Task(q, "leaveRead") EXCEPT !.school = schools],
                      [Task(q, "deactivate") EXCEPT !.text = EmailOf(order)],
                      [Task(q, "deleted") EXCEPT !.text = EmailOf(order)],
                      Task(q, "deleteRow")}
    OBVIOUS
  <2>3. \A u \in N : u.q = q /\ u.held = <<>> /\ u.at \notin {"join", "keycloakSet", "confirm", "oxChange"}
    BY <2>2 DEF Task
  <2>4. tasks' = tasks \union N
    BY <2>1, <2>2
  <2>5. Fit'
    BY <2>1, <2>3, <2>4, BeginFits
  <2>6. ASSUME OneEnabled, Leaving \/ Asked, Single' PROVE OneEnabled' /\ Leaving'
    BY <1>1, <1>7, <2>1, <2>6, EndBegins
  <2> QED
    BY <2>5, <2>6
<1> QED
  BY <1>4, <1>5, <1>6, <1>7

(* and a failure or a restart does. *)
LEMMA NextOne == Typed /\ CalmInv /\ Fit /\ OneInv /\ [Next]_vars => Fit' /\ OneInv'
<1> SUFFICES ASSUME Typed, CalmInv, Fit, OneInv, [Next]_vars PROVE Fit' /\ OneInv'
  OBVIOUS
<1>1. Typed' /\ (Single' => Single) /\ (Calm' => Calm)
  BY NextTyped, SingleWas, StaysCalm
<1>2. Single' => OneEnabled /\ (Leaving \/ Asked)
  BY <1>1 DEF OneInv
<1>3. ASSUME NEW t \in tasks, Step(t) PROVE Fit' /\ OneInv'
  <2>1. Fit'
    BY <1>3, StepFits
  <2>2. Single' => OneEnabled' /\ (Leaving \/ Asked)'
    BY <1>1, <1>2, <1>3, StepOne
  <2> QED
    BY <2>1, <2>2 DEF OneInv
<1>4. ASSUME NEW q \in Sessions,
             (\E S \in SUBSET Schools : ChangeKontexte(q, S)) \/ ChangeRolle(q) \/ Rename(q) \/ Delete(q)
      PROVE  Fit' /\ OneInv'
  BY <1>1, <1>2, <1>4, BeginsOne DEF OneInv
<1>5. ASSUME Fewer, overlaps' = overlaps, tasks' = tasks \/ Fault PROVE Fit' /\ OneInv'
  <2>1. Fit'
    BY <1>5, FewerFits
  <2>2. ASSUME Single' PROVE OneEnabled' /\ (Leaving \/ Asked)'
    <3>1. Fault => Calm
      BY <2>2, FaultIsFirst
    <3> QED
      BY <1>1, <1>2, <1>5, <2>2, <3>1, Shrinks
  <2> QED
    BY <2>1, <2>2 DEF OneInv
<1>6. ASSUME NEW t \in tasks, Throws(t) PROVE Fit' /\ OneInv'
  <2>1. Fewer /\ overlaps' = overlaps /\ Fault
    BY <1>6 DEF Throws, Fewer, Still, Fault, Do, table, ox, copy
  <2> QED
    BY <1>5, <2>1
<1>7. CASE Restart
  <2>1. Fewer /\ overlaps' = overlaps /\ Fault
    BY <1>7 DEF Restart, Fewer, Still, Fault, table, ox, copy
  <2> QED
    BY <1>5, <2>1
<1>8. CASE UNCHANGED vars
  <2>1. Fewer /\ overlaps' = overlaps /\ tasks' = tasks
    BY <1>8 DEF vars, Fewer, Still, table, ox, copy, trouble
  <2> QED
    BY <1>5, <2>1
<1> QED
  BY <1>3, <1>4, <1>6, <1>7, <1>8 DEF Next

(* A set with no two different elements has one at most. *)
LEMMA OneAtMost ==
  ASSUME NEW S, \A x, y \in S : x = y PROVE Cardinality(S) <= 1
<1>1. CASE S = {}
  BY <1>1, FS_EmptySet
<1>2. CASE S # {}
  <2>1. PICK x : x \in S
    BY <1>2
  <2>2. S = {x}
    BY <2>1
  <2>3. Cardinality({x}) = 1
    BY FS_Singleton
  <2> QED
    BY <2>2, <2>3
<1> QED
  BY <1>1, <1>2

(* While requests are answered one after the other, however many schools an      *)
(* address is due for, or else with one failure of any call or handler, a person *)
(* has at most one enabled address; and without a failure, and with one school,  *)
(* mail to it reaches the person, as the only user of OX there is.               *)
THEOREM AddressIsPrimary == Spec => []EnabledIsPrimary
<1>1. Init => (Typed /\ CalmInv) /\ Fit /\ OneInv
  BY InitTyped, InitCalm, InitOne
<1>2. ((Typed /\ CalmInv) /\ Fit /\ OneInv) /\ [Next]_vars => ((Typed /\ CalmInv) /\ Fit /\ OneInv)'
  BY NextTyped, NextCalm, NextOne
<1>3. Typed /\ CalmInv /\ OneInv => EnabledIsPrimary
  <2> SUFFICES ASSUME Typed, CalmInv, OneInv, overlaps = 0
               PROVE  /\ faults = 0 \/ (faults = 1 /\ ~crowd) => Cardinality(Enabled) <= 1
                      /\ faults = 0 /\ ~crowd =>
                           /\ Cardinality({u \in OxIds : oxUser[u] # NoUser}) <= 1
                           /\ \A a \in Enabled : row[a].ox # 0 /\ oxUser[row[a].ox].primary = row[a].text
    BY DEF EnabledIsPrimary
  <2>1. ASSUME faults = 0 \/ (faults = 1 /\ ~crowd) PROVE Cardinality(Enabled) <= 1
    <3>1. OneEnabled
      BY <2>1 DEF OneInv, Single
    <3>2. \A a, b \in Enabled : a = b
      BY <3>1 DEF OneEnabled, Enabled
    <3> QED
      BY <3>2, OneAtMost
  <2> QED
    BY <2>1, CalmPrimary DEF Calm
<1> QED
  BY <1>1, <1>2, <1>3, PTL DEF Spec
=============================================================================
