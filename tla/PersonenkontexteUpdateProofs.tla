--------------------- MODULE PersonenkontexteUpdateProofs ---------------------
(***************************************************************************)
(* For any number of requests and Kontexte. Of requests that overlap: they are *)
(* type correct, what passes validate was based on the present rows, and what *)
(* the events tell was done. Of requests that run one after the other: each *)
(* leaves the rows it was asked for or an excuse, the events tell every change *)
(* without a gap, and the whole is a register of Kontexte, if no two changes *)
(* get the same lastModified.                                              *)
(***************************************************************************)
EXTENDS PersonenkontexteUpdate, FiniteSetTheorems, TLAPS

USE CallsAssumption, BoundsAssumption DEF Calls

(* The groups of variables, for the frame of an action.                    *)
USE DEF vars, db, trouble, Fault, client, found, written, Go, Stay

-----------------------------------------------------------------------------
(* Type correctness                                                        *)

(* The rows are finitely many, so that their number is a number, and what   *)
(* delete() has yet to delete stands for rows it read.                      *)
DeletesExisting ==
  \A c \in Calls : pc[c] = "delete" => todo[c] \subseteq KontexteOf(existing[c])
Typed == TypeOK /\ IsFiniteSet(rows) /\ DeletesExisting

(* A Kontext read off a row is a Kontext a request can name.               *)
LEMMA KontextTyped ==
  \A R \in SUBSET Rows : KontexteOf(R) \in SUBSET Kontexte
  BY DEF KontextOf, KontexteOf, Rows, Kontexte

(* The row behind an existing Kontext is one of the rows read.             *)
LEMMA ExistingRowTyped ==
  ASSUME NEW c \in Calls, NEW k \in KontexteOf(existing[c])
  PROVE  ExistingRow(c, k) \in existing[c]
  BY DEF ExistingRow, KontexteOf

(* The state before the first request is well typed. *)
LEMMA InitTyped == Init => Typed
<1> SUFFICES ASSUME Init PROVE Typed
  OBVIOUS
<1>1. rows \in SUBSET Rows
  BY DEF Init, InitialRows, Rows
<1>2. IsFiniteSet(rows)
  BY FiniteAssumption, FS_Subset DEF Init
<1>3. bus \in Seq(Events)
  BY DEF Init
<1> QED
  BY <1>1, <1>2, <1>3 DEF Init, Typed, TypeOK, DeletesExisting, Steps

(* The rows stay finitely many: a step removes some or inserts one.         *)
LEMMA RowsStayFinite == IsFiniteSet(rows) /\ [Next]_vars => IsFiniteSet(rows')
<1> SUFFICES ASSUME IsFiniteSet(rows), [Next]_vars PROVE IsFiniteSet(rows')
  OBVIOUS
<1>1. ASSUME NEW c \in Calls, DeleteOne(c) PROVE IsFiniteSet(rows')
  <2>1. rows' \in SUBSET rows
    BY <1>1 DEF DeleteOne
  <2> QED
    BY <2>1, FS_Subset
<1>2. ASSUME NEW c \in Calls, AddOne(c) PROVE IsFiniteSet(rows')
  <2>1. PICK r : rows' = rows \union {r}
    BY <1>2 DEF AddOne
  <2> QED
    BY <2>1, FS_AddElement
<1>3. CASE DeletePersonRow
  BY <1>3, FS_EmptySet DEF DeletePersonRow
<1>4. CASE UNCHANGED rows
  BY <1>4
<1> QED
  BY <1>1, <1>2, <1>3, <1>4 DEF Next, Process, ShowUebersicht, SelectExpired, Submit,
    FindSent, ReadExisting, CheckSpecifications, Validate, CheckPermissions,
    DeleteOneFails, DeletesDone, AddFoundEarlier, AddOneFails, AddsDone,
    ReadAfterUpdate, NoteUnassignment, PublishEvent, Crash

(* Every step leads from a well typed state to one. *)
LEMMA NextTyped == Typed /\ [Next]_vars => Typed'
<1> SUFFICES ASSUME Typed, [Next]_vars PROVE TypeOK' /\ DeletesExisting'
  BY RowsStayFinite DEF Typed
<1>0. TypeOK /\ DeletesExisting
  BY DEF Typed
<1>a. Cardinality(rows) \in Nat
  BY FS_CardinalityType DEF Typed
<1> USE <1>0 DEF TypeOK, DeletesExisting, Steps
<1>1. ASSUME NEW c \in Calls, ShowUebersicht(c)
      PROVE TypeOK' /\ DeletesExisting'
  BY <1>1, <1>a DEF ShowUebersicht
<1>2. ASSUME NEW c \in Calls, SelectExpired(c)
      PROVE TypeOK' /\ DeletesExisting'
  BY <1>2, <1>a DEF SelectExpired
<1>3. ASSUME NEW c \in Calls, NEW B \in Bodies, Submit(c, B)
      PROVE TypeOK' /\ DeletesExisting'
  <2>1. overlaps' \in Nat /\ UNCHANGED faults
    BY <1>3 DEF Submit, Arrives
  <2>2. UNCHANGED <<rows, person, bus, view, count, found, written, after>>
    BY <1>3 DEF Submit
  <2>3. /\ body' \in [Calls -> SUBSET Kontexte] /\ todo' \in [Calls -> SUBSET Kontexte]
        /\ pc' \in [Calls -> Steps] /\ clock' \in Nat /\ lastMod' \in [Calls -> Nat]
    BY <1>3 DEF Submit, Bodies
  <2>4. DeletesExisting'
    BY <1>3 DEF Submit
  <2> QED
    BY <2>1, <2>2, <2>3, <2>4
<1>4. ASSUME NEW c \in Calls, FindSent(c)
      PROVE TypeOK' /\ DeletesExisting'
  BY <1>4 DEF FindSent
<1>5. ASSUME NEW c \in Calls, ReadExisting(c)
      PROVE TypeOK' /\ DeletesExisting'
  BY <1>5 DEF ReadExisting
<1>6. ASSUME NEW c \in Calls, CheckSpecifications(c)
      PROVE TypeOK' /\ DeletesExisting'
  BY <1>6 DEF CheckSpecifications
<1>7. ASSUME NEW c \in Calls, Validate(c)
      PROVE TypeOK' /\ DeletesExisting'
  BY <1>7 DEF Validate
<1>8. ASSUME NEW c \in Calls, CheckPermissions(c)
      PROVE TypeOK' /\ DeletesExisting'
  <2>1. KontexteOf(existing[c]) \in SUBSET Kontexte
    BY KontextTyped
  <2>2. CASE Go(c, "permissions", "rejected") /\ UNCHANGED todo
    BY <1>8, <2>2 DEF CheckPermissions
  <2>3. CASE /\ Go(c, "permissions", "delete")
             /\ todo' = [todo EXCEPT ![c] = KontexteOf(existing[c]) \ body[c]]
    <3>1. KontexteOf(existing[c]) \ body[c] \in SUBSET Kontexte
      BY <2>1
    <3> DEFINE T == KontexteOf(existing[c]) \ body[c]
    <3>2. T \subseteq KontexteOf(existing[c])
      OBVIOUS
    <3>3. todo' = [todo EXCEPT ![c] = T]
      BY <2>3
    <3> HIDE DEF T
    <3> QED
      BY <1>8, <3>1, <3>2, <3>3 DEF CheckPermissions
  <2> QED
    BY <1>8, <2>2, <2>3 DEF CheckPermissions
<1>9. ASSUME NEW c \in Calls, DeleteOne(c)
      PROVE TypeOK' /\ DeletesExisting'
  <2>1. PICK k \in todo[c] :
          /\ rows' = {r \in rows : ~SameKey(r, k)}
          /\ todo' = [todo EXCEPT ![c] = @ \ {k}]
          /\ removed' = [removed EXCEPT ![c] = @ \union {ExistingRow(c, k)}]
    BY <1>9 DEF DeleteOne
  <2>2. pc[c] = "delete" /\ UNCHANGED <<person, clock, bus, trouble, pc, client, found,
                                       created, errors, after>>
    BY <1>9 DEF DeleteOne
  <2>3. ExistingRow(c, k) \in Rows
    BY <2>2, ExistingRowTyped
  <2> QED
    BY <2>1, <2>2, <2>3
<1>10. ASSUME NEW c \in Calls, DeleteOneFails(c)
      PROVE TypeOK' /\ DeletesExisting'
  BY <1>10 DEF DeleteOneFails
<1>11. ASSUME NEW c \in Calls, DeletesDone(c)
      PROVE TypeOK' /\ DeletesExisting'
  BY <1>11 DEF DeletesDone
<1>12. ASSUME NEW c \in Calls, AddOne(c)
      PROVE TypeOK' /\ DeletesExisting'
  BY <1>12 DEF AddOne, Rows, Kontexte
<1>13. ASSUME NEW c \in Calls, AddFoundEarlier(c)
      PROVE TypeOK' /\ DeletesExisting'
  BY <1>13 DEF AddFoundEarlier
<1>14. ASSUME NEW c \in Calls, AddOneFails(c)
      PROVE TypeOK' /\ DeletesExisting'
  BY <1>14 DEF AddOneFails
<1>15. ASSUME NEW c \in Calls, AddsDone(c)
      PROVE TypeOK' /\ DeletesExisting'
  BY <1>15 DEF AddsDone
<1>16. ASSUME NEW c \in Calls, ReadAfterUpdate(c)
      PROVE TypeOK' /\ DeletesExisting'
  BY <1>16 DEF ReadAfterUpdate
<1>17. ASSUME NEW c \in Calls, NoteUnassignment(c)
      PROVE TypeOK' /\ DeletesExisting'
  BY <1>17 DEF NoteUnassignment
<1>18. ASSUME NEW c \in Calls, PublishEvent(c)
      PROVE TypeOK' /\ DeletesExisting'
  <2>1. [created |-> created[c], removed |-> removed[c], current |-> after[c]] \in Events
    BY DEF Events
  <2>2. bus' \in Seq(Events)
    BY <1>18, <2>1 DEF PublishEvent
  <2> QED
    BY <1>18, <2>2 DEF PublishEvent
<1>19. ASSUME NEW c \in Calls, Crash(c)
      PROVE TypeOK' /\ DeletesExisting'
  BY <1>19 DEF Crash
<1>20. CASE DeletePersonRow
  <2>1. person' \in [exists : BOOLEAN, unassigned : BOOLEAN]
    BY <1>20 DEF DeletePersonRow
  <2> QED
    BY <1>20, <2>1 DEF DeletePersonRow
<1>21. CASE UNCHANGED vars
  BY <1>21
<1> QED
  BY <1>1, <1>2, <1>3, <1>4, <1>5, <1>6, <1>7, <1>8, <1>9, <1>10, <1>11, <1>12,
     <1>13, <1>14, <1>15, <1>16, <1>17, <1>18, <1>19, <1>20, <1>21 DEF Next, Process

(* Every reachable state is type correct, for any number of requests,       *)
(* organisations, Rollen and Befristungen.                                  *)
THEOREM TypeCorrect == Spec => []TypeOK
<1>1. Spec => []Typed
  BY InitTyped, NextTyped, PTL DEF Spec
<1>2. Typed => TypeOK
  BY DEF Typed
<1> QED
  BY <1>1, <1>2, PTL

-----------------------------------------------------------------------------
(* The optimistic check.  A row present now was either shown to the client  *)
(* or inserted later than anything it was shown; existing rows with stamps  *)
(* up to lastModified are therefore shown ones, and if they are as many as  *)
(* the shown ones they are all of them.                                     *)

ShownTo(c) ==
  /\ IsFiniteSet(view[c]) /\ count[c] = Cardinality(view[c])
  /\ lastMod[c] <= clock
  /\ \A r \in rows : r \in view[c] \/ r.upd > lastMod[c]

Checkable == {"rollenart", "validate"}

StampInv ==
  /\ Typed
  /\ \A r \in rows : r.upd <= clock
  /\ \A c \in EditCalls :
       /\ pc[c] # "idle" => ShownTo(c)
       /\ pc[c] \in Checkable =>
            \A r \in existing[c] : r \in view[c] \/ r.upd > lastMod[c]
  /\ ViewStillCurrent

(* Finite sets of equal size, one within the other, are equal.              *)
LEMMA CheckedViewIsComplete ==
  ASSUME NEW c \in EditCalls, TypeOK, ShownTo(c), UpToDate(c),
         \A r \in existing[c] : r \in view[c] \/ r.upd > lastMod[c]
  PROVE  existing[c] = view[c]
<1> USE DEF TypeOK, Rows
<1>1. CASE existing[c] = {}
  BY <1>1, FS_EmptySet DEF UpToDate, ShownTo
<1>2. CASE existing[c] # {}
  <2>1. existing[c] \in SUBSET view[c]
    BY <1>2 DEF UpToDate
  <2> QED
    BY <2>1, FS_Subset DEF UpToDate, ShownTo
<1> QED
  BY <1>1, <1>2

(* Before any request the invariant only speaks of the stamps.              *)
LEMMA InitStamped == Init => StampInv
<1> SUFFICES ASSUME Init PROVE StampInv
  OBVIOUS
<1>1. \A r \in rows : r.upd = 1
  BY DEF Init, InitialRows
<1>2. clock = 1 /\ \A c \in EditCalls : pc[c] = "idle"
  BY DEF Init
<1>3. \A r \in rows : r.upd <= clock
  BY <1>1, <1>2
<1>4. "idle" \notin Checkable /\ "idle" \notin Validated
  BY DEF Checkable, Validated
<1>5. \A c \in EditCalls : pc[c] \notin Checkable /\ pc[c] \notin Validated
  BY <1>2, <1>4
<1> QED
  BY <1>2, <1>3, <1>5, InitTyped DEF StampInv, ViewStillCurrent

(* Steps that at most remove rows, and take no request of an administrator  *)
(* to a step at which the invariant says more than before.                  *)
Quiet ==
  /\ rows' \subseteq rows
  /\ UNCHANGED <<clock, view, lastMod, count, existing>>
  /\ \A c \in Calls :
       /\ pc'[c] # "idle" => pc[c] # "idle"
       /\ pc'[c] \in Checkable => pc[c] \in Checkable
       /\ pc'[c] \in Validated => pc[c] \in Validated

(* Such a step keeps the invariant.                                         *)
LEMMA QuietStep == StampInv /\ Typed' /\ Quiet => StampInv'
<1> SUFFICES ASSUME StampInv, Typed', Quiet PROVE StampInv'
  OBVIOUS
<1>1. \A r \in rows' : r.upd <= clock'
  BY DEF StampInv, Quiet
<1>2. ASSUME NEW c \in EditCalls, pc'[c] # "idle" PROVE ShownTo(c)'
  BY <1>2 DEF StampInv, Quiet, ShownTo
<1>3. ASSUME NEW c \in EditCalls, pc'[c] \in Checkable
      PROVE  \A r \in existing'[c] : r \in view'[c] \/ r.upd > lastMod'[c]
  BY <1>3 DEF StampInv, Quiet
<1>4. ViewStillCurrent'
  BY DEF StampInv, Quiet, ViewStillCurrent
<1> QED
  BY <1>1, <1>2, <1>3, <1>4 DEF StampInv

(* Most actions are such steps.                                             *)
LEMMA QuietActions ==
  ASSUME TypeOK, NEW c \in Calls,
         \/ FindSent(c) \/ CheckSpecifications(c) \/ CheckPermissions(c)
         \/ DeleteOne(c) \/ DeleteOneFails(c) \/ DeletesDone(c)
         \/ AddFoundEarlier(c) \/ AddOneFails(c) \/ AddsDone(c)
         \/ ReadAfterUpdate(c) \/ NoteUnassignment(c) \/ PublishEvent(c) \/ Crash(c)
  PROVE  Quiet
<1> USE DEF TypeOK, Quiet, Checkable, Validated
<1>1. CASE FindSent(c)
  BY <1>1 DEF FindSent
<1>2. CASE CheckSpecifications(c)
  BY <1>2 DEF CheckSpecifications
<1>3. CASE CheckPermissions(c)
  BY <1>3 DEF CheckPermissions
<1>4. CASE DeleteOne(c)
  BY <1>4 DEF DeleteOne
<1>5. CASE DeleteOneFails(c)
  BY <1>5 DEF DeleteOneFails
<1>6. CASE DeletesDone(c)
  BY <1>6 DEF DeletesDone
<1>7. CASE AddFoundEarlier(c)
  BY <1>7 DEF AddFoundEarlier
<1>8. CASE AddOneFails(c)
  BY <1>8 DEF AddOneFails
<1>9. CASE AddsDone(c)
  BY <1>9 DEF AddsDone
<1>10. CASE ReadAfterUpdate(c)
  BY <1>10 DEF ReadAfterUpdate
<1>11. CASE NoteUnassignment(c)
  BY <1>11 DEF NoteUnassignment
<1>12. CASE PublishEvent(c)
  BY <1>12 DEF PublishEvent
<1>13. CASE Crash(c)
  BY <1>13 DEF Crash, InFlight
<1> QED
  BY <1>1, <1>2, <1>3, <1>4, <1>5, <1>6, <1>7, <1>8, <1>9, <1>10, <1>11, <1>12, <1>13

(* The page: everything present is shown.                                   *)
LEMMA ShowStamped ==
  ASSUME StampInv, Typed', NEW c \in Calls, ShowUebersicht(c)
  PROVE  StampInv'
<1> USE DEF ShowUebersicht
<1>1. TypeOK /\ IsFiniteSet(rows)
  BY DEF StampInv, Typed
<1>2. \A r \in rows' : r.upd <= clock'
  BY DEF StampInv
<1>3. ASSUME NEW d \in EditCalls, pc'[d] # "idle" PROVE ShownTo(d)'
  <2>1. CASE d = c
    BY <1>1, <2>1 DEF ShownTo, IsNewestStamp, TypeOK, Rows
  <2>2. CASE d # c
    <3>1. UNCHANGED <<view[d], count[d], lastMod[d], pc[d], rows, clock>>
      BY <1>1, <2>2 DEF TypeOK
    <3> QED
      BY <1>3, <3>1 DEF ShownTo, StampInv
  <2> QED
    BY <2>1, <2>2
<1>4. ASSUME NEW d \in EditCalls, pc'[d] \in Checkable
      PROVE  \A r \in existing'[d] : r \in view'[d] \/ r.upd > lastMod'[d]
  BY <1>1, <1>4 DEF StampInv, TypeOK, Checkable
<1>5. ViewStillCurrent'
  BY <1>1 DEF StampInv, TypeOK, ViewStillCurrent, Validated
<1> QED
  BY <1>2, <1>3, <1>4, <1>5 DEF StampInv

(* Cron's selection touches no request of an administrator.                 *)
LEMMA SelectStamped ==
  ASSUME StampInv, Typed', NEW c \in Calls, SelectExpired(c)
  PROVE  StampInv'
<1>1. /\ c \notin EditCalls /\ TypeOK
      /\ \A d \in EditCalls : UNCHANGED <<view[d], count[d], lastMod[d], pc[d], existing[d]>>
      /\ UNCHANGED <<rows, clock>>
  BY DEF SelectExpired, StampInv, Typed, TypeOK
<1> QED
  BY <1>1 DEF StampInv, ShownTo, Checkable, ViewStillCurrent

(* A request arriving: cron's advances the clock, nothing shown changes.    *)
LEMMA SubmitStamped ==
  ASSUME StampInv, Typed', NEW c \in Calls, NEW B \in Bodies, Submit(c, B)
  PROVE  StampInv'
<1>1. TypeOK
  BY DEF StampInv, Typed
<1>2. CASE c \in EditCalls
  <2>1. Quiet
    BY <1>1, <1>2 DEF Submit, Quiet, TypeOK, Checkable, Validated
  <2> QED
    BY <2>1, QuietStep
<1>3. CASE c \in CronCalls
  <2>1. /\ c \notin EditCalls
        /\ \A d \in EditCalls : UNCHANGED <<view[d], count[d], lastMod[d], pc[d], existing[d]>>
        /\ UNCHANGED rows /\ clock' = clock + 1
    BY <1>1, <1>3 DEF Submit, TypeOK
  <2>2. \A r \in rows' : r.upd <= clock'
    BY <1>1, <2>1 DEF StampInv, TypeOK, Rows
  <2>3. ASSUME NEW d \in EditCalls, pc'[d] # "idle" PROVE ShownTo(d)'
    BY <1>1, <2>1, <2>3 DEF StampInv, ShownTo, TypeOK
  <2> QED
    BY <2>1, <2>2, <2>3 DEF StampInv, Checkable, ViewStillCurrent
<1> QED
  BY <1>2, <1>3

(* What is read now was shown, or is newer than lastModified.               *)
LEMMA ReadStamped ==
  ASSUME StampInv, Typed', NEW c \in Calls, ReadExisting(c)
  PROVE  StampInv'
<1> USE DEF ReadExisting
<1>1. TypeOK
  BY DEF StampInv, Typed
<1>2. \A r \in rows' : r.upd <= clock'
  BY DEF StampInv
<1>3. ASSUME NEW d \in EditCalls, pc'[d] # "idle" PROVE ShownTo(d)'
  BY <1>1, <1>3 DEF StampInv, ShownTo, TypeOK
<1>4. ASSUME NEW d \in EditCalls, pc'[d] \in Checkable
      PROVE  \A r \in existing'[d] : r \in view'[d] \/ r.upd > lastMod'[d]
  <2>1. CASE d = c
    BY <1>1, <2>1 DEF StampInv, ShownTo, TypeOK
  <2>2. CASE d # c
    BY <1>1, <1>4, <2>2 DEF StampInv, TypeOK
  <2> QED
    BY <2>1, <2>2
<1>5. ViewStillCurrent'
  BY <1>1 DEF StampInv, TypeOK, ViewStillCurrent, Validated
<1> QED
  BY <1>2, <1>3, <1>4, <1>5 DEF StampInv

(* validate: the rows read pass count and lastModified, so they are the     *)
(* rows shown (CheckedViewIsComplete).                                      *)
LEMMA ValidateStamped ==
  ASSUME StampInv, Typed', NEW c \in Calls, Validate(c)
  PROVE  StampInv'
<1> USE DEF Validate
<1>1. TypeOK
  BY DEF StampInv, Typed
<1>2. \A r \in rows' : r.upd <= clock'
  BY DEF StampInv
<1>3. ASSUME NEW d \in EditCalls, pc'[d] # "idle" PROVE ShownTo(d)'
  BY <1>1, <1>3 DEF StampInv, ShownTo, TypeOK
<1>4. ASSUME NEW d \in EditCalls, pc'[d] \in Checkable
      PROVE  \A r \in existing'[d] : r \in view'[d] \/ r.upd > lastMod'[d]
  BY <1>1, <1>4 DEF StampInv, TypeOK, Checkable
<1>5. ASSUME NEW d \in EditCalls, pc'[d] \in Validated PROVE existing'[d] = view'[d]
  <2>1. CASE pc[d] \in Validated
    BY <2>1 DEF StampInv, ViewStillCurrent
  <2>2. CASE pc[d] \notin Validated
    <3>1. d = c /\ pc[d] = "validate" /\ UpToDate(d)
      BY <1>1, <1>5, <2>2 DEF TypeOK, Validated
    <3>2. ShownTo(d) /\ \A r \in existing[d] : r \in view[d] \/ r.upd > lastMod[d]
      BY <3>1 DEF StampInv, Checkable
    <3> QED
      BY <1>1, <3>1, <3>2, CheckedViewIsComplete
  <2> QED
    BY <2>1, <2>2
<1> QED
  BY <1>2, <1>3, <1>4, <1>5 DEF StampInv, ViewStillCurrent

(* The only step that adds a row stamps it later than any lastModified.     *)
LEMMA AddStamped ==
  ASSUME MinTick = 1, StampInv, Typed', NEW c \in Calls, AddOne(c)
  PROVE  StampInv'
<1>1. TypeOK
  BY DEF StampInv, Typed
<1>2. PICK k \in todo[c] \ old[c], tick \in MinTick .. 1 :
        /\ clock' = clock + tick
        /\ rows' = rows \union
             {[org |-> k.org, rolle |-> k.rolle, bef |-> k.bef, upd |-> clock + tick]}
  BY DEF AddOne
<1>3. tick = 1 /\ clock' = clock + 1 /\ clock \in Nat
  BY <1>1, <1>2 DEF TypeOK
<1>4. UNCHANGED <<view, lastMod, count, existing, pc>>
  BY DEF AddOne
<1>5. \A q \in rows' : q \in rows \/ q.upd = clock + 1
  BY <1>2, <1>3
<1>6. \A q \in rows' : q.upd <= clock'
  <2>1. rows \subseteq Rows
    BY <1>1 DEF TypeOK
  <2>2. \A q \in rows : q.upd \in Nat
    BY <2>1 DEF Rows
  <2>3. \A q \in rows : q.upd <= clock
    BY DEF StampInv
  <2> QED
    BY <2>2, <2>3, <1>3, <1>5
<1>7. ASSUME NEW d \in EditCalls, pc'[d] # "idle" PROVE ShownTo(d)'
  <2>1. ShownTo(d) /\ lastMod[d] \in Nat
    BY <1>1, <1>4, <1>7 DEF StampInv, TypeOK, Calls
  <2> QED
    BY <2>1, <1>3, <1>4, <1>5 DEF ShownTo
<1>8. ASSUME NEW d \in EditCalls, pc'[d] \in Checkable
      PROVE  \A r \in existing'[d] : r \in view'[d] \/ r.upd > lastMod'[d]
  BY <1>4, <1>8 DEF StampInv
<1>9. ViewStillCurrent'
  BY <1>4 DEF StampInv, ViewStillCurrent
<1> QED
  BY <1>6, <1>7, <1>8, <1>9 DEF StampInv

(* However many requests overlap: an administrator's update that passes     *)
(* validate was based on exactly the rows its page showed (clock and        *)
(* database stamps differ from insert to insert).                           *)
THEOREM OptimisticCheckSound ==
  ASSUME MinTick = 1
  PROVE  Spec => []ViewStillCurrent
<1>1. StampInv /\ [Next]_vars => StampInv'
  <2> SUFFICES ASSUME StampInv, [Next]_vars PROVE StampInv'
    OBVIOUS
  <2>1. Typed' /\ TypeOK
    BY NextTyped DEF StampInv, Typed
  <2>2. ASSUME NEW c \in Calls, Process(c) PROVE StampInv'
    BY <2>1, <2>2, QuietActions, QuietStep, ReadStamped, ValidateStamped, AddStamped
       DEF Process
  <2>3. ASSUME NEW c \in Calls, Crash(c) PROVE StampInv'
    BY <2>1, <2>3, QuietActions, QuietStep
  <2>4. CASE DeletePersonRow \/ UNCHANGED vars
    <3>1. Quiet
      BY <2>4 DEF DeletePersonRow, Quiet
    <3> QED
      BY <2>1, <3>1, QuietStep
  <2> QED
    BY <2>1, <2>2, <2>3, <2>4, ShowStamped, SelectStamped, SubmitStamped DEF Next
<1>2. StampInv => ViewStillCurrent
  BY DEF StampInv
<1> QED
  BY <1>1, <1>2, InitStamped, PTL DEF Spec

-----------------------------------------------------------------------------
(* What has been done so far, and what becomes of it: a request remembers   *)
(* every Kontext that it brings and every row that it takes, and whoever    *)
(* has found a Kontext can say who took it.                                 *)

Early == {"idle", "read", "find", "rollenart", "validate", "permissions", "rejected"}
Late == {"delete", "add", "after", "unassign", "publish"}

(* A request before its first delete has changed nothing; adding is for     *)
(* what was not there, deleting for what shall not be.                      *)
Records(c) ==
  /\ pc[c] \in {"idle", "read"} => old[c] = {}
  /\ pc[c] \in Early => removed[c] = {} /\ created[c] = {} /\ ~errors[c]
  /\ pc[c] = "find" => todo[c] \subseteq body[c]
  /\ pc[c] = "delete" => created[c] = {} /\ todo[c] \subseteq KontexteOf(existing[c]) \ body[c]
  /\ pc[c] = "add" => todo[c] \subseteq body[c] \ KontexteOf(existing[c])
RecordInv == DistinctKeys(rows) /\ \A c \in Calls : Records(c)

TakenAway(k) == \E d \in Calls : \E r \in removed[d] : SameKey(r, k)

(* As long as the person is there.                                          *)
KnownInv ==
  person.exists =>
    /\ \A r \in rows : r.upd > 1 => \E c \in Calls : KontextOf(r) \in created[c]
    /\ \A c \in Calls : \A k \in old[c] \union created[c] : k \in KontexteOf(rows) \/ TakenAway(k)

(* What was published is what the requests did that were answered.          *)
BusInv ==
  /\ \A i \in 1 .. Len(bus) : \A k \in bus[i].created : \E c \in Calls : k \in created[c]
  /\ person.exists =>
       \A c \in Calls : pc[c] = "done" =>
         /\ \A k \in created[c] : \E i \in 1 .. Len(bus) : k \in bus[i].created
         /\ \A r \in removed[c] : \E i \in 1 .. Len(bus) : r \in bus[i].removed

RecordsInv == Typed /\ RecordInv /\ KnownInv /\ BusInv

(* What a step of one request leaves of the others.                         *)
Same(d) ==
  /\ pc'[d] = pc[d] /\ body'[d] = body[d] /\ todo'[d] = todo[d] /\ old'[d] = old[d]
  /\ existing'[d] = existing[d] /\ removed'[d] = removed[d] /\ created'[d] = created[d]
  /\ after'[d] = after[d] /\ errors'[d] = errors[d] /\ view'[d] = view[d]
OthersSame(c) == \A d \in Calls \ {c} : Same(d)

(* A step of one request leaves the records of the others alone. *)
LEMMA OthersStay ==
  ASSUME TypeOK, NEW c \in Calls,
         \/ ShowUebersicht(c) \/ SelectExpired(c) \/ (\E B \in Bodies : Submit(c, B))
         \/ Process(c) \/ Crash(c)
  PROVE  OthersSame(c)
<1> USE DEF OthersSame, Same
<1>1. /\ DOMAIN pc = Calls /\ DOMAIN body = Calls /\ DOMAIN todo = Calls /\ DOMAIN old = Calls
      /\ DOMAIN existing = Calls /\ DOMAIN removed = Calls /\ DOMAIN created = Calls
      /\ DOMAIN after = Calls /\ DOMAIN errors = Calls /\ DOMAIN view = Calls
  BY DEF TypeOK
<1>2. CASE ShowUebersicht(c) \/ SelectExpired(c)
  BY <1>1, <1>2 DEF ShowUebersicht, SelectExpired
<1>3. CASE \E B \in Bodies : Submit(c, B)
  BY <1>1, <1>3 DEF Submit
<1>4. CASE FindSent(c) \/ ReadExisting(c) \/ CheckSpecifications(c)
  BY <1>1, <1>4 DEF FindSent, ReadExisting, CheckSpecifications
<1>5. CASE Validate(c) \/ CheckPermissions(c)
  BY <1>1, <1>5 DEF Validate, CheckPermissions
<1>6. CASE DeleteOne(c) \/ DeleteOneFails(c) \/ DeletesDone(c)
  BY <1>1, <1>6 DEF DeleteOne, DeleteOneFails, DeletesDone
<1>7. CASE AddOne(c) \/ AddFoundEarlier(c) \/ AddOneFails(c) \/ AddsDone(c)
  BY <1>1, <1>7 DEF AddOne, AddFoundEarlier, AddOneFails, AddsDone
<1>8. CASE ReadAfterUpdate(c) \/ NoteUnassignment(c) \/ PublishEvent(c) \/ Crash(c)
  BY <1>1, <1>8 DEF ReadAfterUpdate, NoteUnassignment, PublishEvent, Crash
<1> QED
  BY <1>2, <1>3, <1>4, <1>5, <1>6, <1>7, <1>8 DEF Process

(* A request keeps its record while it is only told what it did.            *)
LEMMA RecordsSame ==
  ASSUME NEW d \in Calls, Same(d), Records(d)
  PROVE  Records(d)'
  BY DEF Same, Records

(* What a request has recorded so far agrees after each of its steps. *)
LEMMA RecordsOfStep ==
  ASSUME Typed, NEW c \in Calls, Records(c),
         \/ ShowUebersicht(c) \/ SelectExpired(c) \/ (\E B \in Bodies : Submit(c, B))
         \/ Process(c) \/ Crash(c)
  PROVE  Records(c)'
<1> USE DEF Records, Early
<1>1. TypeOK /\ DeletesExisting
  BY DEF Typed
<1>2. CASE ShowUebersicht(c) \/ SelectExpired(c)
  BY <1>1, <1>2 DEF ShowUebersicht, SelectExpired, TypeOK
<1>3. CASE \E B \in Bodies : Submit(c, B)
  BY <1>1, <1>3 DEF Submit, TypeOK
<1>4. CASE FindSent(c)
  BY <1>1, <1>4 DEF FindSent, TypeOK
<1>5. CASE ReadExisting(c) \/ CheckSpecifications(c) \/ Validate(c)
  BY <1>1, <1>5 DEF ReadExisting, CheckSpecifications, Validate, TypeOK
<1>6. CASE CheckPermissions(c)
  BY <1>1, <1>6 DEF CheckPermissions, TypeOK
<1>7. CASE DeleteOne(c) \/ DeleteOneFails(c)
  BY <1>1, <1>7 DEF DeleteOne, DeleteOneFails, TypeOK
<1>8. CASE DeletesDone(c)
  BY <1>1, <1>8 DEF DeletesDone, TypeOK
<1>9. CASE AddOne(c) \/ AddFoundEarlier(c) \/ AddOneFails(c)
  BY <1>1, <1>9 DEF AddOne, AddFoundEarlier, AddOneFails, TypeOK
<1>10. CASE AddsDone(c) \/ ReadAfterUpdate(c) \/ NoteUnassignment(c) \/ PublishEvent(c)
  BY <1>1, <1>10 DEF AddsDone, ReadAfterUpdate, NoteUnassignment, PublishEvent, TypeOK
<1>11. CASE Crash(c)
  BY <1>1, <1>11 DEF Crash, TypeOK
<1> QED
  BY <1>2, <1>3, <1>4, <1>5, <1>6, <1>7, <1>8, <1>9, <1>10, <1>11 DEF Process

(* The unique constraint holds.                                             *)
LEMMA KeysStayDistinct == DistinctKeys(rows) /\ [Next]_vars => DistinctKeys(rows)'
<1> SUFFICES ASSUME DistinctKeys(rows), [Next]_vars PROVE DistinctKeys(rows)'
  OBVIOUS
<1>1. ASSUME NEW c \in Calls, AddOne(c) PROVE DistinctKeys(rows)'
  <2>1. PICK k, r : /\ CanInsert(k) /\ rows' = rows \union {r} /\ r.org = k.org /\ r.rolle = k.rolle
    <3>1. PICK k \in todo[c] \ old[c], tick \in MinTick .. 1 :
            /\ CanInsert(k)
            /\ rows' = rows \union
                 {[org |-> k.org, rolle |-> k.rolle, bef |-> k.bef, upd |-> clock + tick]}
      BY <1>1 DEF AddOne
    <3> DEFINE new == [org |-> k.org, rolle |-> k.rolle, bef |-> k.bef, upd |-> clock + tick]
    <3>2. new.org = k.org /\ new.rolle = k.rolle
      OBVIOUS
    <3> HIDE DEF new
    <3> QED
      BY <3>1, <3>2 DEF new
  <2>2. \A s \in rows : ~(s.org = r.org /\ s.rolle = r.rolle)
    BY <2>1 DEF CanInsert, SameKey
  <2> QED
    BY <2>1, <2>2 DEF DistinctKeys, SameKey
<1>2. ASSUME rows' \subseteq rows PROVE DistinctKeys(rows)'
  BY <1>2 DEF DistinctKeys
<1> QED
  BY <1>1, <1>2 DEF Next, Process, ShowUebersicht, SelectExpired, Submit,
    FindSent, ReadExisting, CheckSpecifications, Validate, CheckPermissions, DeleteOne,
    DeleteOneFails, DeletesDone, AddFoundEarlier, AddOneFails, AddsDone,
    ReadAfterUpdate, NoteUnassignment, PublishEvent, Crash, DeletePersonRow

(* So it agrees for every request, after every step. *)
LEMMA NextRecord == Typed /\ RecordInv /\ [Next]_vars => RecordInv'
<1> SUFFICES ASSUME Typed, RecordInv, [Next]_vars PROVE RecordInv'
  OBVIOUS
<1>1. DistinctKeys(rows)'
  BY KeysStayDistinct DEF RecordInv
<1>2. ASSUME NEW c \in Calls,
             \/ ShowUebersicht(c) \/ SelectExpired(c) \/ (\E B \in Bodies : Submit(c, B))
             \/ Process(c) \/ Crash(c)
      PROVE  \A d \in Calls : Records(d)'
  <2>1. OthersSame(c)
    BY <1>2, OthersStay DEF Typed
  <2>2. \A d \in Calls \ {c} : Records(d)'
    BY <2>1, RecordsSame DEF OthersSame, RecordInv
  <2>3. Records(c)'
    BY <1>2, RecordsOfStep DEF RecordInv
  <2> QED
    BY <2>2, <2>3
<1>3. CASE DeletePersonRow \/ UNCHANGED vars
  <2>1. UNCHANGED <<pc, body, todo, old, existing, removed, created, errors>>
    BY <1>3 DEF DeletePersonRow
  <2> QED
    BY <1>1, <2>1 DEF RecordInv, Records
<1> QED
  BY <1>1, <1>2, <1>3 DEF RecordInv, Next

(* What is known stays known, as long as rows that go are recorded as       *)
(* taken and rows and finds that come are recorded or there.                *)
LEMMA KnownStays ==
  ASSUME KnownInv, person'.exists => person.exists,
         \A d \in Calls : removed[d] \subseteq removed'[d] /\ created[d] \subseteq created'[d],
         \A r \in rows' : r \in rows \/ (\E d \in Calls : KontextOf(r) \in created'[d]),
         \A r \in rows : r \in rows' \/ TakenAway(KontextOf(r))',
         \A d \in Calls : \A k \in old'[d] \union created'[d] :
           k \in old[d] \union created[d] \/ k \in KontexteOf(rows')
  PROVE  KnownInv'
<1> SUFFICES ASSUME person'.exists PROVE KnownInv'
  BY DEF KnownInv
<1>1. ASSUME NEW r \in rows', r.upd > 1 PROVE \E d \in Calls : KontextOf(r) \in created'[d]
  BY <1>1 DEF KnownInv
<1>2. \A k : TakenAway(k) => TakenAway(k)'
  BY DEF TakenAway
<1>3. ASSUME NEW d \in Calls, NEW k \in old'[d] \union created'[d]
      PROVE  k \in KontexteOf(rows') \/ TakenAway(k)'
  <2>1. CASE k \in KontexteOf(rows')
    BY <2>1
  <2>2. CASE k \in old[d] \union created[d]
    <3>1. k \in KontexteOf(rows) \/ TakenAway(k)
      BY <2>2 DEF KnownInv
    <3>2. CASE k \in KontexteOf(rows)
      BY <3>2 DEF KontexteOf
    <3>3. CASE TakenAway(k)
      BY <1>2, <3>3
    <3> QED
      BY <3>1, <3>2, <3>3
  <2> QED
    BY <1>3, <2>1, <2>2
<1> QED
  BY <1>1, <1>3 DEF KnownInv

(* delete(): the row that it takes stands for every row under its key.      *)
LEMMA DeleteOneKnown ==
  ASSUME Typed, KnownInv, NEW c \in Calls, DeleteOne(c)
  PROVE  KnownInv'
<1>1. TypeOK /\ pc[c] = "delete" /\ UNCHANGED <<person, old, created>>
  BY DEF DeleteOne, Typed
<1>2. PICK k \in todo[c] :
        /\ rows' = {r \in rows : ~SameKey(r, k)}
        /\ removed' = [removed EXCEPT ![c] = @ \union {ExistingRow(c, k)}]
  BY DEF DeleteOne
<1>3. k \in KontexteOf(existing[c])
  BY <1>1, <1>2 DEF Typed, DeletesExisting
<1>4. KontextOf(ExistingRow(c, k)) = k
  BY <1>3 DEF ExistingRow, KontexteOf
<1>5. ExistingRow(c, k) \in removed'[c] /\ \A d \in Calls : removed[d] \subseteq removed'[d]
  BY <1>1, <1>2 DEF TypeOK
<1>6. ASSUME NEW r \in rows, r \notin rows' PROVE TakenAway(KontextOf(r))'
  <2>1. r.org = k.org /\ r.rolle = k.rolle
    BY <1>2, <1>6 DEF SameKey
  <2>2. ExistingRow(c, k).org = k.org /\ ExistingRow(c, k).rolle = k.rolle
    BY <1>4 DEF KontextOf
  <2>3. KontextOf(r).org = r.org /\ KontextOf(r).rolle = r.rolle
    BY DEF KontextOf
  <2>4. SameKey(ExistingRow(c, k), KontextOf(r))
    BY <2>1, <2>2, <2>3 DEF SameKey
  <2> QED
    BY <1>5, <2>4 DEF TakenAway
<1> QED
  BY <1>1, <1>2, <1>5, <1>6, KnownStays

(* add(): the new row is recorded as created.                               *)
LEMMA AddOneKnown ==
  ASSUME Typed, KnownInv, NEW c \in Calls, AddOne(c)
  PROVE  KnownInv'
<1>1. TypeOK /\ UNCHANGED <<person, old, removed>>
  BY DEF AddOne, Typed
<1>2. PICK l \in todo[c] \ old[c], t \in MinTick .. 1 :
        /\ rows' = rows \union
             {[org |-> l.org, rolle |-> l.rolle, bef |-> l.bef, upd |-> clock + t]}
        /\ created' = [created EXCEPT ![c] = @ \union {l}]
  BY DEF AddOne
<1> DEFINE row == [org |-> l.org, rolle |-> l.rolle, bef |-> l.bef, upd |-> clock + t]
<1>3. l \in Kontexte
  BY <1>1 DEF TypeOK
<1>4. KontextOf(row) = l
  BY <1>3 DEF KontextOf, Kontexte
<1>5. rows' = rows \union {row}
  BY <1>2
<1> HIDE DEF row
<1>6. l \in created'[c] /\ \A d \in Calls : created[d] \subseteq created'[d]
  BY <1>1, <1>2 DEF TypeOK
<1>7. l \in KontexteOf(rows')
  BY <1>4, <1>5 DEF KontexteOf
<1>8. \A d \in Calls : \A j \in created'[d] : j \in created[d] \/ j = l
  BY <1>1, <1>2 DEF TypeOK
<1> QED
  BY <1>1, <1>4, <1>5, <1>6, <1>7, <1>8, KnownStays

(* Rows newer than the first ones were made by a request, and a Kontext some request
   read or made is there unless it was taken away, step by step. *)
LEMMA NextKnown == Typed /\ KnownInv /\ [Next]_vars => KnownInv'
<1> SUFFICES ASSUME Typed, KnownInv, [Next]_vars PROVE KnownInv'
  OBVIOUS
<1>1. TypeOK
  BY DEF Typed
<1>2. ASSUME NEW c \in Calls, FindSent(c) PROVE KnownInv'
  <2>1. UNCHANGED <<rows, person, removed, created>>
    BY <1>2 DEF FindSent
  <2>2. \A d \in Calls : \A k \in old'[d] : k \in old[d] \/ k \in KontexteOf(rows)
    BY <1>1, <1>2 DEF FindSent, TypeOK
  <2> QED
    BY <2>1, <2>2, KnownStays
<1>3. ASSUME NEW c \in Calls, AddFoundEarlier(c) PROVE KnownInv'
  <2>1. UNCHANGED <<rows, person, removed, old>>
    BY <1>3 DEF AddFoundEarlier
  <2>2. \A d \in Calls : /\ created[d] \subseteq created'[d]
                         /\ \A k \in created'[d] : k \in old[d] \union created[d]
    BY <1>1, <1>3 DEF AddFoundEarlier, TypeOK
  <2> QED
    BY <2>1, <2>2, KnownStays
<1>4. CASE UNCHANGED <<rows, removed, created, old>> /\ (person'.exists => person.exists)
  BY <1>4, KnownStays
<1>5. CASE DeletePersonRow
  <2>1. ~person'.exists
    BY <1>1, <1>5 DEF DeletePersonRow, TypeOK
  <2> QED
    BY <2>1 DEF KnownInv
<1>6. ASSUME NEW c \in Calls, NoteUnassignment(c)
      PROVE  UNCHANGED <<rows, removed, created, old>> /\ (person'.exists => person.exists)
  BY <1>1, <1>6 DEF NoteUnassignment, TypeOK
<1>7. ASSUME NEW c \in Calls,
             \/ ShowUebersicht(c) \/ SelectExpired(c) \/ (\E B \in Bodies : Submit(c, B))
             \/ ReadExisting(c) \/ CheckSpecifications(c) \/ Validate(c) \/ CheckPermissions(c)
             \/ DeleteOneFails(c) \/ DeletesDone(c) \/ AddOneFails(c) \/ AddsDone(c)
             \/ ReadAfterUpdate(c) \/ PublishEvent(c) \/ Crash(c)
      PROVE  UNCHANGED <<rows, removed, created, old>> /\ (person'.exists => person.exists)
  BY <1>7 DEF ShowUebersicht, SelectExpired, Submit, ReadExisting, CheckSpecifications, Validate,
    CheckPermissions, DeleteOneFails, DeletesDone, AddOneFails, AddsDone, ReadAfterUpdate,
    PublishEvent, Crash
<1>8. CASE UNCHANGED vars
  BY <1>4, <1>8
<1> QED
  BY <1>2, <1>3, <1>4, <1>5, <1>6, <1>7, <1>8, DeleteOneKnown, AddOneKnown DEF Next, Process

(* What an answered request did is what its event says.                     *)
LEMMA NextBus == Typed /\ BusInv /\ [Next]_vars => BusInv'
<1> SUFFICES ASSUME Typed, BusInv, [Next]_vars PROVE BusInv'
  OBVIOUS
<1>1. TypeOK
  BY DEF Typed
(* Until the answer: records grow, and those of answered requests stay. *)
<1>2. ASSUME UNCHANGED bus, person'.exists => person.exists,
             \A d \in Calls : created[d] \subseteq created'[d],
             \A d \in Calls : pc'[d] = "done" =>
               pc[d] = "done" /\ created'[d] = created[d] /\ removed'[d] = removed[d]
      PROVE  BusInv'
  BY <1>2 DEF BusInv
<1>3. ASSUME NEW c \in Calls,
             \/ ShowUebersicht(c) \/ SelectExpired(c) \/ (\E B \in Bodies : Submit(c, B))
             \/ (Process(c) /\ ~PublishEvent(c)) \/ Crash(c)
      PROVE  BusInv'
  <2>1. OthersSame(c)
    BY <1>1, <1>3, OthersStay
  <2>2. UNCHANGED bus /\ (person'.exists => person.exists) /\ created[c] \subseteq created'[c] /\ pc'[c] # "done"
    <3>1. CASE ShowUebersicht(c) \/ SelectExpired(c) \/ \E B \in Bodies : Submit(c, B)
      BY <1>1, <3>1 DEF ShowUebersicht, SelectExpired, Submit, TypeOK
    <3>2. CASE FindSent(c) \/ ReadExisting(c) \/ CheckSpecifications(c) \/ Validate(c) \/ CheckPermissions(c)
      BY <1>1, <3>2 DEF FindSent, ReadExisting, CheckSpecifications, Validate, CheckPermissions, TypeOK
    <3>3. CASE DeleteOne(c) \/ DeleteOneFails(c) \/ DeletesDone(c)
      BY <1>1, <3>3 DEF DeleteOne, DeleteOneFails, DeletesDone, TypeOK
    <3>4. CASE AddOne(c) \/ AddFoundEarlier(c) \/ AddOneFails(c) \/ AddsDone(c)
      BY <1>1, <3>4 DEF AddOne, AddFoundEarlier, AddOneFails, AddsDone, TypeOK
    <3>5. CASE ReadAfterUpdate(c) \/ NoteUnassignment(c) \/ Crash(c)
      BY <1>1, <3>5 DEF ReadAfterUpdate, NoteUnassignment, Crash, TypeOK
    <3> QED
      BY <1>3, <3>1, <3>2, <3>3, <3>4, <3>5 DEF Process
  <2> QED
    BY <1>2, <2>1, <2>2 DEF OthersSame, Same
<1>4. ASSUME NEW c \in Calls, PublishEvent(c) PROVE BusInv'
  <2>1. OthersSame(c) /\ UNCHANGED <<person, created, removed>>
    BY <1>1, <1>4, OthersStay DEF Process, PublishEvent
  <2> DEFINE e == [created |-> created[c], removed |-> removed[c], current |-> after[c]]
  <2>2. CASE ~person.exists /\ bus' = bus
    BY <2>1, <2>2 DEF BusInv
  <2>3. CASE person.exists /\ bus' = Append(bus, e)
    <3>1. /\ Len(bus') = Len(bus) + 1 /\ Len(bus) \in Nat
          /\ \A i \in 1 .. Len(bus) : bus'[i] = bus[i]
          /\ bus'[Len(bus) + 1] = e
      BY <1>1, <2>3 DEF TypeOK
    <3>2. e.created = created[c] /\ e.removed = removed[c]
      OBVIOUS
    <3> HIDE DEF e
    <3>3. \A i \in 1 .. Len(bus') : i \in 1 .. Len(bus) \/ i = Len(bus) + 1
      BY <3>1
    <3>4. \A i \in 1 .. Len(bus') : \A k \in bus'[i].created : \E d \in Calls : k \in created'[d]
      BY <2>1, <3>1, <3>2, <3>3 DEF BusInv
    <3>5. 1 .. Len(bus) \subseteq 1 .. Len(bus') /\ Len(bus) + 1 \in 1 .. Len(bus')
      BY <3>1
    <3>6. ASSUME NEW d \in Calls, pc'[d] = "done"
          PROVE  /\ \A k \in created[d] : \E i \in 1 .. Len(bus') : k \in bus'[i].created
                 /\ \A r \in removed[d] : \E i \in 1 .. Len(bus') : r \in bus'[i].removed
      <4>1. CASE d = c
        BY <3>1, <3>2, <3>5, <4>1
      <4>2. CASE d # c
        <5>1. pc[d] = "done"
          BY <2>1, <3>6, <4>2 DEF OthersSame, Same
        <5>2. /\ \A k \in created[d] : \E i \in 1 .. Len(bus) : k \in bus[i].created
              /\ \A r \in removed[d] : \E i \in 1 .. Len(bus) : r \in bus[i].removed
          BY <2>3, <5>1 DEF BusInv
        <5> QED
          BY <3>1, <3>5, <5>2
      <4> QED
        BY <4>1, <4>2
    <3> QED
      BY <2>1, <3>4, <3>6 DEF BusInv
  <2> QED
    BY <1>4, <2>2, <2>3 DEF PublishEvent
<1>5. CASE DeletePersonRow
  <2>1. ~person'.exists /\ UNCHANGED <<bus, created>>
    BY <1>1, <1>5 DEF DeletePersonRow, TypeOK
  <2> QED
    BY <2>1 DEF BusInv
<1>6. CASE UNCHANGED vars
  BY <1>2, <1>6
<1> QED
  BY <1>3, <1>4, <1>5, <1>6 DEF Next

(* Before the first request there is nothing recorded. *)
LEMMA InitRecords == Init => RecordInv /\ KnownInv /\ BusInv
<1> SUFFICES ASSUME Init PROVE RecordInv /\ KnownInv /\ BusInv
  OBVIOUS
<1>1. RecordInv
  BY DEF Init, RecordInv, Records
<1>2. KnownInv
  <2>1. \A r \in rows : r.upd = 1
    BY DEF Init, InitialRows
  <2>2. \A c \in Calls : old[c] \union created[c] = {}
    BY DEF Init
  <2> QED
    BY <2>1, <2>2 DEF KnownInv
<1>3. BusInv
  <2>1. Len(bus) = 0 /\ \A c \in Calls : pc[c] # "done"
    BY DEF Init
  <2> QED
    BY <2>1 DEF BusInv
<1> QED
  BY <1>1, <1>2, <1>3

(* The records agree in every reachable state. *)
LEMMA RecordsKept == Spec => []RecordsInv
<1>1. Init => RecordsInv
  BY InitTyped, InitRecords DEF RecordsInv
<1>2. RecordsInv /\ [Next]_vars => RecordsInv'
  BY NextTyped, NextRecord, NextKnown, NextBus DEF RecordsInv
<1> QED
  BY <1>1, <1>2, PTL DEF Spec

(* However many requests overlap: once all are answered, every Kontext that *)
(* came into being was announced as new, and every one announced as new     *)
(* that is gone was announced as removed.                                   *)
THEOREM NothingUnannounced == Spec => []ChangesAnnounced
<1>1. RecordsInv => ChangesAnnounced
  <2> SUFFICES ASSUME RecordsInv, person.exists, InFlight = {}, NoCrash
               PROVE  /\ \A r \in rows : r.upd > 1 => \E i \in 1 .. Len(bus) : KontextOf(r) \in bus[i].created
                      /\ \A i \in 1 .. Len(bus) : \A k \in bus[i].created \ KontexteOf(rows) :
                           \E j \in 1 .. Len(bus) : \E r \in bus[j].removed : SameKey(r, k)
    BY DEF ChangesAnnounced
  <2>1. \A c \in Calls : pc[c] = "done" \/ (created[c] = {} /\ removed[c] = {})
    BY DEF RecordsInv, RecordInv, Records, Early, InFlight, NoCrash
  <2>2. ASSUME NEW r \in rows, r.upd > 1 PROVE \E i \in 1 .. Len(bus) : KontextOf(r) \in bus[i].created
    <3>1. PICK c \in Calls : KontextOf(r) \in created[c]
      BY <2>2 DEF RecordsInv, KnownInv
    <3> QED
      BY <2>1, <3>1 DEF RecordsInv, BusInv
  <2>3. ASSUME NEW i \in 1 .. Len(bus), NEW k \in bus[i].created, k \notin KontexteOf(rows)
        PROVE  \E j \in 1 .. Len(bus) : \E r \in bus[j].removed : SameKey(r, k)
    <3>1. \E c \in Calls : k \in created[c]
      BY <2>3 DEF RecordsInv, BusInv
    <3>2. TakenAway(k)
      BY <2>3, <3>1 DEF RecordsInv, KnownInv
    <3>3. PICK d \in Calls : \E r \in removed[d] : SameKey(r, k)
      BY <3>2 DEF TakenAway
    <3> QED
      BY <2>1, <3>3 DEF RecordsInv, BusInv
  <2> QED
    BY <2>2, <2>3
<1> QED
  BY <1>1, RecordsKept, PTL

-----------------------------------------------------------------------------
(* Requests that run one at a time: what each has reached of what it was    *)
(* asked.                                                                   *)

Compatible(B, R) ==
  /\ SameRollenartIn(B)
  /\ \A k \in B, r \in R : RollenartOf[k.rolle] = RollenartOf[r.rolle]

(* The rows, to a request that is the only one in progress.                 *)
Reached(c) ==
  /\ pc[c] = "find" => old[c] \subseteq KontexteOf(rows)
  /\ pc[c] \in {"rollenart", "validate", "permissions"} =>
       existing[c] = rows /\ old[c] \subseteq KontexteOf(existing[c])
  /\ pc[c] = "delete" =>
       /\ rows \subseteq existing[c] /\ DistinctKeys(existing[c]) /\ old[c] \subseteq KontexteOf(existing[c])
       /\ ~errors[c] => KontexteOf(rows) = (KontexteOf(existing[c]) \intersect body[c]) \union todo[c]
  /\ pc[c] = "add" =>
       /\ old[c] \subseteq KontexteOf(existing[c])
       /\ ~errors[c] => KontexteOf(rows) = body[c] \ todo[c]
  /\ pc[c] = "after" => (~errors[c] => KontexteOf(rows) = body[c])
  /\ pc[c] \in {"unassign", "publish"} => after[c] = rows
  /\ pc[c] \in {"unassign", "publish", "done"} => (~errors[c] => KontexteOf(after[c]) = body[c])
  /\ pc[c] = "publish" => (person.unassigned <=> rows = {})

Lone(c) ==
  /\ pc[c] \in {"validate", "permissions", "delete", "add"} => Compatible(body[c], rows)
  /\ person.exists => Reached(c)

AloneInv ==
  Alone =>
    /\ \A c, d \in InFlight : c = d
    /\ SameRollenartIn(rows)
    /\ \A c \in Calls : Lone(c)

(* org_unassignment_date, between the writes of one request and the next.   *)
DateInv ==
  (Alone /\ NoCrash /\ person.exists
     /\ (\E c \in Calls : pc[c] = "done")
     /\ \A c \in InFlight : pc[c] \in Early \union {"publish"})
  => (person.unassigned <=> rows = {})

(* The latest event tells the rows, but for what the request in progress    *)
(* has done since.                                                          *)
Latest == KontexteOf(bus[Len(bus)].current)
Chain ==
  \A i \in 1 .. Len(bus) - 1 :
    KontexteOf(bus[i + 1].current) =
      (KontexteOf(bus[i].current) \ KontexteOf(bus[i + 1].removed)) \union bus[i + 1].created
Since(c) == KontexteOf(rows) = (Latest \ KontexteOf(removed[c])) \union created[c]
ChainInv ==
  (Alone /\ NoCrash) =>
    /\ Chain
    /\ (person.exists /\ bus # <<>>) =>
         /\ (\A c \in InFlight : pc[c] \in Early) => KontexteOf(rows) = Latest
         /\ \A c \in Calls : pc[c] \in Late => Since(c)

(* The Kontexte of a row more, and of those whose key is not that of an     *)
(* existing Kontext.                                                        *)
LEMMA KontexteOfMore ==
  ASSUME NEW R, NEW r
  PROVE  KontexteOf(R \union {r}) = KontexteOf(R) \union {KontextOf(r)}
  BY DEF KontexteOf

(* Deleting the rows with one key removes that Kontext and no other one. *)
LEMMA KontexteOfFewer ==
  ASSUME NEW E \in SUBSET Rows, NEW R \in SUBSET E, DistinctKeys(E), NEW k \in KontexteOf(E),
         NEW S, S = {r \in R : ~SameKey(r, k)}
  PROVE  KontexteOf(S) = KontexteOf(R) \ {k}
<1>1. PICK e \in E : KontextOf(e) = k
  BY DEF KontexteOf
<1>2. e.org = k.org /\ e.rolle = k.rolle
  BY <1>1 DEF KontextOf
<1>3. \A r \in R : SameKey(r, k) <=> r = e
  BY <1>2 DEF SameKey, DistinctKeys
<1>4. \A r \in R : KontextOf(r) = k => r = e
  <2> SUFFICES ASSUME NEW r \in R, KontextOf(r) = k PROVE r = e
    OBVIOUS
  <2>1. r.org = k.org /\ r.rolle = k.rolle
    BY DEF KontextOf
  <2> QED
    BY <1>3, <2>1 DEF SameKey
<1>5. S = {r \in R : r # e}
  BY <1>3
<1> QED
  BY <1>1, <1>4, <1>5 DEF KontexteOf

(* A request that is not in progress has nothing to say of the rows.        *)
LEMMA LoneOther ==
  ASSUME NEW d \in Calls, Same(d), Lone(d), d \notin InFlight, person'.exists => person.exists
  PROVE  Lone(d)'
<1>1. pc'[d] = pc[d] /\ pc[d] \in {"idle", "read", "done", "rejected", "crashed"}
  BY DEF InFlight, Same
<1>2. person'.exists => Reached(d)'
  BY <1>1 DEF Lone, Reached, Same
<1> QED
  BY <1>1, <1>2 DEF Lone

(* A step of the request in progress.                                       *)
LEMMA LoneStep ==
  ASSUME Typed, AloneInv, Alone, NEW c \in InFlight, OthersSame(c), person'.exists => person.exists,
         SameRollenartIn(rows)', Lone(c)'
  PROVE  AloneInv'
<1>1. \A d \in Calls \ {c} : d \notin InFlight
  BY DEF AloneInv
<1>2. \A d \in Calls \ {c} : Lone(d)'
  BY <1>1, LoneOther DEF AloneInv, OthersSame
<1>3. \A d \in InFlight' : d = c
  BY <1>1 DEF InFlight, OthersSame, Same
<1> QED
  BY <1>2, <1>3 DEF AloneInv

(* Overlaps are never taken back.                                           *)
LEMMA AloneBefore == TypeOK /\ [Next]_vars /\ Alone' => Alone
<1> SUFFICES ASSUME TypeOK, [Next]_vars, Alone' PROVE Alone
  OBVIOUS
<1>1. ASSUME NEW c \in Calls, NEW B \in Bodies, Submit(c, B) PROVE Alone
  BY <1>1 DEF Submit, Arrives, Alone, TypeOK
<1> QED
  BY <1>1 DEF Alone, Next, Process, ShowUebersicht, SelectExpired,
    FindSent, ReadExisting, CheckSpecifications, Validate, CheckPermissions, DeleteOne,
    DeleteOneFails, DeletesDone, AddOne, AddFoundEarlier, AddOneFails, AddsDone,
    ReadAfterUpdate, NoteUnassignment, PublishEvent, Crash, DeletePersonRow

(* What the steps reach, each from what the one before it has reached.      *)
LEMMA FindReaches ==
  ASSUME Typed, AloneInv, Alone, NEW c \in Calls, FindSent(c)
  PROVE  Lone(c)' /\ SameRollenartIn(rows)'
<1>1. TypeOK /\ Lone(c) /\ SameRollenartIn(rows)
  BY DEF Typed, AloneInv
<1>2. /\ pc[c] = "find" /\ pc'[c] = "find" /\ UNCHANGED <<rows, person>>
      /\ old'[c] \subseteq old[c] \union KontexteOf(rows)
  BY <1>1 DEF FindSent, TypeOK
<1> QED
  BY <1>1, <1>2 DEF Lone, Reached

(* The request that runs alone reads what is there. *)
LEMMA ReadReaches ==
  ASSUME Typed, AloneInv, Alone, NEW c \in Calls, ReadExisting(c)
  PROVE  Lone(c)' /\ SameRollenartIn(rows)'
<1>1. TypeOK /\ Lone(c) /\ SameRollenartIn(rows)
  BY DEF Typed, AloneInv
<1>2. /\ pc[c] = "find" /\ pc'[c] = "rollenart" /\ UNCHANGED <<rows, person, old>>
      /\ existing'[c] = rows
  BY <1>1 DEF ReadExisting, TypeOK
<1> QED
  BY <1>1, <1>2 DEF Lone, Reached

(* The optimistic check changes nothing of that. *)
LEMMA CheckReaches ==
  ASSUME Typed, AloneInv, Alone, NEW c \in Calls, CheckSpecifications(c)
  PROVE  Lone(c)' /\ SameRollenartIn(rows)'
<1>1. TypeOK /\ Lone(c) /\ SameRollenartIn(rows)
  BY DEF Typed, AloneInv
<1>2. UNCHANGED <<rows, person, old, existing, body>>
  BY DEF CheckSpecifications
<1>3. CASE RollenartAccepted(body[c], rows) /\ Go(c, "rollenart", "validate")
  <2>1. Compatible(body[c], rows)
    <3>1. CASE rows = {} \/ body[c] = {}
      BY <1>3, <3>1 DEF RollenartAccepted, Compatible, SameRollenartIn
    <3>2. CASE ~(rows = {} \/ body[c] = {})
      <4>1. PICK r \in rows : \A k \in body[c] : RollenartOf[k.rolle] = RollenartOf[r.rolle]
        BY <1>3, <3>2 DEF RollenartAccepted
      <4> QED
        BY <1>1, <4>1 DEF Compatible, SameRollenartIn
    <3> QED
      BY <3>1, <3>2
  <2>2. pc[c] = "rollenart" /\ pc'[c] = "validate"
    BY <1>1, <1>3 DEF TypeOK
  <2>3. Compatible(body[c], rows)'
    BY <1>2, <2>1 DEF Compatible, SameRollenartIn
  <2> QED
    BY <1>1, <1>2, <2>2, <2>3 DEF Lone, Reached
<1>4. CASE Go(c, "rollenart", "rejected")
  <2>1. pc'[c] = "rejected"
    BY <1>1, <1>4 DEF TypeOK
  <2> QED
    BY <1>1, <1>2, <2>1 DEF Lone, Reached
<1> QED
  BY <1>3, <1>4 DEF CheckSpecifications

(* Nor does the comparison with the Rollenart of the rows that stay. *)
LEMMA ValidateReaches ==
  ASSUME Typed, AloneInv, Alone, NEW c \in Calls, Validate(c)
  PROVE  Lone(c)' /\ SameRollenartIn(rows)'
<1>1. TypeOK /\ Lone(c) /\ SameRollenartIn(rows)
  BY DEF Typed, AloneInv
<1>2. UNCHANGED <<rows, person, old, existing, body>> /\ pc[c] = "validate" /\ pc'[c] \in {"permissions", "rejected"}
  BY <1>1 DEF Validate, TypeOK
<1>3. Compatible(body[c], rows)'
  BY <1>1, <1>2 DEF Lone, Compatible, SameRollenartIn
<1> QED
  BY <1>1, <1>2, <1>3 DEF Lone, Reached

(* Nor do the permissions; from here on the rows change. *)
LEMMA PermissionsReach ==
  ASSUME Typed, RecordInv, AloneInv, Alone, NEW c \in Calls, CheckPermissions(c)
  PROVE  Lone(c)' /\ SameRollenartIn(rows)'
<1>1. TypeOK /\ Lone(c) /\ SameRollenartIn(rows)
  BY DEF Typed, AloneInv
<1>2. UNCHANGED <<rows, person, old, existing, body, errors>> /\ pc[c] = "permissions"
  BY DEF CheckPermissions
<1>3. Compatible(body[c], rows)'
  BY <1>1, <1>2 DEF Lone, Compatible, SameRollenartIn
<1>4. CASE pc'[c] = "rejected"
  BY <1>1, <1>2, <1>4 DEF Lone, Reached
<1>5. CASE pc'[c] = "delete" /\ todo'[c] = KontexteOf(existing[c]) \ body[c]
  <2>1. person'.exists => Reached(c)'
    <3> SUFFICES ASSUME person'.exists PROVE Reached(c)'
      OBVIOUS
    <3>1. existing[c] = rows /\ old[c] \subseteq KontexteOf(existing[c])
      BY <1>1, <1>2 DEF Lone, Reached
    <3>2. DistinctKeys(existing[c])
      BY <3>1 DEF RecordInv
    <3>3. KontexteOf(rows) = (KontexteOf(existing[c]) \intersect body[c]) \union todo'[c]
      BY <1>5, <3>1
    <3> QED
      BY <1>2, <1>5, <3>1, <3>2, <3>3 DEF Reached
  <2> QED
    BY <1>1, <1>2, <1>3, <2>1 DEF Lone
<1> QED
  BY <1>1, <1>4, <1>5 DEF CheckPermissions, TypeOK

(* Each row deleted brings the rows nearer to what was asked ... *)
LEMMA DeleteOneReaches ==
  ASSUME Typed, RecordInv, AloneInv, Alone, NEW c \in Calls, DeleteOne(c)
  PROVE  Lone(c)' /\ SameRollenartIn(rows)'
<1>1. TypeOK /\ Lone(c) /\ SameRollenartIn(rows) /\ Records(c)
  BY DEF Typed, AloneInv, RecordInv
<1>2. /\ UNCHANGED <<person, old, existing, body, errors>>
      /\ pc[c] = "delete" /\ pc'[c] = "delete"
  BY DEF DeleteOne
<1>3. PICK k \in todo[c] : rows' = {r \in rows : ~SameKey(r, k)} /\ todo'[c] = todo[c] \ {k}
  BY <1>1 DEF DeleteOne, TypeOK
<1>4. rows' \subseteq rows
  BY <1>3
<1>5. Compatible(body[c], rows)' /\ SameRollenartIn(rows)'
  BY <1>1, <1>2, <1>4 DEF Lone, Compatible, SameRollenartIn
<1>6. ASSUME person.exists PROVE Reached(c)'
  <2>1. /\ rows \subseteq existing[c] /\ DistinctKeys(existing[c]) /\ old[c] \subseteq KontexteOf(existing[c])
        /\ ~errors[c] => KontexteOf(rows) = (KontexteOf(existing[c]) \intersect body[c]) \union todo[c]
    BY <1>1, <1>2, <1>6 DEF Lone, Reached
  <2>2. k \in KontexteOf(existing[c]) /\ k \notin body[c]
    BY <1>1, <1>2 DEF Records
  <2>3. KontexteOf(rows') = KontexteOf(rows) \ {k}
    BY <1>1, <1>3, <2>1, <2>2, KontexteOfFewer DEF TypeOK
  <2>4. ~errors[c] => KontexteOf(rows') = (KontexteOf(existing[c]) \intersect body[c]) \union todo'[c]
    BY <1>3, <2>1, <2>2, <2>3
  <2>5. rows' \subseteq existing[c]
    BY <1>4, <2>1
  <2> QED
    BY <1>2, <2>1, <2>4, <2>5 DEF Reached
<1> QED
  BY <1>2, <1>5, <1>6 DEF Lone

(* ... and one that cannot be deleted excuses the request. *)
LEMMA DeleteFailsReaches ==
  ASSUME Typed, AloneInv, Alone, NEW c \in Calls, DeleteOneFails(c)
  PROVE  Lone(c)' /\ SameRollenartIn(rows)'
<1>1. TypeOK /\ Lone(c) /\ SameRollenartIn(rows)
  BY DEF Typed, AloneInv
<1>2. /\ UNCHANGED <<rows, person, old, existing, body>> /\ errors'[c]
      /\ pc[c] = "delete" /\ pc'[c] = "delete"
  BY <1>1 DEF DeleteOneFails, TypeOK
<1>3. Compatible(body[c], rows)'
  BY <1>1, <1>2 DEF Lone, Compatible, SameRollenartIn
<1> QED
  BY <1>1, <1>2, <1>3 DEF Lone, Reached

(* After the deletions there is nothing left that was not asked for. *)
LEMMA DeletesDoneReaches ==
  ASSUME Typed, AloneInv, Alone, NEW c \in Calls, DeletesDone(c)
  PROVE  Lone(c)' /\ SameRollenartIn(rows)'
<1>1. TypeOK /\ Lone(c) /\ SameRollenartIn(rows)
  BY DEF Typed, AloneInv
<1>2. /\ UNCHANGED <<rows, person, old, existing, body, errors>>
      /\ pc[c] = "delete" /\ pc'[c] = "add" /\ todo[c] = {}
      /\ todo'[c] = body[c] \ KontexteOf(existing[c])
  BY <1>1 DEF DeletesDone, TypeOK
<1>3. Compatible(body[c], rows)'
  BY <1>1, <1>2 DEF Lone, Compatible, SameRollenartIn
<1>4. ASSUME person.exists PROVE Reached(c)'
  <2>1. /\ old[c] \subseteq KontexteOf(existing[c])
        /\ ~errors[c] => KontexteOf(rows) = (KontexteOf(existing[c]) \intersect body[c]) \union todo[c]
    BY <1>1, <1>2, <1>4 DEF Lone, Reached
  <2>2. ~errors[c] => KontexteOf(rows) = body[c] \ todo'[c]
    BY <1>2, <2>1
  <2> QED
    BY <1>2, <2>1, <2>2 DEF Reached
<1> QED
  BY <1>1, <1>2, <1>3, <1>4 DEF Lone

(* The row of a Kontext that is added.                                      *)
LEMMA AddedRow ==
  ASSUME TypeOK, NEW c \in Calls, AddOne(c)
  PROVE  \E k, row :
           /\ k \in todo[c] \ old[c]
           /\ KontextOf(row) = k /\ row.rolle = k.rolle /\ rows' = rows \union {row}
           /\ todo'[c] = todo[c] \ {k} /\ created'[c] = created[c] \union {k}
<1>1. PICK k \in todo[c] \ old[c] : \E tick \in MinTick .. 1 :
        /\ rows' = rows \union
             {[org |-> k.org, rolle |-> k.rolle, bef |-> k.bef, upd |-> clock + tick]}
        /\ todo' = [todo EXCEPT ![c] = @ \ {k}]
        /\ created' = [created EXCEPT ![c] = @ \union {k}]
  BY DEF AddOne
<1>2. PICK tick \in MinTick .. 1 :
        rows' = rows \union
             {[org |-> k.org, rolle |-> k.rolle, bef |-> k.bef, upd |-> clock + tick]}
  BY <1>1
<1> DEFINE row == [org |-> k.org, rolle |-> k.rolle, bef |-> k.bef, upd |-> clock + tick]
<1>3. k \in Kontexte
  BY DEF TypeOK
<1>4. KontextOf(row) = k /\ row.rolle = k.rolle
  BY <1>3 DEF KontextOf, Kontexte
<1>5. rows' = rows \union {row}
  BY <1>2
<1>6. todo'[c] = todo[c] \ {k} /\ created'[c] = created[c] \union {k}
  BY <1>1 DEF TypeOK
<1> HIDE DEF row
<1> QED
  BY <1>4, <1>5, <1>6

(* Each row added brings the rows nearer to what was asked ... *)
LEMMA AddOneReaches ==
  ASSUME Typed, RecordInv, AloneInv, Alone, NEW c \in Calls, AddOne(c)
  PROVE  Lone(c)' /\ SameRollenartIn(rows)'
<1>1. TypeOK /\ Lone(c) /\ SameRollenartIn(rows) /\ Records(c)
  BY DEF Typed, AloneInv, RecordInv
<1>2. /\ UNCHANGED <<person, old, existing, body, errors>>
      /\ pc[c] = "add" /\ pc'[c] = "add"
  BY DEF AddOne
<1>3. PICK k, row :
           /\ k \in todo[c] \ old[c]
           /\ KontextOf(row) = k /\ row.rolle = k.rolle /\ rows' = rows \union {row}
           /\ todo'[c] = todo[c] \ {k}
  BY <1>1, AddedRow
<1>4. k \in body[c]
  BY <1>1, <1>2, <1>3 DEF Records
<1>5. Compatible(body[c], rows)' /\ SameRollenartIn(rows)'
  <2>1. Compatible(body[c], rows)
    BY <1>1, <1>2 DEF Lone
  <2> QED
    BY <1>1, <1>2, <1>3, <1>4, <2>1 DEF Compatible, SameRollenartIn
<1>6. ASSUME person.exists PROVE Reached(c)'
  <2>1. /\ old[c] \subseteq KontexteOf(existing[c])
        /\ ~errors[c] => KontexteOf(rows) = body[c] \ todo[c]
    BY <1>1, <1>2, <1>6 DEF Lone, Reached
  <2>2. KontexteOf(rows') = KontexteOf(rows) \union {k}
    BY <1>3, KontexteOfMore
  <2>3. ~errors[c] => KontexteOf(rows') = body[c] \ todo'[c]
    BY <1>3, <1>4, <2>1, <2>2
  <2> QED
    BY <1>2, <2>1, <2>3 DEF Reached
<1> QED
  BY <1>2, <1>5, <1>6 DEF Lone

(* What was found in the database is not added: not if no one else takes it *)
(* away in between.                                                         *)
LEMMA AddFoundReaches ==
  ASSUME Typed, RecordInv, AloneInv, Alone, NEW c \in Calls, AddFoundEarlier(c)
  PROVE  Lone(c)' /\ SameRollenartIn(rows)' /\ ~person.exists
<1>1. TypeOK /\ Lone(c) /\ SameRollenartIn(rows) /\ Records(c)
  BY DEF Typed, AloneInv, RecordInv
<1>2. /\ UNCHANGED <<rows, person, body>> /\ pc[c] = "add" /\ pc'[c] = "add"
      /\ todo[c] \intersect old[c] # {}
  BY DEF AddFoundEarlier
<1>3. ~person.exists
  BY <1>1, <1>2 DEF Lone, Reached, Records
<1>4. Compatible(body[c], rows)'
  BY <1>1, <1>2 DEF Lone, Compatible, SameRollenartIn
<1> QED
  BY <1>1, <1>2, <1>3, <1>4 DEF Lone

(* ... and one that cannot be added excuses the request. *)
LEMMA AddFailsReaches ==
  ASSUME Typed, AloneInv, Alone, NEW c \in Calls, AddOneFails(c)
  PROVE  Lone(c)' /\ SameRollenartIn(rows)'
<1>1. TypeOK /\ Lone(c) /\ SameRollenartIn(rows)
  BY DEF Typed, AloneInv
<1>2. /\ UNCHANGED <<rows, person, old, existing, body>> /\ errors'[c]
      /\ pc[c] = "add" /\ pc'[c] = "add"
  BY <1>1 DEF AddOneFails, TypeOK
<1>3. Compatible(body[c], rows)'
  BY <1>1, <1>2 DEF Lone, Compatible, SameRollenartIn
<1> QED
  BY <1>1, <1>2, <1>3 DEF Lone, Reached

(* The last steps of a request, and its end in a crash, change no row. *)
LEMMA LastStepsReach ==
  ASSUME Typed, AloneInv, Alone, NEW c \in Calls,
         AddsDone(c) \/ ReadAfterUpdate(c) \/ NoteUnassignment(c) \/ PublishEvent(c) \/ Crash(c)
  PROVE  Lone(c)' /\ SameRollenartIn(rows)'
<1>1. TypeOK /\ Lone(c) /\ SameRollenartIn(rows)
  BY DEF Typed, AloneInv
<1>2. CASE AddsDone(c)
  <2>1. /\ UNCHANGED <<rows, person, body, errors>> /\ todo[c] = {}
        /\ pc[c] = "add" /\ pc'[c] = "after"
    BY <1>1, <1>2 DEF AddsDone, TypeOK
  <2> QED
    BY <1>1, <2>1 DEF Lone, Reached
<1>3. CASE ReadAfterUpdate(c)
  <2>1. /\ UNCHANGED <<rows, person, body, errors>> /\ after'[c] = rows
        /\ pc[c] = "after" /\ pc'[c] = "unassign"
    BY <1>1, <1>3 DEF ReadAfterUpdate, TypeOK
  <2> QED
    BY <1>1, <2>1 DEF Lone, Reached
<1>4. CASE NoteUnassignment(c)
  <2>1. /\ UNCHANGED <<rows, body, errors, after>>
        /\ pc[c] = "unassign" /\ pc'[c] = "publish"
        /\ person'.exists => person.exists /\ (person'.unassigned <=> after[c] = {})
    BY <1>1, <1>4 DEF NoteUnassignment, TypeOK
  <2> QED
    BY <1>1, <2>1 DEF Lone, Reached
<1>5. CASE PublishEvent(c)
  <2>1. /\ UNCHANGED <<rows, person, body, errors, after>>
        /\ pc[c] = "publish" /\ pc'[c] = "done"
    BY <1>1, <1>5 DEF PublishEvent, TypeOK
  <2> QED
    BY <1>1, <2>1 DEF Lone, Reached
<1>6. CASE Crash(c)
  <2>1. UNCHANGED <<rows, person>> /\ pc'[c] = "crashed"
    BY <1>1, <1>6 DEF Crash, TypeOK
  <2> QED
    BY <1>1, <2>1 DEF Lone, Reached
<1> QED
  BY <1>2, <1>3, <1>4, <1>5, <1>6

(* A request that comes finds no other, or it overlaps.                     *)
LEMMA ComingAlone ==
  ASSUME Typed, RecordInv, AloneInv, Alone, Alone', NEW c \in Calls,
         ShowUebersicht(c) \/ SelectExpired(c) \/ \E B \in Bodies : Submit(c, B)
  PROVE  AloneInv'
<1>1. TypeOK /\ Lone(c) /\ SameRollenartIn(rows) /\ Records(c) /\ OthersSame(c)
  BY OthersStay DEF Typed, AloneInv, RecordInv
<1>2. UNCHANGED <<rows, person, old>>
  BY DEF ShowUebersicht, SelectExpired, Submit
<1>3. CASE ShowUebersicht(c) \/ SelectExpired(c)
  <2>1. pc[c] = "idle" /\ pc'[c] = "read"
    BY <1>1, <1>3 DEF ShowUebersicht, SelectExpired, TypeOK
  <2>2. InFlight' = InFlight
    BY <1>1, <2>1 DEF InFlight, OthersSame, Same
  <2>3. ASSUME NEW d \in Calls \ {c} PROVE Lone(d)'
    <3>1. Same(d) /\ Lone(d)
      BY <1>1 DEF OthersSame, AloneInv
    <3>2. Reached(d) => Reached(d)'
      BY <1>2, <3>1 DEF Same, Reached
    <3>3. Compatible(body[d], rows) => Compatible(body[d], rows)'
      BY <1>2, <3>1 DEF Same, Compatible, SameRollenartIn
    <3> QED
      BY <1>2, <3>1, <3>2, <3>3 DEF Lone, Same
  <2>4. Lone(c)'
    BY <2>1 DEF Lone, Reached
  <2> QED
    BY <1>1, <1>2, <2>2, <2>3, <2>4 DEF AloneInv
<1>4. CASE \E B \in Bodies : Submit(c, B)
  <2>1. InFlight = {} /\ pc[c] = "read" /\ pc'[c] = "find"
    BY <1>1, <1>4 DEF Submit, Arrives, Alone, TypeOK
  <2>2. \A d \in Calls \ {c} : Lone(d)'
    BY <1>1, <1>2, <2>1, LoneOther DEF OthersSame, AloneInv
  <2>3. old'[c] = {}
    BY <1>1, <1>2, <2>1 DEF Records
  <2>4. Lone(c)'
    BY <2>1, <2>3 DEF Lone, Reached
  <2>5. \A d \in InFlight' : d = c
    BY <1>1, <2>1 DEF InFlight, OthersSame, Same
  <2> QED
    BY <1>1, <1>2, <2>2, <2>4, <2>5 DEF AloneInv
<1> QED
  BY <1>3, <1>4

(* So the rows are where a request that runs alone has brought them, step by step. *)
LEMMA NextAlone == Typed /\ RecordInv /\ AloneInv /\ [Next]_vars => AloneInv'
<1> SUFFICES ASSUME Typed, RecordInv, AloneInv, [Next]_vars, Alone' PROVE AloneInv'
  BY DEF AloneInv
<1>1. TypeOK /\ Alone
  BY AloneBefore DEF Typed
<1>2. ASSUME NEW c \in Calls, Process(c) \/ Crash(c) PROVE AloneInv'
  <2>1. c \in InFlight
    BY <1>2 DEF InFlight, Process, FindSent, ReadExisting, CheckSpecifications, Validate,
      CheckPermissions, DeleteOne, DeleteOneFails, DeletesDone, AddOne, AddFoundEarlier,
      AddOneFails, AddsDone, ReadAfterUpdate, NoteUnassignment, PublishEvent, Crash
  <2>2. OthersSame(c)
    BY <1>1, <1>2, OthersStay
  <2>3. person'.exists => person.exists
    BY <1>1, <1>2 DEF TypeOK, Process, FindSent, ReadExisting, CheckSpecifications, Validate,
      CheckPermissions, DeleteOne, DeleteOneFails, DeletesDone, AddOne, AddFoundEarlier,
      AddOneFails, AddsDone, ReadAfterUpdate, NoteUnassignment, PublishEvent, Crash
  <2>4. Lone(c)' /\ SameRollenartIn(rows)'
    BY <1>1, <1>2, FindReaches, ReadReaches, CheckReaches, ValidateReaches, PermissionsReach,
       DeleteOneReaches, DeleteFailsReaches, DeletesDoneReaches, AddOneReaches, AddFoundReaches,
       AddFailsReaches, LastStepsReach DEF Process
  <2> QED
    BY <1>1, <2>1, <2>2, <2>3, <2>4, LoneStep
<1>3. CASE DeletePersonRow
  <2>1. rows' = {} /\ ~person'.exists /\ UNCHANGED <<pc, body>>
    BY <1>1, <1>3 DEF DeletePersonRow, TypeOK
  <2>2. InFlight' = InFlight
    BY <2>1 DEF InFlight
  <2>3. ASSUME NEW d \in Calls PROVE Lone(d)'
    BY <1>1, <2>1 DEF AloneInv, Lone, Compatible
  <2>4. SameRollenartIn(rows)'
    BY <2>1 DEF SameRollenartIn
  <2> QED
    BY <1>1, <2>2, <2>3, <2>4 DEF AloneInv
<1>4. CASE UNCHANGED vars
  <2>1. InFlight' = InFlight /\ (SameRollenartIn(rows) => SameRollenartIn(rows)')
    BY <1>4 DEF InFlight, SameRollenartIn
  <2>2. \A d \in Calls : Lone(d) => Lone(d)'
    BY <1>4 DEF Lone, Reached, Compatible, SameRollenartIn
  <2> QED
    BY <1>1, <2>1, <2>2 DEF AloneInv
<1> QED
  BY <1>1, <1>2, <1>3, <1>4, ComingAlone DEF Next

-----------------------------------------------------------------------------
(* The date of the last assignment, and the events, of requests that run    *)
(* one at a time.                                                           *)

(* Of two requests in progress there is but one.                            *)
LEMMA OnlyOneLate ==
  ASSUME AloneInv, Alone, NEW c \in InFlight, OthersSame(c), NEW d \in Calls, pc'[d] \in Late
  PROVE  d = c
<1> SUFFICES ASSUME d # c PROVE FALSE
  OBVIOUS
<1>1. pc[d] \in Late
  BY DEF OthersSame, Same
<1>2. d \in InFlight
  BY <1>1 DEF Late, InFlight
<1> QED
  BY <1>2 DEF AloneInv

(* A crash is never forgotten.                                              *)
LEMMA NoCrashBefore == TypeOK /\ [Next]_vars /\ NoCrash' => NoCrash
<1> SUFFICES ASSUME TypeOK, [Next]_vars, NoCrash' PROVE NoCrash
  OBVIOUS
<1>1. ASSUME NEW c \in Calls,
             \/ ShowUebersicht(c) \/ SelectExpired(c) \/ (\E B \in Bodies : Submit(c, B))
             \/ Process(c) \/ Crash(c)
      PROVE  NoCrash
  <2>1. OthersSame(c)
    BY <1>1, OthersStay
  <2>2. pc[c] # "crashed"
    BY <1>1 DEF Process, ShowUebersicht, SelectExpired, Submit, FindSent, ReadExisting,
      CheckSpecifications, Validate, CheckPermissions, DeleteOne, DeleteOneFails, DeletesDone,
      AddOne, AddFoundEarlier, AddOneFails, AddsDone, ReadAfterUpdate, NoteUnassignment,
      PublishEvent, Crash, InFlight
  <2> QED
    BY <2>1, <2>2 DEF NoCrash, OthersSame, Same
<1>2. CASE DeletePersonRow \/ UNCHANGED vars
  BY <1>2 DEF DeletePersonRow, NoCrash
<1> QED
  BY <1>1, <1>2 DEF Next

(* A request that has not yet begun to write, or goes no further.           *)
LEMMA EarlyDate ==
  ASSUME TypeOK, DateInv, Alone, NoCrash, NEW c \in Calls, OthersSame(c), pc[c] \in Early,
         pc'[c] # "done", UNCHANGED <<rows, person>>
  PROVE  DateInv'
<1> SUFFICES ASSUME person.exists, \E d \in Calls : pc'[d] = "done",
                    \A d \in InFlight' : pc'[d] \in Early \union {"publish"}
             PROVE  person.unassigned <=> rows = {}
  BY DEF DateInv
<1>1. \E d \in Calls : pc[d] = "done"
  BY DEF OthersSame, Same
<1>2. \A d \in InFlight : pc[d] \in Early \union {"publish"}
  BY DEF InFlight, OthersSame, Same
<1> QED
  BY <1>1, <1>2 DEF DateInv

(* Between requests org_unassignment_date is set just when there are no rows, step
   by step. *)
LEMMA NextDate ==
  Typed /\ RecordInv /\ AloneInv /\ AloneInv' /\ DateInv /\ [Next]_vars => DateInv'
<1> SUFFICES ASSUME Typed, RecordInv, AloneInv, AloneInv', DateInv, [Next]_vars, Alone', NoCrash'
             PROVE  DateInv'
  BY DEF DateInv
<1>1. TypeOK /\ Alone /\ NoCrash
  BY AloneBefore, NoCrashBefore DEF Typed
<1>2. ASSUME NEW c \in Calls,
             \/ ShowUebersicht(c) \/ SelectExpired(c) \/ (\E B \in Bodies : Submit(c, B))
             \/ FindSent(c) \/ ReadExisting(c) \/ CheckSpecifications(c) \/ Validate(c)
             \/ CheckPermissions(c)
      PROVE  DateInv'
  <2>1. OthersSame(c)
    BY <1>1, <1>2, OthersStay DEF Process
  <2>2. pc[c] \in Early /\ pc'[c] # "done" /\ UNCHANGED <<rows, person>>
    BY <1>1, <1>2 DEF ShowUebersicht, SelectExpired, Submit, FindSent, ReadExisting,
      CheckSpecifications, Validate, CheckPermissions, TypeOK, Early
  <2> QED
    BY <1>1, <2>1, <2>2, EarlyDate
<1>3. ASSUME NEW c \in Calls,
             \/ DeleteOne(c) \/ DeleteOneFails(c) \/ DeletesDone(c)
             \/ AddOne(c) \/ AddFoundEarlier(c) \/ AddOneFails(c) \/ AddsDone(c)
             \/ ReadAfterUpdate(c)
      PROVE  DateInv'
  <2>1. pc'[c] \in {"delete", "add", "after", "unassign"}
    BY <1>1, <1>3 DEF DeleteOne, DeleteOneFails, DeletesDone, AddOne, AddFoundEarlier, AddOneFails,
      AddsDone, ReadAfterUpdate, TypeOK
  <2>2. c \in InFlight' /\ pc'[c] \notin Early \union {"publish"}
    BY <2>1 DEF InFlight, Early
  <2> QED
    BY <2>2 DEF DateInv
<1>4. ASSUME NEW c \in Calls, NoteUnassignment(c) PROVE DateInv'
  <2>1. pc'[c] = "publish"
    BY <1>1, <1>4 DEF NoteUnassignment, TypeOK
  <2>2. person'.exists => (person'.unassigned <=> rows' = {})
    BY <2>1 DEF AloneInv, Lone, Reached
  <2> QED
    BY <2>2 DEF DateInv
<1>5. ASSUME NEW c \in Calls, PublishEvent(c) PROVE DateInv'
  <2>1. pc[c] = "publish" /\ UNCHANGED <<rows, person>>
    BY <1>5 DEF PublishEvent
  <2>2. person.exists => (person.unassigned <=> rows = {})
    BY <1>1, <2>1 DEF AloneInv, Lone, Reached
  <2> QED
    BY <2>1, <2>2 DEF DateInv
<1>6. ASSUME NEW c \in Calls, Crash(c) PROVE DateInv'
  BY <1>1, <1>6 DEF Crash, NoCrash, TypeOK
<1>7. CASE DeletePersonRow
  <2>1. ~person'.exists
    BY <1>1, <1>7 DEF DeletePersonRow, TypeOK
  <2> QED
    BY <2>1 DEF DateInv
<1>8. CASE UNCHANGED vars
  BY <1>8 DEF DateInv, Alone, NoCrash, InFlight
<1> QED
  BY <1>2, <1>3, <1>4, <1>5, <1>6, <1>7, <1>8 DEF Next, Process

(* A step that writes nothing, and neither begins nor ends the writing.     *)
LEMMA ChainStays ==
  ASSUME TypeOK, ChainInv, Alone, NoCrash, NEW c \in Calls, OthersSame(c),
         UNCHANGED <<rows, bus>>, removed'[c] = removed[c], created'[c] = created[c],
         person'.exists => person.exists, pc'[c] \in Late <=> pc[c] \in Late
  PROVE  ChainInv'
<1>1. Chain'
  BY DEF ChainInv, Chain
<1>2. ASSUME person'.exists, bus' # <<>>, NEW d \in Calls, pc'[d] \in Late PROVE Since(d)'
  <2>1. pc[d] \in Late /\ removed'[d] = removed[d] /\ created'[d] = created[d]
    BY <1>2 DEF OthersSame, Same
  <2>2. Since(d)
    BY <1>2, <2>1 DEF ChainInv
  <2> QED
    BY <2>1, <2>2 DEF Since, Latest
<1>3. ASSUME person'.exists, bus' # <<>>, \A d \in InFlight' : pc'[d] \in Early
      PROVE  KontexteOf(rows') = Latest'
  <2>1. \A d \in InFlight : pc[d] \in Early
    <3> SUFFICES ASSUME NEW d \in InFlight, pc[d] \notin Early PROVE FALSE
      OBVIOUS
    <3>1. pc[d] \in Late
      BY DEF InFlight, Early, Late, TypeOK, Steps
    <3>2. pc'[d] \in Late /\ d \in Calls
      BY <3>1 DEF OthersSame, Same, InFlight
    <3>3. d \in InFlight' /\ pc'[d] \notin Early
      BY <3>2 DEF InFlight, Early, Late
    <3> QED
      BY <1>3, <3>3
  <2> QED
    BY <1>3, <2>1 DEF ChainInv, Latest
<1> QED
  BY <1>1, <1>2, <1>3 DEF ChainInv

(* A step of the one request that is writing: nobody else is, so that only  *)
(* its own record is to be looked at.                                       *)
LEMMA ChainWrites ==
  ASSUME ChainInv, AloneInv, Alone, NoCrash, NEW c \in InFlight, OthersSame(c),
         UNCHANGED bus, person'.exists => person.exists, pc'[c] \in Late,
         person'.exists /\ bus # <<>> => Since(c)'
  PROVE  ChainInv'
<1>1. Chain'
  BY DEF ChainInv, Chain
<1>2. ASSUME person'.exists, bus' # <<>>, NEW d \in Calls, pc'[d] \in Late PROVE Since(d)'
  <2>1. d = c
    BY <1>2, OnlyOneLate
  <2> QED
    BY <1>2, <2>1
<1>3. c \in InFlight' /\ pc'[c] \notin Early
  BY DEF InFlight, Early, Late
<1> QED
  BY <1>1, <1>2, <1>3 DEF ChainInv

(* The first step towards writing: so far the rows are those announced.     *)
LEMMA PermissionsChain ==
  ASSUME Typed, RecordInv, AloneInv, ChainInv, Alone, NoCrash, NEW c \in Calls, CheckPermissions(c)
  PROVE  ChainInv'
<1>1. TypeOK /\ Records(c) /\ OthersSame(c)
  BY OthersStay DEF Typed, RecordInv, Process
<1>2. /\ UNCHANGED <<rows, person, bus, removed, created>>
      /\ pc[c] = "permissions" /\ pc'[c] \in {"delete", "rejected"}
  BY <1>1 DEF CheckPermissions, TypeOK
<1>3. CASE pc'[c] = "rejected"
  BY <1>1, <1>2, <1>3, ChainStays DEF Late
<1>4. CASE pc'[c] = "delete"
  <2>1. c \in InFlight
    BY <1>2 DEF InFlight
  <2>2. \A d \in InFlight : pc[d] \in Early
    BY <1>2, <2>1 DEF AloneInv, Early
  <2>3. removed[c] = {} /\ created[c] = {}
    BY <1>1, <1>2 DEF Records, Early
  <2>4. person.exists /\ bus # <<>> => KontexteOf(rows) = Latest
    BY <2>2 DEF ChainInv
  <2>5. KontexteOf(removed[c]) = {}
    BY <2>3 DEF KontexteOf
  <2>6. person'.exists /\ bus # <<>> => Since(c)'
    BY <1>2, <2>3, <2>4, <2>5 DEF Since, Latest
  <2> QED
    BY <1>1, <1>2, <1>4, <2>1, <2>6, ChainWrites DEF Late
<1> QED
  BY <1>2, <1>3, <1>4

(* A delete takes from the rows what it adds to the record.                 *)
LEMMA DeleteOneChain ==
  ASSUME Typed, RecordInv, AloneInv, ChainInv, Alone, NoCrash, NEW c \in Calls, DeleteOne(c)
  PROVE  ChainInv'
<1>1. TypeOK /\ Records(c) /\ OthersSame(c) /\ Lone(c)
  BY OthersStay DEF Typed, RecordInv, AloneInv, Process
<1>2. UNCHANGED <<person, bus, created>> /\ pc[c] = "delete" /\ pc'[c] = "delete"
  BY DEF DeleteOne
<1>3. PICK k \in todo[c] :
        /\ rows' = {r \in rows : ~SameKey(r, k)}
        /\ removed' = [removed EXCEPT ![c] = @ \union {ExistingRow(c, k)}]
  BY DEF DeleteOne
<1>4. c \in InFlight
  BY <1>2 DEF InFlight
<1>5. ASSUME person.exists, bus # <<>> PROVE Since(c)'
  <2>1. created[c] = {} /\ k \in KontexteOf(existing[c])
    BY <1>1, <1>2 DEF Records
  <2>2. rows \subseteq existing[c] /\ DistinctKeys(existing[c])
    BY <1>1, <1>2, <1>5 DEF Lone, Reached
  <2>3. KontexteOf(rows') = KontexteOf(rows) \ {k}
    <3>1. existing[c] \in SUBSET Rows /\ rows' = {r \in rows : ~SameKey(r, k)}
      BY <1>1, <1>3 DEF TypeOK
    <3> QED
      BY <2>1, <2>2, <3>1, KontexteOfFewer
  <2>4. KontextOf(ExistingRow(c, k)) = k
    BY <2>1 DEF ExistingRow, KontexteOf
  <2>5. removed'[c] = removed[c] \union {ExistingRow(c, k)}
    BY <1>1, <1>3 DEF TypeOK
  <2>6. KontexteOf(removed'[c]) = KontexteOf(removed[c]) \union {k}
    BY <2>4, <2>5, KontexteOfMore
  <2>7. KontexteOf(rows) = Latest \ KontexteOf(removed[c])
    BY <1>2, <1>5, <2>1 DEF ChainInv, Since, Late
  <2> QED
    BY <1>2, <2>1, <2>3, <2>6, <2>7 DEF Since, Latest
<1> QED
  BY <1>1, <1>2, <1>4, <1>5, ChainWrites DEF Late

(* An insert adds to both.                                                  *)
LEMMA AddOneChain ==
  ASSUME Typed, AloneInv, ChainInv, Alone, NoCrash, NEW c \in Calls, AddOne(c)
  PROVE  ChainInv'
<1>1. TypeOK /\ OthersSame(c)
  BY OthersStay DEF Typed, Process
<1>2. UNCHANGED <<person, bus, removed>> /\ pc[c] = "add" /\ pc'[c] = "add"
  BY DEF AddOne
<1>3. PICK k, row :
           k \in todo[c] \ old[c] /\ KontextOf(row) = k /\ rows' = rows \union {row} /\ created'[c] = created[c] \union {k}
  BY <1>1, AddedRow
<1>4. c \in InFlight
  BY <1>2 DEF InFlight
<1>5. ASSUME person.exists, bus # <<>> PROVE Since(c)'
  <2>1. KontexteOf(rows') = KontexteOf(rows) \union {k}
    BY <1>3, KontexteOfMore
  <2>2. Since(c)
    BY <1>2, <1>5 DEF ChainInv, Late
  <2> QED
    BY <1>2, <1>3, <2>1, <2>2 DEF Since, Latest
<1> QED
  BY <1>1, <1>2, <1>4, <1>5, ChainWrites DEF Late

(* The event carries the record, and the rows it leads to.                  *)
LEMMA PublishChain ==
  ASSUME Typed, AloneInv, ChainInv, Alone, NoCrash, NEW c \in Calls, PublishEvent(c)
  PROVE  ChainInv'
<1>1. TypeOK /\ OthersSame(c) /\ Lone(c)
  BY OthersStay DEF Typed, AloneInv, Process
<1>2. /\ UNCHANGED <<rows, person, removed, created, after>>
      /\ pc[c] = "publish" /\ pc'[c] = "done"
  BY <1>1 DEF PublishEvent, TypeOK
<1>3. c \in InFlight
  BY <1>2 DEF InFlight
<1>4. CASE ~person.exists /\ bus' = bus
  BY <1>2, <1>4 DEF ChainInv, Chain
<1> DEFINE e == [created |-> created[c], removed |-> removed[c], current |-> after[c]]
<1>5. CASE person.exists /\ bus' = Append(bus, e)
  <2>1. /\ Len(bus') = Len(bus) + 1 /\ Len(bus) \in Nat
        /\ \A i \in 1 .. Len(bus) : bus'[i] = bus[i]
        /\ bus'[Len(bus) + 1] = e
    BY <1>1, <1>5 DEF TypeOK
  <2>2. e.created = created[c] /\ e.removed = removed[c] /\ e.current = after[c]
    OBVIOUS
  <2> HIDE DEF e
  <2>3. after[c] = rows
    BY <1>1, <1>2, <1>5 DEF Lone, Reached
  <2>4. ASSUME NEW i \in 1 .. Len(bus') - 1
        PROVE  KontexteOf(bus'[i + 1].current) =
                 (KontexteOf(bus'[i].current) \ KontexteOf(bus'[i + 1].removed)) \union bus'[i + 1].created
    <3>1. CASE i = Len(bus)
      <4>1. bus # <<>> /\ bus'[i] = bus[Len(bus)] /\ bus'[i + 1] = e
        BY <1>1, <2>1, <3>1 DEF TypeOK
      <4>2. Since(c)
        BY <1>2, <1>5, <4>1 DEF ChainInv, Late
      <4> QED
        BY <2>2, <2>3, <4>1, <4>2 DEF Since, Latest
    <3>2. CASE i # Len(bus)
      <4>1. i \in 1 .. Len(bus) - 1 /\ bus'[i] = bus[i] /\ bus'[i + 1] = bus[i + 1]
        BY <2>1, <3>2
      <4> QED
        BY <4>1 DEF ChainInv, Chain
    <3> QED
      BY <3>1, <3>2
  <2>5. Latest' = KontexteOf(rows')
    BY <1>2, <2>1, <2>2, <2>3 DEF Latest
  <2>6. \A d \in Calls : pc'[d] \notin Late
    BY <1>2, <1>3, <1>1, OnlyOneLate DEF Late
  <2> QED
    BY <2>4, <2>5, <2>6 DEF ChainInv, Chain
<1> QED
  BY <1>4, <1>5 DEF PublishEvent

(* The states the events tell of make a chain without a gap, step by step. *)
LEMMA NextChain ==
  Typed /\ RecordInv /\ AloneInv /\ ChainInv /\ [Next]_vars => ChainInv'
<1> SUFFICES ASSUME Typed, RecordInv, AloneInv, ChainInv, [Next]_vars, Alone', NoCrash'
             PROVE  ChainInv'
  BY DEF ChainInv
<1>1. TypeOK /\ Alone /\ NoCrash
  BY AloneBefore, NoCrashBefore DEF Typed
<1>2. ASSUME NEW c \in Calls,
             \/ ShowUebersicht(c) \/ SelectExpired(c) \/ (\E B \in Bodies : Submit(c, B))
             \/ FindSent(c) \/ ReadExisting(c) \/ CheckSpecifications(c) \/ Validate(c)
             \/ DeleteOneFails(c) \/ DeletesDone(c) \/ AddOneFails(c) \/ AddsDone(c)
             \/ ReadAfterUpdate(c) \/ NoteUnassignment(c)
      PROVE  ChainInv'
  <2>1. OthersSame(c)
    BY <1>1, <1>2, OthersStay DEF Process
  <2>2. UNCHANGED <<rows, bus, removed, created>> /\ (person'.exists => person.exists)
    BY <1>1, <1>2 DEF ShowUebersicht, SelectExpired, Submit, FindSent, ReadExisting,
      CheckSpecifications, Validate, DeleteOneFails, DeletesDone, AddOneFails, AddsDone,
      ReadAfterUpdate, NoteUnassignment, TypeOK
  <2>3. pc'[c] \in Late <=> pc[c] \in Late
    BY <1>1, <1>2 DEF ShowUebersicht, SelectExpired, Submit, FindSent, ReadExisting,
      CheckSpecifications, Validate, DeleteOneFails, DeletesDone, AddOneFails, AddsDone,
      ReadAfterUpdate, NoteUnassignment, TypeOK, Late
  <2> QED
    BY <1>1, <2>1, <2>2, <2>3, ChainStays
<1>3. ASSUME NEW c \in Calls, AddFoundEarlier(c) PROVE ChainInv'
  <2>1. ~person'.exists /\ UNCHANGED bus
    BY <1>1, <1>3, AddFoundReaches DEF AddFoundEarlier
  <2> QED
    BY <1>1, <2>1 DEF ChainInv, Chain
<1>4. ASSUME NEW c \in Calls, Crash(c) PROVE ChainInv'
  BY <1>1, <1>4 DEF Crash, NoCrash, TypeOK
<1>5. CASE DeletePersonRow
  <2>1. ~person'.exists /\ UNCHANGED bus
    BY <1>1, <1>5 DEF DeletePersonRow, TypeOK
  <2> QED
    BY <1>1, <2>1 DEF ChainInv, Chain
<1>6. CASE UNCHANGED vars
  BY <1>6 DEF ChainInv, Chain, Since, Latest, Alone, NoCrash, InFlight
<1> QED
  BY <1>1, <1>2, <1>3, <1>4, <1>5, <1>6, PermissionsChain, DeleteOneChain, AddOneChain, PublishChain
     DEF Next, Process

(* What an undisturbed request can rely on, all of it.                      *)
Undisturbed == RecordsInv /\ AloneInv /\ DateInv /\ ChainInv

(* Before the first request the whole invariant holds. *)
LEMMA InitUndisturbed == Init => AloneInv /\ DateInv /\ ChainInv
<1> SUFFICES ASSUME Init PROVE AloneInv /\ DateInv /\ ChainInv
  OBVIOUS
<1>1. \A c \in Calls : pc[c] = "idle" /\ old[c] = {}
  BY DEF Init
<1>2. InFlight = {}
  BY <1>1 DEF InFlight
<1>3. \A c \in Calls : Lone(c)
  BY <1>1 DEF Lone, Reached
<1>4. AloneInv
  BY <1>2, <1>3 DEF AloneInv, Init
<1>5. DateInv
  BY <1>1 DEF DateInv
<1>6. bus = <<>> /\ Len(bus) = 0
  BY DEF Init
<1>7. ChainInv
  BY <1>6 DEF ChainInv, Chain
<1> QED
  BY <1>4, <1>5, <1>7

(* The whole invariant holds in every reachable state. *)
LEMMA UndisturbedAlways == Spec => []Undisturbed
<1>1. Init => Undisturbed
  BY InitTyped, InitRecords, InitUndisturbed DEF Undisturbed, RecordsInv
<1>2. Undisturbed /\ [Next]_vars => Undisturbed'
  BY NextTyped, NextRecord, NextKnown, NextBus, NextAlone, NextDate, NextChain
     DEF Undisturbed, RecordsInv
<1> QED
  BY <1>1, <1>2, PTL DEF Spec

(* A request that ran alone and logged no error leaves exactly the Kontexte *)
(* it was sent, the Rollenarten of a person agree, and between requests     *)
(* org_unassignment_date is set exactly for a person without Kontexte.      *)
THEOREM RequestsTakeEffect == Spec => []ResultAsRequested
<1>1. Undisturbed => ResultAsRequested
  <2> SUFFICES ASSUME Undisturbed, Alone PROVE ResultAsRequested
    BY DEF ResultAsRequested
  <2>1. SameRollenartIn(rows) /\ \A c \in Calls : Lone(c)
    BY DEF Undisturbed, AloneInv
  <2>2. ASSUME NEW c \in Calls, person.exists, pc[c] \in Written, ~errors[c]
        PROVE  KontexteOf(after[c]) = body[c]
    BY <2>1, <2>2 DEF Lone, Reached, Written
  <2>3. (person.exists /\ InFlight = {} /\ NoCrash /\ \E c \in Calls : pc[c] = "done")
           => (person.unassigned <=> rows = {})
    BY DEF Undisturbed, DateInv
  <2> QED
    BY <2>1, <2>2, <2>3 DEF ResultAsRequested
<1> QED
  BY <1>1, UndisturbedAlways, PTL

(* The events of requests that run one at a time tell the state, whether    *)
(* one follows what each says is new and gone or takes the last one's       *)
(* currentKontexte; and nothing goes unannounced when requests overlap.     *)
THEOREM EventsLeadToState == Spec => []EventsTellState
<1>1. Undisturbed => (ChangesAnnounced => EventsTellState)
  <2> SUFFICES ASSUME Undisturbed, ChangesAnnounced, Alone PROVE EventsTellState
    BY DEF EventsTellState
  <2>1. \A c \in Calls : (person.exists /\ pc[c] = "publish") => after[c] = rows
    BY DEF Undisturbed, AloneInv, Lone, Reached
  <2>2. NoCrash => Chain
    BY DEF Undisturbed, ChainInv
  <2> QED
    BY <2>1, <2>2 DEF EventsTellState, Chain
<1> QED
  BY <1>1, UndisturbedAlways, NothingUnannounced, PTL

-----------------------------------------------------------------------------
(* The refinement: requests that run one at a time are a compare-and-set    *)
(* register.                                                                *)

Pages == [c \in EditCalls |-> IF pc[c] = "idle" THEN {} ELSE {KontexteOf(view[c])}]
AnsweredSteps == {"after", "unassign", "publish", "done"}
Answers == {c \in EditCalls : pc[c] \in {"after", "unassign", "publish", "done"}}
Told == IF bus = <<>> THEN {} ELSE {KontexteOf(bus[Len(bus)].current)}
WritingSteps == {"delete", "add"}

(* Neither before nor after the step is the register excused.               *)
LEMMA NotExcused ==
  ASSUME ~Excused, ~Excused'
  PROVE  Excused' = Excused
<1>1. Excused \in BOOLEAN /\ Excused' \in BOOLEAN
  BY DEF Excused
<1> QED
  BY <1>1

(* Nothing of the register changes. *)
LEMMA Stutters ==
  ASSUME UNCHANGED <<RegisterValue, Pages, Answers, Told>>, ~Excused, ~Excused'
  PROVE  [Register!Next]_(Register!rvars)
<1>1. Excused' = Excused
  BY NotExcused
<1> QED
  BY <1>1 DEF Register!rvars, Pages, Answers, Told

(* What is seen of a request that neither comes nor goes.                   *)
LEMMA SeenTheSame ==
  ASSUME NEW c \in Calls, OthersSame(c), UNCHANGED bus, pc'[c] = "idle" <=> pc[c] = "idle",
         pc[c] # "idle" /\ c \in EditCalls => view'[c] = view[c],
         pc'[c] \in AnsweredSteps <=> pc[c] \in AnsweredSteps
  PROVE  UNCHANGED <<Pages, Answers, Told>>
<1>1. \A d \in EditCalls : /\ pc'[d] = "idle" <=> pc[d] = "idle"
                           /\ pc[d] # "idle" => view'[d] = view[d]
                           /\ pc'[d] \in AnsweredSteps <=> pc[d] \in AnsweredSteps
  BY DEF OthersSame, Same
<1>2. UNCHANGED Pages
  BY <1>1 DEF Pages
<1>3. UNCHANGED Answers
  BY <1>1 DEF Answers, AnsweredSteps
<1>4. UNCHANGED Told
  BY DEF Told
<1> QED
  BY <1>2, <1>3, <1>4

(* If anyone writes, it is the request in progress.                         *)
LEMMA TheWriter ==
  ASSUME AloneInv, Alone, NEW c \in InFlight
  PROVE  /\ pc[c] \in WritingSteps => Writing = {c} /\ RegisterValue = KontexteOf(existing[c])
         /\ pc[c] \notin WritingSteps => Writing = {} /\ RegisterValue = KontexteOf(rows)
<1>1. \A d \in Writing : d = c
  BY DEF Writing, InFlight, AloneInv
<1>2. c \in Writing <=> pc[c] \in WritingSteps
  BY DEF Writing, WritingSteps, InFlight
<1>3. pc[c] \in WritingSteps => Writing = {c}
  BY <1>1, <1>2
<1>4. pc[c] \notin WritingSteps => Writing = {}
  BY <1>1, <1>2
<1>5. ASSUME Writing = {c} PROVE (CHOOSE d \in Writing : TRUE) = c
  BY <1>5
<1> QED
  BY <1>3, <1>4, <1>5 DEF RegisterValue

(* The same after a step of that request.                                   *)
LEMMA TheWriterAfter ==
  ASSUME AloneInv, Alone, NEW c \in InFlight, OthersSame(c)
  PROVE  /\ pc'[c] \in WritingSteps => RegisterValue' = KontexteOf(existing'[c])
         /\ pc'[c] \notin WritingSteps => RegisterValue' = KontexteOf(rows')
<1>1. \A d \in Writing' : d = c
  BY DEF Writing, InFlight, AloneInv, OthersSame, Same
<1>2. c \in Writing' <=> pc'[c] \in WritingSteps
  BY DEF Writing, WritingSteps, InFlight
<1>3. pc'[c] \in WritingSteps => Writing' = {c}
  BY <1>1, <1>2
<1>4. pc'[c] \notin WritingSteps => Writing' = {}
  BY <1>1, <1>2
<1>5. ASSUME Writing' = {c} PROVE (CHOOSE d \in Writing' : TRUE) = c
  BY <1>5
<1> QED
  BY <1>3, <1>4, <1>5 DEF RegisterValue

(* Once excused, always excused.                                            *)
LEMMA ExcusedStays == TypeOK /\ [Next]_vars /\ Excused => Excused'
<1> SUFFICES ASSUME TypeOK, [Next]_vars, ~Excused' PROVE ~Excused
  OBVIOUS
<1>1. Alone /\ NoCrash
  BY AloneBefore, NoCrashBefore DEF Excused
<1>2. ASSUME NEW c \in Calls,
             \/ ShowUebersicht(c) \/ SelectExpired(c) \/ (\E B \in Bodies : Submit(c, B))
             \/ Process(c) \/ Crash(c)
      PROVE  ~Excused
  <2>1. OthersSame(c)
    BY <1>2, OthersStay
  <2>2. person'.exists => person.exists
    BY <1>2 DEF TypeOK, Process, ShowUebersicht, SelectExpired, Submit, FindSent, ReadExisting,
      CheckSpecifications, Validate, CheckPermissions, DeleteOne, DeleteOneFails, DeletesDone,
      AddOne, AddFoundEarlier, AddOneFails, AddsDone, ReadAfterUpdate, NoteUnassignment,
      PublishEvent, Crash
  <2>3. pc[c] \in {"idle", "read"} \/ pc'[c] \notin {"idle", "read"}
    BY <1>2 DEF TypeOK, Process, ShowUebersicht, SelectExpired, Submit, FindSent, ReadExisting,
      CheckSpecifications, Validate, CheckPermissions, DeleteOne, DeleteOneFails, DeletesDone,
      AddOne, AddFoundEarlier, AddOneFails, AddsDone, ReadAfterUpdate, NoteUnassignment,
      PublishEvent, Crash
  <2> QED
    BY <1>1, <2>1, <2>2, <2>3 DEF Excused, OthersSame, Same
<1>3. CASE DeletePersonRow \/ UNCHANGED vars
  <2>1. UNCHANGED pc /\ (person'.exists => person.exists)
    BY <1>3 DEF DeletePersonRow
  <2> QED
    BY <1>1, <2>1 DEF Excused
<1> QED
  BY <1>2, <1>3 DEF Next

(* Neither the page nor the arrival of a request touches the rows.          *)
LEMMA ComingRefines ==
  ASSUME TypeOK, ~Excused, ~Excused', NEW c \in Calls,
         ShowUebersicht(c) \/ SelectExpired(c) \/ \E B \in Bodies : Submit(c, B)
  PROVE  [Register!Next]_(Register!rvars)
<1>1. OthersSame(c) /\ UNCHANGED <<rows, bus, existing>>
  BY OthersStay DEF ShowUebersicht, SelectExpired, Submit
<1>2. /\ pc[c] \in {"idle", "read"} /\ pc'[c] \in {"read", "find"}
  BY DEF ShowUebersicht, SelectExpired, Submit, TypeOK
<1>3. Writing' = Writing
  BY <1>1, <1>2 DEF Writing, OthersSame, Same
<1>4. UNCHANGED RegisterValue /\ Excused' = Excused
  BY <1>1, <1>3, NotExcused DEF RegisterValue
<1>5. CASE c \in CronCalls \/ \E B \in Bodies : Submit(c, B)
  <2>1. CASE c \in CronCalls
    <3>1. UNCHANGED Pages
      BY <1>1, <2>1 DEF Pages, OthersSame, Same
    <3>2. UNCHANGED Answers
      BY <1>1, <2>1 DEF Answers, OthersSame, Same
    <3>3. UNCHANGED Told
      BY <1>1 DEF Told
    <3> QED
      BY <1>4, <3>1, <3>2, <3>3, Stutters
  <2>2. CASE \E B \in Bodies : Submit(c, B)
    <3>1. pc[c] = "read" /\ pc'[c] = "find" /\ UNCHANGED view
      BY <2>2 DEF Submit, TypeOK
    <3>2. UNCHANGED <<Pages, Answers, Told>>
      BY <1>1, <3>1, SeenTheSame DEF AnsweredSteps
    <3> QED
      BY <1>4, <3>2, Stutters
  <2> QED
    BY <1>5, <2>1, <2>2
<1>6. CASE ShowUebersicht(c)
  <2>1. c \in EditCalls /\ pc[c] = "idle" /\ pc'[c] = "read" /\ view'[c] = rows
    BY <1>6 DEF ShowUebersicht, TypeOK
  <2>2. KontexteOf(rows) \in SUBSET Kontexte
    BY KontextTyped DEF TypeOK
  <2>3. Pages[c] = {}
    BY <2>1 DEF Pages
  <2>4. Pages' = [Pages EXCEPT ![c] = {KontexteOf(rows)}]
    BY <1>1, <2>1 DEF Pages, OthersSame, Same
  <2>5. UNCHANGED Answers
    BY <1>1, <2>1 DEF Answers, OthersSame, Same
  <2>6. UNCHANGED Told
    BY <1>1 DEF Told
  <2>7. Register!Show(c)
    BY <1>4, <2>2, <2>3, <2>4, <2>5, <2>6 DEF Register!Show, Pages, Answers, Told
  <2> QED
    BY <2>1, <2>7 DEF Register!Next
<1> QED
  BY <1>5, <1>6 DEF SelectExpired

(* Up to the first delete, the rows are the value.                          *)
LEMMA EarlyRefines ==
  ASSUME TypeOK, AloneInv, ~Excused, ~Excused', NEW c \in Calls,
         \/ FindSent(c) \/ ReadExisting(c) \/ CheckSpecifications(c) \/ Validate(c)
         \/ CheckPermissions(c)
  PROVE  [Register!Next]_(Register!rvars)
<1>1. OthersSame(c) /\ UNCHANGED <<rows, bus, view>>
  BY OthersStay DEF Process, FindSent, ReadExisting, CheckSpecifications, Validate, CheckPermissions
<1>2. /\ pc[c] \in {"find", "rollenart", "validate", "permissions"}
      /\ pc'[c] \in {"find", "rollenart", "validate", "permissions", "rejected", "delete"}
      /\ pc'[c] = "delete" => pc[c] = "permissions" /\ UNCHANGED existing
  BY DEF FindSent, ReadExisting, CheckSpecifications, Validate, CheckPermissions, TypeOK
<1>3. c \in InFlight
  BY <1>2 DEF InFlight
<1>4. UNCHANGED <<Pages, Answers, Told>>
  BY <1>1, <1>2, SeenTheSame DEF AnsweredSteps
<1>5. RegisterValue = KontexteOf(rows)
  BY <1>2, <1>3, TheWriter DEF WritingSteps, Excused
<1>6. CASE pc'[c] # "delete"
  <2>1. RegisterValue' = KontexteOf(rows')
    BY <1>1, <1>2, <1>3, <1>6, TheWriterAfter DEF WritingSteps, Excused
  <2> QED
    BY <1>1, <1>4, <1>5, <2>1, Stutters
<1>7. CASE pc'[c] = "delete"
  <2>1. RegisterValue' = KontexteOf(existing[c])
    BY <1>1, <1>2, <1>3, <1>7, TheWriterAfter DEF WritingSteps, Excused
  <2>2. existing[c] = rows
    BY <1>2, <1>7 DEF Excused, AloneInv, Lone, Reached
  <2> QED
    BY <1>4, <1>5, <2>1, <2>2, Stutters
<1> QED
  BY <1>6, <1>7

(* The deletes and the inserts are not yet seen.                            *)
LEMMA WritingRefines ==
  ASSUME Typed, RecordInv, AloneInv, ~Excused, ~Excused', NEW c \in Calls,
         \/ DeleteOne(c) \/ DeleteOneFails(c) \/ DeletesDone(c)
         \/ AddOne(c) \/ AddFoundEarlier(c) \/ AddOneFails(c)
  PROVE  [Register!Next]_(Register!rvars)
<1>1. TypeOK /\ Alone
  BY DEF Typed, Excused
<1>2. OthersSame(c) /\ UNCHANGED <<bus, view, existing>>
  BY <1>1, OthersStay DEF Process, DeleteOne, DeleteOneFails, DeletesDone, AddOne,
    AddFoundEarlier, AddOneFails
<1>3. pc[c] \in {"delete", "add"} /\ pc'[c] \in {"delete", "add"}
  BY <1>1 DEF DeleteOne, DeleteOneFails, DeletesDone, AddOne, AddFoundEarlier, AddOneFails, TypeOK
<1>4. c \in InFlight
  BY <1>3 DEF InFlight
<1>5. UNCHANGED <<Pages, Answers, Told>>
  BY <1>2, <1>3, SeenTheSame DEF AnsweredSteps
<1>6. RegisterValue = KontexteOf(existing[c]) /\ RegisterValue' = KontexteOf(existing'[c])
  BY <1>1, <1>2, <1>3, <1>4, TheWriter, TheWriterAfter DEF WritingSteps
<1> QED
  BY <1>2, <1>5, <1>6, Stutters

(* With the last insert the client's compare-and-set happens: it was shown  *)
(* the value that the rows had before the first delete.                     *)
LEMMA AddsDoneRefines ==
  ASSUME Typed, AloneInv, ViewStillCurrent, ~Excused, ~Excused', NEW c \in Calls, AddsDone(c)
  PROVE  [Register!Next]_(Register!rvars)
<1>1. TypeOK /\ Alone /\ OthersSame(c)
  BY OthersStay DEF Typed, Excused, Process
<1>2. UNCHANGED <<rows, bus, view, existing>> /\ pc[c] = "add" /\ pc'[c] = "after"
  BY <1>1 DEF AddsDone, TypeOK
<1>3. c \in EditCalls
  BY <1>2 DEF Excused
<1>4. c \in InFlight
  BY <1>2 DEF InFlight
<1>5. RegisterValue = KontexteOf(existing[c]) /\ RegisterValue' = KontexteOf(rows)
  BY <1>1, <1>2, <1>4, TheWriter, TheWriterAfter DEF WritingSteps
<1>6. existing[c] = view[c]
  BY <1>2, <1>3 DEF ViewStillCurrent, Validated
<1>7. Pages[c] = {RegisterValue}
  BY <1>2, <1>3, <1>5, <1>6 DEF Pages
<1>8. KontexteOf(rows) \in SUBSET Kontexte
  BY <1>1, KontextTyped DEF TypeOK
<1>9. c \notin Answers /\ Answers' = Answers \union {c}
  BY <1>1, <1>2, <1>3 DEF Answers, OthersSame, Same
<1>10. UNCHANGED Pages
  BY <1>1, <1>2 DEF Pages, OthersSame, Same
<1>11. UNCHANGED Told
  BY <1>2 DEF Told
<1>12. RegisterValue' \in SUBSET Kontexte
  BY <1>5, <1>8
<1>13. Register!CompareAndSet(c)
  BY <1>7, <1>9, <1>10, <1>11, <1>12, NotExcused DEF Register!CompareAndSet, Pages, Answers, Told
<1> QED
  BY <1>3, <1>13 DEF Register!Next

(* After the last insert the rows are the value again, and announced.       *)
LEMMA AnsweredRefines ==
  ASSUME Typed, AloneInv, ~Excused, ~Excused', NEW c \in Calls,
         ReadAfterUpdate(c) \/ NoteUnassignment(c) \/ PublishEvent(c)
  PROVE  [Register!Next]_(Register!rvars)
<1>1. TypeOK /\ Alone /\ person.exists /\ Lone(c) /\ OthersSame(c)
  BY OthersStay DEF Typed, Excused, Process, AloneInv
<1>2. /\ UNCHANGED <<rows, view>>
      /\ pc[c] \in {"after", "unassign", "publish"} /\ pc'[c] \in {"unassign", "publish", "done"}
  BY <1>1 DEF ReadAfterUpdate, NoteUnassignment, PublishEvent, TypeOK
<1>3. c \in InFlight
  BY <1>2 DEF InFlight
<1>4. RegisterValue = KontexteOf(rows) /\ RegisterValue' = KontexteOf(rows')
  BY <1>1, <1>2, <1>3, TheWriter, TheWriterAfter DEF WritingSteps
<1>5. CASE UNCHANGED bus
  <2>1. UNCHANGED <<Pages, Answers, Told>>
    BY <1>1, <1>2, <1>5, SeenTheSame DEF AnsweredSteps
  <2> QED
    BY <1>2, <1>4, <2>1, Stutters
<1>6. CASE PublishEvent(c)
  <2> DEFINE e == [created |-> created[c], removed |-> removed[c], current |-> after[c]]
  <2>1. pc[c] = "publish" /\ bus' = Append(bus, e)
    BY <1>1, <1>6 DEF PublishEvent
  <2>2. bus' # <<>> /\ bus'[Len(bus')] = e
    BY <1>1, <2>1 DEF TypeOK
  <2>3. e.current = after[c]
    OBVIOUS
  <2> HIDE DEF e
  <2>4. after[c] = rows
    BY <1>1, <2>1 DEF Lone, Reached
  <2>5. Told' = {RegisterValue}
    BY <1>4, <2>2, <2>3, <2>4 DEF Told
  <2>6. UNCHANGED Pages
    BY <1>1, <1>2 DEF Pages, OthersSame, Same
  <2>7. UNCHANGED Answers
    BY <1>1, <1>2 DEF Answers, OthersSame, Same
  <2>8. Register!Announce
    BY <1>2, <1>4, <2>5, <2>6, <2>7, NotExcused DEF Register!Announce, Pages, Answers, Told
  <2> QED
    BY <2>8 DEF Register!Next
<1> QED
  BY <1>5, <1>6 DEF ReadAfterUpdate, NoteUnassignment

(* Every step is one of the register, or none.                              *)
LEMMA StepRefines ==
  Typed /\ RecordInv /\ AloneInv /\ ViewStillCurrent /\ [Next]_vars
    => [Register!Next]_(Register!rvars)
<1> SUFFICES ASSUME Typed, RecordInv, AloneInv, ViewStillCurrent, [Next]_vars
             PROVE  [Register!Next]_(Register!rvars)
  OBVIOUS
<1>1. CASE Excused'
  BY <1>1 DEF Register!Next
<1>2. CASE ~Excused'
  <2>1. TypeOK /\ ~Excused
    BY <1>2, ExcusedStays DEF Typed
  <2>2. ASSUME NEW c \in Calls, Crash(c) PROVE FALSE
    <3>1. pc'[c] = "crashed"
      BY <2>1, <2>2 DEF Crash, TypeOK
    <3> QED
      BY <1>2, <3>1 DEF Excused, NoCrash
  <2>3. CASE DeletePersonRow
    <3>1. ~person'.exists
      BY <2>1, <2>3 DEF DeletePersonRow, TypeOK
    <3> QED
      BY <1>2, <3>1 DEF Excused
  <2>4. CASE UNCHANGED vars
    <3>1. UNCHANGED RegisterValue
      BY <2>4 DEF RegisterValue, Writing
    <3>2. UNCHANGED <<Pages, Answers, Told>>
      BY <2>4 DEF Pages, Answers, Told
    <3> QED
      BY <1>2, <2>1, <3>1, <3>2, Stutters
  <2> QED
    BY <1>2, <2>1, <2>2, <2>3, <2>4, ComingRefines, EarlyRefines, WritingRefines, AddsDoneRefines,
       AnsweredRefines DEF Next, Process
<1> QED
  BY <1>1, <1>2

(* The initial states are initial states of the register. *)
LEMMA InitRefines == Init => Register!Init
<1> SUFFICES ASSUME Init PROVE Register!Init
  OBVIOUS
<1>1. \A c \in Calls : pc[c] = "idle"
  BY DEF Init
<1>2. Writing = {} /\ RegisterValue = KontexteOf(rows)
  BY <1>1 DEF Writing, RegisterValue
<1>3. RegisterValue \in SUBSET Kontexte
  BY <1>2, InitTyped, KontextTyped DEF Typed, TypeOK
<1>4. Pages = [c \in EditCalls |-> {}] /\ Answers = {} /\ Told = {}
  BY <1>1 DEF Pages, Answers, Told, Init
<1>5. Excused = FALSE
  BY <1>1 DEF Excused, Alone, NoCrash, Init
<1> QED
  BY <1>3, <1>4, <1>5 DEF Register!Init, Pages, Answers, Told

(* Every step of edits that do not overlap is a step of the compare-and-set *)
(* register, also when single deletes and inserts fail (clock and database  *)
(* stamps differ from insert to insert).                                    *)
THEOREM EditsAreARegister ==
  ASSUME MinTick = 1
  PROVE  Spec => RefinesRegister
<1>1. Undisturbed /\ ViewStillCurrent /\ [Next]_vars => [Register!Next]_(Register!rvars)
  BY StepRefines DEF Undisturbed, RecordsInv
<1> QED
  BY <1>1, InitRefines, UndisturbedAlways, OptimisticCheckSound, PTL
     DEF Spec, RefinesRegister, Register!Spec
=============================================================================
