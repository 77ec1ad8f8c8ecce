---------------------------- MODULE ImportWorkflow ----------------------------
(***************************************************************************)
(* Importing pupils from a CSV file: ImportWorkflow answers the HTTP       *)
(* requests (upload, execute, download, cancel or complete), and the event *)
(* handler ImportEventHandler works off the rows of an executed import.    *)
(*                                                                         *)
(* An import (Importvorgang) has a status, and rows (ImportDataItems) in a *)
(* table of their own.  The handler is a singleton; it keeps organisation  *)
(* and Rolle of the import it was started for LAST in two fields and reads *)
(* them for every row.  A request that saves an import writes the status   *)
(* without looking at the one in the table.                                *)
(*                                                                         *)
(* Clients know an import from the answer to its upload, or from the       *)
(* history when the upload broke off.                                      *)
(***************************************************************************)
EXTENDS Naturals, FiniteSets

CONSTANTS
  Vorgaenge,     \* imports; each has a Schule and a Rolle of its own
  Items,         \* the rows of all CSV files
  VorgangOf,     \* [Items -> Vorgaenge]
  Fehlerhaft,    \* rows with a validation error
  Zuordenbar,    \* rows whose Klasse exists at the import's Schule
  Runs,          \* executions: a request and the handler it sets off
  Closings,      \* requests that download, cancel or complete an import
  ChunkSize,     \* rows stored at a time (50 in the code)
  MaxFaults,     \* bound: errors of the database and crashes
  NoVorgang      \* no import, no row

ASSUME ImportAssumption ==
  /\ VorgangOf \in [Items -> Vorgaenge]
  /\ Fehlerhaft \subseteq Items /\ Zuordenbar \subseteq Items
  /\ NoVorgang \notin Vorgaenge \union Items
  /\ Runs \intersect Closings = {}
  /\ ChunkSize \in Nat \ {0} /\ MaxFaults \in Nat

Procs == Runs \union Closings

ImportStatus == {"CANCELLED", "COMPLETED", "FAILED", "FINISHED",
                 "INPROGRESS", "INVALID", "STARTED", "VALID"}
ImportDataItemStatus == {"PENDING", "SUCCESS", "FAILED"}
Steps == {"idle", "execute", "items", "next", "save",
          "download", "delete", "status", "done", "aborted"}

\* A person a run created for a row, with the import whose Schule and Rolle the
\* run used, and whether the Kontexte at Schule and Klasse exist as well.
Personen == [run : Runs, selected : Vorgaenge \union {NoVorgang}, assigned : BOOLEAN]

VARIABLES
  status,     \* [Vorgaenge -> ImportStatus], "none" before the upload
  upload,     \* [Vorgaenge -> "idle", "running", "answered" or "aborted"]
  row,        \* [Items -> ImportDataItemStatus], "none" when not in the table
  persons,    \* [Items -> the persons created for that row]
  selected,   \* selectedOrganisationId and selectedRolleId of the handler
  crossed,    \* history: runs of the handler during which another run began
  faults,
  (* The requests in progress: functions on Procs. *)
  pc,         \* the next step
  of,         \* the import the request is about
  base,       \* the status the request read, then the one it will write
  todo,       \* rows still to be imported
  current,    \* the row being imported
  imported,   \* did creating person and Kontexte for current succeed
  success     \* ~allItemsFailed

table == <<status, upload, row>>
handler == <<selected, crossed>>
run   == <<todo, current, imported, success>>
vars  == <<table, persons, handler, faults, pc, of, base, run>>

ItemsOf(v) == {i \in Items : VorgangOf[i] = v}
Stored(v)  == {i \in ItemsOf(v) : row[i] # "none"}
Unstored(v) == {i \in ItemsOf(v) : row[i] = "none"}
\* The runs of the handler in progress.
InFlight == {r \in Runs : pc[r] \notin {"idle", "execute", "done", "aborted"}}

Init ==
  /\ status = [v \in Vorgaenge |-> "none"]
  /\ upload = [v \in Vorgaenge |-> "idle"]
  /\ row = [i \in Items |-> "none"]
  /\ persons = [i \in Items |-> {}]
  /\ selected = NoVorgang /\ crossed = {}
  /\ faults = 0
  /\ pc = [p \in Procs |-> "idle"]
  /\ of = [p \in Procs |-> NoVorgang]
  /\ base = [p \in Procs |-> "none"]
  /\ todo = [p \in Procs |-> {}]
  /\ current = [p \in Procs |-> NoVorgang]
  /\ imported = [p \in Procs |-> FALSE]
  /\ success = [p \in Procs |-> FALSE]

-----------------------------------------------------------------------------
(* validateImport: the import, its rows in chunks, the verdict.  What is    *)
(* refused before the import is stored leaves no trace.                     *)

UploadStart(v) ==
  /\ upload[v] = "idle"
  /\ upload' = [upload EXCEPT ![v] = "running"]
  /\ status' = [status EXCEPT ![v] = "STARTED"]
  /\ UNCHANGED <<row, persons, handler, faults, pc, of, base, run>>

UploadChunk(v) ==
  /\ upload[v] = "running"
  /\ \E C \in SUBSET Unstored(v) :
       /\ C # {} /\ Cardinality(C) <= ChunkSize
       /\ Cardinality(C) = ChunkSize \/ C = Unstored(v)
       /\ row' = [i \in Items |-> IF i \in C THEN "PENDING" ELSE row[i]]
  /\ UNCHANGED <<status, upload, persons, handler, faults, pc, of, base, run>>

UploadDone(v) ==
  /\ upload[v] = "running" /\ Unstored(v) = {}
  /\ upload' = [upload EXCEPT ![v] = "answered"]
  /\ status' = [status EXCEPT ![v] =
                 IF ItemsOf(v) \intersect Fehlerhaft = {} THEN "VALID" ELSE "INVALID"]
  /\ UNCHANGED <<row, persons, handler, faults, pc, of, base, run>>

UploadAborts(v) ==
  /\ upload[v] = "running"
  /\ faults < MaxFaults /\ faults' = faults + 1
  /\ upload' = [upload EXCEPT ![v] = "aborted"]
  /\ UNCHANGED <<status, row, persons, handler, pc, of, base, run>>

Known(v) == upload[v] \in {"answered", "aborted"}

\* save() of an import read before: the status column is written if it differs
\* from the one that was READ.
Saved(p, s) == IF base[p] = s THEN status ELSE [status EXCEPT ![of[p]] = s]

Begin(p, v, step) ==
  /\ pc[p] = "idle" /\ Known(v)
  /\ pc' = [pc EXCEPT ![p] = step]
  /\ of' = [of EXCEPT ![p] = v]
  /\ base' = [base EXCEPT ![p] = status[v]]
Go(p, from, to) == pc[p] = from /\ pc' = [pc EXCEPT ![p] = to]

\* The locals are gone with the request or handler.
Forget(p) ==
  /\ base' = [base EXCEPT ![p] = "none"]
  /\ todo' = [todo EXCEPT ![p] = {}]
  /\ current' = [current EXCEPT ![p] = NoVorgang]
  /\ imported' = [imported EXCEPT ![p] = FALSE]
  /\ success' = [success EXCEPT ![p] = FALSE]

-----------------------------------------------------------------------------
(* executeImport, and handleExecuteImport which its event starts            *)

ExecuteFind(r, v) ==
  /\ r \in Runs
  /\ Begin(r, v, "execute")
  /\ UNCHANGED <<table, persons, handler, faults, run>>

\* Mutant: the fields are set by the first run only.
ExecuteSave_FirstSelection(r) ==
  /\ Go(r, "execute", "items")
  /\ status' = Saved(r, "INPROGRESS")
  /\ selected' = IF selected = NoVorgang THEN of[r] ELSE selected
  /\ crossed' = crossed \union InFlight
  /\ base' = [base EXCEPT ![r] = "INPROGRESS"]
  /\ UNCHANGED <<upload, row, persons, faults, of, run>>

\* The status is saved, the event published, and the handler runs to its first
\* await: it overwrites the fields of the singleton.
ExecuteSave(r) ==
  /\ Go(r, "execute", "items")
  /\ status' = Saved(r, "INPROGRESS")
  /\ selected' = of[r]
  /\ crossed' = crossed \union InFlight
  /\ base' = [base EXCEPT ![r] = "INPROGRESS"]
  /\ UNCHANGED <<upload, row, persons, faults, of, run>>

ReadItems(r) ==
  /\ r \in Runs
  /\ Go(r, "items", IF Stored(of[r]) = {} THEN "done" ELSE "next")
  /\ todo' = [todo EXCEPT ![r] = Stored(of[r])]
  /\ UNCHANGED <<table, persons, handler, faults, of, base, current, imported, success>>

\* savePersonWithPersonenkontext, to the end of createPersonWithPersonenkontexte:
\* no person, a person whose Kontexte were refused or not all stored, or both.
ImportItem(r) ==
  /\ Go(r, "next", "save")
  /\ \E i \in todo[r] :
       /\ todo' = [todo EXCEPT ![r] = @ \ {i}]
       /\ current' = [current EXCEPT ![r] = i]
       /\ \/ imported' = [imported EXCEPT ![r] = FALSE] /\ UNCHANGED persons
          \/ /\ i \in Zuordenbar
             /\ \E a \in BOOLEAN :
                  /\ imported' = [imported EXCEPT ![r] = a]
                  /\ persons' = [persons EXCEPT ![i] =
                       @ \union {[run |-> r, selected |-> selected, assigned |-> a]}]
  /\ UNCHANGED <<table, handler, faults, of, base, success>>

\* current and imported are locals of the iteration.
RowDone(r) ==
  /\ current' = [current EXCEPT ![r] = NoVorgang]
  /\ imported' = [imported EXCEPT ![r] = FALSE]

\* Mutant: a person is enough, whatever became of the Kontexte.
SaveItem_PersonIsEnough(r) ==
  /\ Go(r, "save", "next")
  /\ LET i == current[r]
         ok == \E p \in persons[i] : p.run = r
     IN /\ row' = IF row[i] = "none" THEN row
                  ELSE [row EXCEPT ![i] = IF ok THEN "SUCCESS" ELSE "FAILED"]
        /\ success' = [success EXCEPT ![r] = @ \/ ok]
  /\ RowDone(r)
  /\ UNCHANGED <<status, upload, persons, handler, faults, of, base, todo>>

\* Mutant: a failed row fails the import again after a row that succeeded.
SaveItem_LastCounts(r) ==
  /\ Go(r, "save", "next")
  /\ LET i == current[r]
     IN row' = IF row[i] = "none" THEN row
               ELSE [row EXCEPT ![i] = IF imported[r] THEN "SUCCESS" ELSE "FAILED"]
  /\ success' = [success EXCEPT ![r] = imported[r]]
  /\ RowDone(r)
  /\ UNCHANGED <<status, upload, persons, handler, faults, of, base, todo>>

\* A row that a cancel has deleted meanwhile is still held by the session: the
\* update touches nothing.
SaveItem(r) ==
  /\ Go(r, "save", "next")
  /\ LET i == current[r]
     IN row' = IF row[i] = "none" THEN row
               ELSE [row EXCEPT ![i] = IF imported[r] THEN "SUCCESS" ELSE "FAILED"]
  /\ success' = [success EXCEPT ![r] = @ \/ imported[r]]
  /\ RowDone(r)
  /\ UNCHANGED <<status, upload, persons, handler, faults, of, base, todo>>

\* Encrypting the password or saving the row throws: it is saved as FAILED.
SaveItemFails(r) ==
  /\ faults < MaxFaults /\ faults' = faults + 1
  /\ Go(r, "save", "next")
  /\ LET i == current[r]
     IN row' = IF row[i] = "none" THEN row ELSE [row EXCEPT ![i] = "FAILED"]
  /\ RowDone(r)
  /\ UNCHANGED <<status, upload, persons, handler, of, base, todo, success>>

\* Mutant: the import is finalised at the first success.
Finish_Early(r) ==
  /\ Go(r, "next", "done")
  /\ success[r]
  /\ status' = Saved(r, IF success[r] THEN "FINISHED" ELSE "FAILED")
  /\ Forget(r)
  /\ UNCHANGED <<upload, row, persons, handler, faults, of>>

\* Mutant: an import of which nothing succeeded is left as it is.
Finish_OnlySuccess(r) ==
  /\ todo[r] = {} /\ success[r]
  /\ Go(r, "next", "done")
  /\ status' = Saved(r, "FINISHED")
  /\ Forget(r)
  /\ UNCHANGED <<upload, row, persons, handler, faults, of>>

Finish(r) ==
  /\ todo[r] = {}
  /\ Go(r, "next", "done")
  /\ status' = Saved(r, IF success[r] THEN "FINISHED" ELSE "FAILED")
  /\ Forget(r)
  /\ UNCHANGED <<upload, row, persons, handler, faults, of>>

-----------------------------------------------------------------------------
(* cancelOrCompleteImport and downloadFile                                  *)

CancelFind(c, v) ==
  /\ c \in Closings
  /\ Begin(c, v, "delete")
  /\ UNCHANGED <<table, persons, handler, faults, run>>

DownloadFind(c, v) ==
  /\ c \in Closings
  /\ status[v] = "FINISHED"
  /\ Begin(c, v, "download")
  /\ UNCHANGED <<table, persons, handler, faults, run>>

\* Without rows there is no file; the Schule or Rolle may be gone.
DownloadItems(c) ==
  /\ \/ Stored(of[c]) = {} /\ Go(c, "download", "done") /\ UNCHANGED success
     \/ /\ Stored(of[c]) # {}
        /\ \/ Go(c, "download", "delete") /\ UNCHANGED success
           \/ Go(c, "download", "status") /\ success' = [success EXCEPT ![c] = TRUE]
  /\ UNCHANGED <<table, persons, handler, faults, of, base, todo, current, imported>>

\* Mutant: only the rows that were imported are deleted.
DeleteItems_OnlySuccess(c) ==
  /\ Go(c, "delete", "status")
  /\ row' = [i \in Items |-> IF VorgangOf[i] = of[c] /\ row[i] = "SUCCESS" THEN "none" ELSE row[i]]
  /\ UNCHANGED <<status, upload, persons, handler, faults, of, base, run>>

DeleteItems(c) ==
  /\ Go(c, "delete", "status")
  /\ row' = [i \in Items |-> IF VorgangOf[i] = of[c] THEN "none" ELSE row[i]]
  /\ UNCHANGED <<status, upload, persons, handler, faults, of, base, run>>

\* Mutant: the status of a row where that of an import is due.
SaveStatus_OfItem(c) ==
  /\ Go(c, "status", "done")
  /\ status' = Saved(c, IF success[c] THEN "FAILED"
                        ELSE IF base[c] = "FINISHED" THEN "SUCCESS" ELSE "CANCELLED")
  /\ UNCHANGED <<upload, row, persons, handler, faults, of, base, run>>

\* success stands for the file that could not be written.
SaveStatus(c) ==
  /\ Go(c, "status", "done")
  /\ status' = Saved(c, IF success[c] THEN "FAILED"
                        ELSE IF base[c] = "FINISHED" THEN "COMPLETED" ELSE "CANCELLED")
  /\ UNCHANGED <<upload, row, persons, handler, faults, of, base, run>>

-----------------------------------------------------------------------------
\* A request or handler ends early: the process stops, or a call throws.
Abort(p) ==
  /\ pc[p] \notin {"idle", "done", "aborted"}
  /\ faults < MaxFaults /\ faults' = faults + 1
  /\ pc' = [pc EXCEPT ![p] = "aborted"]
  /\ Forget(p)
  /\ UNCHANGED <<table, persons, handler, of>>

Handle(r) ==
  \/ ExecuteSave(r) \/ ReadItems(r) \/ ImportItem(r)
  \/ SaveItem(r) \/ SaveItemFails(r) \/ Finish(r)

Next ==
  \/ \E v \in Vorgaenge : UploadStart(v) \/ UploadChunk(v) \/ UploadDone(v) \/ UploadAborts(v)
  \/ \E r \in Runs : (\E v \in Vorgaenge : ExecuteFind(r, v)) \/ Handle(r)
  \/ \E c \in Closings :
       \/ \E v \in Vorgaenge : CancelFind(c, v) \/ DownloadFind(c, v)
       \/ DownloadItems(c) \/ DeleteItems(c) \/ SaveStatus(c)
  \/ \E p \in Procs : Abort(p)

Spec == Init /\ [][Next]_vars

\* Node runs the continuation of every await that returns.
FairSpec == Spec /\ \A r \in Runs : WF_vars(Handle(r))

-----------------------------------------------------------------------------
(* Properties                                                              *)

TypeOK ==
  /\ status \in [Vorgaenge -> ImportStatus \union {"none"}]
  /\ upload \in [Vorgaenge -> {"idle", "running", "answered", "aborted"}]
  /\ row \in [Items -> ImportDataItemStatus \union {"none"}]
  /\ persons \in [Items -> SUBSET Personen]
  /\ selected \in Vorgaenge \union {NoVorgang} /\ crossed \in SUBSET Runs
  /\ faults \in Nat
  /\ pc \in [Procs -> Steps]
  /\ of \in [Procs -> Vorgaenge \union {NoVorgang}]
  /\ base \in [Procs -> ImportStatus \union {"none"}]
  /\ todo \in [Procs -> SUBSET Items]
  /\ current \in [Procs -> Items \union {NoVorgang}]
  /\ imported \in [Procs -> BOOLEAN] /\ success \in [Procs -> BOOLEAN]

(* A row is only shown as imported, with a user name and a password, when a *)
(* person with the Kontexte at Schule and Klasse exists: whatever runs,     *)
(* cancels and failures come in between.                                    *)
SuccessHasPerson ==
  \A i \in Items : row[i] = "SUCCESS" => \E p \in persons[i] : p.assigned

(* An import is not FINISHED before all of its rows were tried, even when   *)
(* it is executed twice at a time.                                          *)
FinishedIsComplete ==
  \A v \in Vorgaenge : status[v] = "FINISHED" => \A i \in ItemsOf(v) : row[i] # "PENDING"

(* COMPLETED promises that the rows, which hold the initial passwords, are  *)
(* gone.                                                                    *)
CompletedHoldsNothing ==
  \A v \in Vorgaenge : status[v] = "COMPLETED" => Stored(v) = {}

ExecutedOnce(v) == \A r, s \in Runs : of[r] = v /\ of[s] = v => r = s
SomeSucceeded(v) == \E i \in ItemsOf(v) : row[i] = "SUCCESS"

(* The final status of an import that is executed once tells whether        *)
(* anything was imported: FINISHED with at least one row that succeeded,    *)
(* FAILED with none (the comment at the end of handleExecuteImport); unless *)
(* a download failed to write its file.                                     *)
StatusTellsOutcome ==
  \A v \in Vorgaenge : ExecutedOnce(v) =>
    /\ status[v] = "FINISHED" /\ Stored(v) # {} => SomeSucceeded(v)
    /\ (status[v] = "FAILED" /\ \A c \in Closings : ~success[c]) => ~SomeSucceeded(v)

(* A person created for a row of an import gets the Schule and Rolle of     *)
(* that import, and so the same Rolle at the Klasse as at the Klasse's      *)
(* Schule.                                                                  *)
KlasseAtOwnSchule ==
  \A i \in Items : \A p \in persons[i] : p.assigned => p.selected = VorgangOf[i]

(* It is only another run, begun before the run has ended, that leads to    *)
(* persons at the Schule of another import: an earlier run that came to an  *)
(* end, or broke off, leaves nothing behind in the handler.                 *)
KlasseUnlessCrossed ==
  \A i \in Items : \A p \in persons[i] :
    p.assigned /\ p.run \notin crossed => p.selected = VorgangOf[i]

(* Every execution comes to an end, also when others run at the same time:  *)
(* an import does not stay INPROGRESS, unless something fails or the rows   *)
(* are taken away by a cancel.                                              *)
ImportFinalised ==
  \A v \in Vorgaenge :
    status[v] = "INPROGRESS"
      ~> \/ status[v] \in {"FINISHED", "FAILED"}
         \/ faults > 0 \/ \E c \in Closings : of[c] = v
=============================================================================
