---------------------------- MODULE AdminRequests ----------------------------
(***************************************************************************)
(* Requests of administrators and what they start, for the modules of      *)
(* organisations, Rollen and service providers.  A request reads and       *)
(* checks, and writes later: what it read may have changed by then.        *)
(* Refused requests change nothing and are left out.                       *)
(*                                                                         *)
(* An event handler is a task of its own: publish starts it and does not   *)
(* wait for it.  It has the database session (EntityManager) of the        *)
(* request that published.  A session returns a row that was already read  *)
(* from memory, and a flush writes under the version that was read.        *)
(***************************************************************************)
EXTENDS Integers, FiniteSets

CONSTANTS
  Clients,      \* requests that may be in progress at a time
  MaxRequests,  \* bound: requests
  MaxFaults     \* bound: calls that fail

ASSUME RequestsAssumption == MaxRequests \in Nat /\ MaxFaults \in Nat

VARIABLES
  req,          \* [Clients -> the request in progress]
  tasks,        \* event handlers in progress
  requests,
  faults,
  (* History. *)
  disturbed,    \* what two of them touched at a time, or a failed call left undone
  overwritten   \* a row was written by someone who had not seen it as it was

requestVars == <<req, tasks, requests, faults, disturbed, overwritten>>

Idle == [op |-> "none", touches |-> {}]
NothingBegun ==
  /\ req = [c \in Clients |-> Idle] /\ tasks = {}
  /\ requests = 0 /\ faults = 0 /\ disturbed = {} /\ overwritten = FALSE

InProgress == {req[c] : c \in Clients} \union tasks
Quiet == InProgress \subseteq {Idle}

\* Resources that something in progress touches.
Touched == UNION {r.touches : r \in InProgress}

CanBegin(c) == req[c] = Idle /\ requests < MaxRequests
Begin(c, r) ==
  /\ CanBegin(c) /\ requests' = requests + 1
  /\ req' = [req EXCEPT ![c] = r]
  /\ disturbed' = disturbed \union (r.touches \intersect Touched)
  /\ UNCHANGED <<tasks, faults, overwritten>>

\* The request goes on.
Goto(c, r) ==
  /\ req' = [req EXCEPT ![c] = r]
  /\ UNCHANGED <<tasks, requests, faults, disturbed, overwritten>>

\* It ends; seen: it knew what it wrote over, started: the handlers of its event,
\* untold: what other systems should have been told.
End(c, seen, started, untold) ==
  /\ req' = [req EXCEPT ![c] = Idle]
  /\ tasks' = tasks \union started
  /\ overwritten' = (overwritten \/ ~seen)
  /\ disturbed' = disturbed \union untold
  /\ UNCHANGED <<requests, faults>>

\* It ends and has changed nothing.
GiveUp(c) == End(c, TRUE, {}, {})

\* A handler ends.
EndTask(t) ==
  /\ tasks' = tasks \ {t}
  /\ UNCHANGED <<req, requests, faults, disturbed, overwritten>>

\* A call of a handler fails; it logs that and ends.
TaskFails(t) ==
  /\ faults < MaxFaults /\ faults' = faults + 1
  /\ tasks' = tasks \ {t} /\ disturbed' = disturbed \union t.touches
  /\ UNCHANGED <<req, requests, overwritten>>
=============================================================================
