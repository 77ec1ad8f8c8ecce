---------------------------- MODULE KontextRegister ----------------------------
(***************************************************************************)
(* What the update of Personenkontexte promises an administrator: the      *)
(* Kontexte of a person change in one step, only by a client that was      *)
(* shown their present state (compare and set), and are then announced.    *)
(* Nothing is promised any more once the register is excused.              *)
(***************************************************************************)
CONSTANTS Clients, Values

VARIABLES
  value,      \* the person's Kontexte
  shown,      \* what each client was shown: {v}, or {} before
  answered,   \* the clients whose request succeeded
  announced,  \* what the latest event said: {v}, or {} before
  excused     \* requests have overlapped or broken off

rvars == <<value, shown, answered, announced, excused>>

Init ==
  /\ value \in Values
  /\ shown = [c \in Clients |-> {}]
  /\ answered = {}
  /\ announced = {}
  /\ excused = FALSE

\* A page may show a state in the middle of another update.
Show(c) ==
  /\ shown[c] = {}
  /\ \E v \in Values : shown' = [shown EXCEPT ![c] = {v}]
  /\ UNCHANGED <<value, answered, announced, excused>>

CompareAndSet(c) ==
  /\ c \notin answered
  /\ shown[c] = {value}
  /\ value' \in Values
  /\ answered' = answered \union {c}
  /\ UNCHANGED <<shown, announced, excused>>

Announce ==
  /\ announced' = {value}
  /\ UNCHANGED <<value, shown, answered, excused>>

Next == Announce \/ (\E c \in Clients : Show(c) \/ CompareAndSet(c)) \/ excused'

Spec == Init /\ [][Next]_rvars
=============================================================================
