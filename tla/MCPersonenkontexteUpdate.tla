---------------------- MODULE MCPersonenkontexteUpdate ----------------------
(* A person at one or two organisations with a teacher's and a pupil's      *)
(* Rolle, Kontexte with and without an expired Befristung.                  *)
EXTENDS PersonenkontexteUpdate, TLC

CONSTANTS o1, o2, lehrer, lernender, none, abgelaufen, e1, e2, k1

MCRollen == {lehrer, lernender}
MCRollenartOf == (lehrer :> "LEHR") @@ (lernender :> "LERN")

Symmetry == Permutations(EditCalls)
=============================================================================
