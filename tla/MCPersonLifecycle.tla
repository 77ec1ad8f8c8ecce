-------------------------- MODULE MCPersonLifecycle --------------------------
(* Two persons: p2 may come; p1 is there, either in order or without Kontexte *)
(* and, after an earlier failure, with another name in the table than in      *)
(* Keycloak.                                                                  *)
EXTENDS PersonLifecycle, TLC

CONSTANTS p1, p2, c1, c2, nr1

Ada == [lower |-> "ada", search |-> "a", base |-> "a"]
Berta == [lower |-> "berta", search |-> "b", base |-> "b"]
MCNames == {Ada, Berta}
P1 == [id |-> p1, name |-> Ada, user |-> <<"a", 0>>, kc |-> 1, nummer |-> NoNummer, unassigned |-> "no"]
MCStarts ==
  {[rows |-> {P1}, users |-> {[id |-> 1, user |-> <<"a", 0>>]}],
   [rows |-> {[P1 EXCEPT !.unassigned = "recent"]}, users |-> {[id |-> 1, user |-> <<"a", 1>>]}]}
MCBlacklist == {<<"b", 0>>}
=============================================================================
