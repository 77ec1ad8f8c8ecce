--------------------------- MODULE MCPersonReplicas ---------------------------
(* A school with itslearning, its Klasse, and a school without; a Rolle of   *)
(* teachers and one of heads that share a group; a software and a hardware   *)
(* token.                                                                    *)
EXTENDS PersonReplicas, TLC

CONSTANTS s1, s2, k1, lehrer, leitung, g1, g2, n1, n2, n3, soft, hard, c1, c2

MCGroups == lehrer :> {g1} @@ leitung :> {g1, g2}
MCParent == k1 :> s1
MCRollenart == lehrer :> LEHR @@ leitung :> 3
At1(o, r) == [orga |-> o, rolle |-> r]
MCSlots == {At1(s1, lehrer), At1(s1, leitung), At1(k1, lehrer), At1(s2, leitung)}
Start(ks, software, tokens) ==
  [kontexte |-> ks, rollout |-> soft :> software @@ hard :> "enrolled", theirs |-> tokens]
MCStarts == {Start({At1(s1, lehrer), At1(k1, lehrer), At1(s2, leitung)}, "enrolled", {soft, hard}),
             Start({At1(s1, lehrer)}, "none", {}),
             Start({At1(s1, lehrer), At1(s2, leitung)}, "verify", {soft})}
Symmetry == Permutations({c1, c2})
=============================================================================
