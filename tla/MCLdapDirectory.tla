--------------------------- MODULE MCLdapDirectory ---------------------------
(* Two operations, overlapping or one after the other, on a directory of    *)
(* two teachers in any state it may be in when they begin.                  *)
EXTENDS LdapDirectory, TLC

CONSTANTS u1, u2, s1, s2, a1, a2
=============================================================================
