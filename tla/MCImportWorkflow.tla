--------------------------- MODULE MCImportWorkflow ---------------------------
(* Two imports: one with a row whose Klasse does not exist, and none with   *)
(* more than two rows; a chunk holds one row so that an upload has several. *)
EXTENDS ImportWorkflow, TLC

CONSTANTS v1, v2, i1, i2, i3, r1, r2, c1, c2, none

MCItems == {i1, i2, i3}
MCVorgangOf == (i1 :> v1) @@ (i2 :> v1) @@ (i3 :> v2)
=============================================================================
