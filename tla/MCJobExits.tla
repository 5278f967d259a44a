----------------------------- MODULE MCJobExits -----------------------------
(* Small instances of JobExits. *)
EXTENDS JobExits
CONSTANTS e1, e2, k1   \* model values
=============================================================================
