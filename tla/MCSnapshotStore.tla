-------------------------- MODULE MCSnapshotStore --------------------------
(* The instance of SnapshotStore that TLC checks. *)
EXTENDS SnapshotStore
CONSTANTS s1, s2, h1
=============================================================================
