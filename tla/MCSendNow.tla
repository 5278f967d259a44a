----------------------------- MODULE MCSendNow -----------------------------
(* The instances of SendNow that TLC checks. *)
EXTENDS SendNow, TLC
CONSTANTS x1, s1, f1, o1, o2
=============================================================================
