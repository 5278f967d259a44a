----------------------------- MODULE MCEndGate -----------------------------
(***************************************************************************)
(* Small instances of the end gate.                                        *)
(***************************************************************************)
EXTENDS EndGate, TLC

CONSTANTS t1, t2, k1, c1, x1, x2, p1, p2

\* The calls of each run: one or two end callers, with Quiesce or the analysis.
EndAndQuit == {p1, Quit}
EndAndAnalysis == {p1, Analysis}
EndOnly == {p1}
TurnSymmetry == Permutations({t1, t2})
=============================================================================
