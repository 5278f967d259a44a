----------------------------- MODULE MCPrompts -----------------------------
(* The instances of Prompts that TLC checks. *)
EXTENDS Prompts, TLC
CONSTANTS p1, p2, c1, o1
PromptSymmetry == Permutations(Requests)
=============================================================================
