-------------------------- MODULE MCCommandService --------------------------
(***************************************************************************)
(* Small instances of the command service.                                 *)
(***************************************************************************)
EXTENDS CommandService, TLC

CONSTANTS j1, j2, o1, o2, t1

\* Two commands of one operation, interchangeable.
OneOp == [j \in Jobs |-> o1]
JobSymmetry == Permutations({j1, j2})

\* All operations of one turn: an interruption closes one of them and leaves the
\* turn admitting, and with MaxStopped = 1 the other pushes it out of memory.
OneTurn == [o \in Ops |-> t1]
=============================================================================
