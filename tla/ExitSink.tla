------------------------------ MODULE ExitSink ------------------------------
(***************************************************************************)
(* What the exit sink promises about detached completions: a completion is *)
(* offered, refused ones may be offered again for as long as the process   *)
(* lives, and one the sink accepted stays accepted, restarts included.     *)
(***************************************************************************)
CONSTANT Completions
VARIABLE sink

Init == sink = [c \in Completions |-> "none"]

Refuse(c) == sink[c] = "none" /\ sink' = [sink EXCEPT ![c] = "failed"]

Accept(c) == sink[c] \in {"none", "failed"} /\ sink' = [sink EXCEPT ![c] = "stored"]

\* The refusals are remembered in memory only: with the process go the refused
\* completions, and the commands that were still running.
Crash ==
  \E running \in SUBSET Completions :
    sink' = [c \in Completions |->
      IF sink[c] = "failed" \/ (sink[c] = "none" /\ c \in running) THEN "gone" ELSE sink[c]]

Next == (\E c \in Completions : Refuse(c) \/ Accept(c)) \/ Crash

Spec == Init /\ [][Next]_sink
=============================================================================
