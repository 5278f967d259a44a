----------------------------- MODULE Decisions -----------------------------
(***************************************************************************)
(* What the session promises about the requests it puts to the user: each  *)
(* is decided at most once and for good; what the user permits takes       *)
(* effect with the decision, and with no other decision; a client is told  *)
(* that it answered only what was decided so; and whoever asked returns    *)
(* once, with an answer or a denial only when there is one.                *)
(***************************************************************************)
CONSTANT Requests
VARIABLES
  decision,   \* none, answer, refused or cancel
  permitted,  \* the requests whose answer had its effect
  told,       \* the requests a client was told it answered
  returned    \* what the one who asked was given

Init ==
  /\ decision = [p \in Requests |-> "none"]
  /\ permitted = {} /\ told = {}
  /\ returned = [p \in Requests |-> "none"]

Decides(p) ==
  \/ decision'[p] = decision[p] /\ (p \in permitted' <=> p \in permitted)
  \/ /\ decision[p] = "none" /\ decision'[p] \in {"answer", "refused", "cancel"}
     /\ p \in permitted' <=> decision'[p] = "answer"

Tells(p) ==
  \/ p \in told' <=> p \in told
  \/ p \in told' /\ decision'[p] = "answer"

Returns(p) ==
  \/ returned'[p] = returned[p]
  \/ /\ returned[p] = "none"
     /\ returned'[p] = "answer" => decision[p] = "answer"
     /\ returned'[p] = "denied" => decision[p] \in {"refused", "cancel"}

Next == \A p \in Requests : Decides(p) /\ Tells(p) /\ Returns(p)
Spec == Init /\ [][Next]_<<decision, permitted, told, returned>>
=============================================================================
