------------------------------ MODULE Feedback ------------------------------
(***************************************************************************)
(* What Send now promises about the text a user types while a turn runs:   *)
(* every entry is used once, by the model, by the marker of an interrupted *)
(* turn, or by the user who takes it back; an accepted request is told     *)
(* "delivered" only when all of its entries were read; and while it is     *)
(* owed, nobody else takes them.                                           *)
(***************************************************************************)
CONSTANTS Entries, Requests
VARIABLES place, receipt, promise

Read == {"model", "marker"}
Init ==
  /\ place = [e \in Entries |-> "new"]
  /\ receipt = [r \in Requests |-> "none"]
  /\ promise = [r \in Requests |-> {}]

Owed(e) == \E r \in Requests : receipt[r] = "owed" /\ e \in promise[r]

\* An entry is typed, waits, and is used at most once.
Moves(e) ==
  \/ place'[e] = place[e]
  \/ place[e] = "new" /\ place'[e] = "waiting"
  \/ place[e] = "waiting" /\ place'[e] \in Read
  \/ place[e] = "waiting" /\ place'[e] \in {"user", "dropped"} /\ ~Owed(e)

\* A receipt is "delivered" once its promise was read, and then for good.
Settles(r) ==
  \/ receipt'[r] = receipt[r] /\ promise'[r] = promise[r]
  \/ /\ receipt[r] = "none" /\ receipt'[r] = "owed"
     /\ \A e \in promise'[r] : place'[e] # "new"
  \/ /\ receipt[r] \in {"owed", "undelivered"} /\ promise'[r] = promise[r]
     /\ receipt'[r] \in {"owed", "undelivered", "delivered"}
     /\ receipt'[r] = "delivered" => \A e \in promise[r] : place[e] \in Read

Next == (\A e \in Entries : Moves(e)) /\ (\A r \in Requests : Settles(r))
Spec == Init /\ [][Next]_<<place, receipt, promise>>
=============================================================================
