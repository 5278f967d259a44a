--------------------------- MODULE WorkMembership ---------------------------
(***************************************************************************)
(* What the conversation end gate promises about one kind of work: until   *)
(* an end is accepted work may join, each piece leaves once, when its      *)
(* outcome exists, and after the acceptance the membership only shrinks.   *)
(* An end that was shown the membership it froze has therefore seen        *)
(* everything it has to stop and join.                                     *)
(***************************************************************************)
CONSTANT Work
VARIABLES frozen, members, settled

vars == <<frozen, members, settled>>

Init == frozen = FALSE /\ members = {} /\ settled = {}

Admit(w) ==
  /\ ~frozen /\ w \notin members \cup settled
  /\ members' = members \cup {w}
  /\ UNCHANGED <<frozen, settled>>

Settle(w) ==
  /\ w \in members
  /\ members' = members \ {w}
  /\ settled' = settled \cup {w}
  /\ UNCHANGED frozen

Accept ==
  /\ frozen' = TRUE
  /\ UNCHANGED <<members, settled>>

Next == (\E w \in Work : Admit(w) \/ Settle(w)) \/ Accept

Spec == Init /\ [][Next]_vars
=============================================================================
