--------------------------- MODULE PromptsProofs ---------------------------
(***************************************************************************)
(* Theorems about Prompts, for any number of requests, clients and         *)
(* operations: a request is delivered once, a canceled one had no effect,  *)
(* nobody takes a sentinel for an answer, what nobody has taken is on the  *)
(* screen, an answer that won is used, and the parties that settle a       *)
(* request together implement Decisions.                                   *)
(***************************************************************************)
EXTENDS Prompts, TLAPS

Busy == {"apply", "access", "deliver", "settle", "clear", "join"}
Holding == {"apply", "access", "deliver", "settle", "clear"}
Delivering == {"apply", "deliver"}

\* Who may deliver: one claimant of a request, or the slot of an access request.
Taken ==
  /\ \A p \in known \cup claimed : kind[p] # None
  /\ \A s \in Slots : slot[s] \in Requests => kind[slot[s]] # None
  /\ \A t \in Threads : at[t] \in Busy => on[t] # None
  /\ \A t \in Threads : at[t] \in Holding => on[t] \in claimed
  /\ \A t \in Threads : at[t] = "access" => kind[on[t]] = "access"
  /\ \A t \in Threads : at[t] \in Delivering => kind[on[t]] # "access" /\ sent[on[t]] = "none"
  /\ \A t, u \in Threads :
       at[t] \in Delivering /\ at[u] \in Delivering /\ on[t] = on[u] => t = u
  /\ \A p \in Requests : p \notin claimed /\ kind[p] # "access" => sent[p] = "none"
  /\ \A p \in Requests : slot["approval"] = p /\ kind[p] = "access" => sent[p] = "none"
  /\ replaced # None => kind[replaced] \notin {None, "access"}
  /\ \A p \in Requests : closes[p] = IF sent[p] = "none" THEN 0 ELSE 1
  /\ \A p \in applied : sent[p] = "answer"

\* A cancellation is known by its cause before its sentinel can be read.
Told ==
  /\ \A t \in Threads : at[t] = "deliver" => cause[on[t]] # "none"
  /\ \A c \in Clients : at[c] \in {"idle", "apply", "settle", "clear", "join"}
  /\ \A c \in Clients : at[c] = "settle" => sent[on[c]] \in {"answer", "refused"}
  /\ \A p \in Requests : sent[p] = "refused" => kind[p] \in {"approval", "skill", "access"}
  /\ \A p \in known : kind[p] \in {"question", "tool"} /\ sent[p] = "cancel" => cause[p] # "none"
  /\ NoFabricatedAnswer

\* Only a consent that is being installed or removed has displaced a request.
Shown == Answerable /\ (consent \in {"off", "on"} => replaced = None)

\* An answer in flight finds its waiter: a waiter whose request a client is applying
\* waits on, or joins the claim, and what the client's answer left in the registry is
\* what the waiter reads.
Read == {"approval", "tool", "sudo", "access"}
Heard ==
  /\ \A p \in Requests :
       kind[p] # "access" /\ (p \notin claimed \/ sent[p] = "answer") => cause[p] = "none"
  /\ \A c \in Clients : at[c] = "apply" => cause[on[c]] = "none"
  /\ \A t \in Threads :
       at[t] \in {"settle", "clear"} => sent[on[t]] # "none" /\ (t \notin Clients => sent[on[t]] = "cancel")
  /\ \A p \in Requests : at[p] \in Busy => on[p] = p
  /\ \A p \in Requests : at[p] \notin {"exit", "over"} => result[p] = "none"
  /\ \A p \in known \ (settled \cup claimed) : kind[p] # "access" => at[p] = "wait"
  /\ \A p \in Requests : kind[p] = "access" /\ slot["approval"] = p => at[p] = "wait"
  /\ \A c \in Clients :
       at[c] = "apply" /\ ~shut /\ life # "over" => Live(on[c]) /\ at[on[c]] \in {"wait", "join"}
  /\ \A p \in Requests :
       sent[p] = "answer" /\ ~shut /\ life # "over" =>
         /\ kind[p] # "access" /\ at[p] \in {"wait", "join", "after"} => p \in known
         /\ kind[p] \in Read /\ result[p] # "none" => result[p] = "answer"
  /\ \A p \in won : sent[p] = "answer"

IInv == TypeOK /\ Taken /\ Told /\ Shown /\ Heard
-----------------------------------------------------------------------------
\* The slots of the kinds, and the approval slot's two kinds.
LEMMA SlotsOfKinds ==
  \A k \in Kinds : SlotOf(k) \in Slots /\ (SlotOf(k) = "approval" <=> k \in {"approval", "access"})
<1> SUFFICES ASSUME NEW k \in Kinds
             PROVE  SlotOf(k) \in Slots /\ (SlotOf(k) = "approval" <=> k \in {"approval", "access"})
  OBVIOUS
<1>1. CASE k \in {"access", "tool"}
  BY <1>1 DEF SlotOf, Slots
<1>2. CASE k \in {"approval", "skill", "question", "sudo"}
  BY <1>2 DEF SlotOf, Slots
<1>3. QED
  BY <1>1, <1>2 DEF Kinds

\* A thread that claims a request to cancel it keeps the types.
LEMMA ClaimTyped ==
  ASSUME TypeOK, NEW t \in Threads, NEW p \in Requests, NEW why \in {"steering", "turn"},
         NEW next \in {"claim", "after"}, CancelClaim(t, p, why, next), todo' \in [Ops -> SUBSET Requests]
  PROVE  TypeOK'
<1> USE DEF TypeOK
<1>1. /\ claimed' \subseteq Requests
      /\ cause' \in [Requests -> {"none", "steering", "turn", "shutdown", "superseded", "failed"}]
  BY DEF CancelClaim, Live
<1>2. on' \in [Threads -> Requests \cup {None}]
  BY DEF CancelClaim, Live
<1>3. at' \in [Threads -> {"idle", "claim", "apply", "access", "deliver", "settle", "clear",
                         "join", "collect", "wait", "after", "exit", "over"}]
  BY DEF CancelClaim, Live, Goes
<1>4. QED
  BY <1>1, <1>2, <1>3 DEF CancelClaim, channels, effects, contexts, setter

\* A thread that works on a request has one.
LEMMA TypedStep ==
  ASSUME TypeOK, Taken, [Next]_vars PROVE TypeOK'
<1> USE PromptAssumption DEF TypeOK, Taken, Busy, Holding, Delivering, Threads,
        Slots, Kinds, records, channels, effects, contexts, threads, setter
<1>1. CASE \E p \in Requests, k \in Raised, o \in Ops : Register(p, k, o)
  BY <1>1 DEF Register, Goes, SlotOf
<1>2. CASE \E c \in Clients, p \in Requests : Claim(c, p)
  <2>1. PICK c \in Clients, p \in Requests : Claim(c, p)
    BY <1>2
  <2>2. /\ claimed' \subseteq Requests /\ on' = [on EXCEPT ![c] = p]
        /\ at' = [at EXCEPT ![c] = at'[c]] /\ at'[c] \in {"join", "apply"}
    BY <2>1 DEF Claim, Goes
  <2>3. /\ on' \in [Threads -> Requests \cup {None}]
        /\ at' \in [Threads -> {"idle", "claim", "apply", "access", "deliver", "settle", "clear",
                              "join", "collect", "wait", "after", "exit", "over"}]
    BY <2>1, <2>2
  <2>4. /\ UNCHANGED <<kind, op, known, settled, cause, sent, closes, slot, applied, won>>
        /\ UNCHANGED <<intent, done, stopped, life, shut, todo, consent, replaced, result>>
    BY <2>1 DEF Claim
  <2>5. QED
    BY <2>2, <2>3, <2>4
<1>3. CASE \E c \in Clients, ok \in BOOLEAN : Apply(c, ok)
  BY <1>3 DEF Apply, Deliver, Bump, Goes
<1>4. CASE \E c \in Clients : SettleAnswer(c)
  BY <1>4 DEF SettleAnswer, Settle, Goes
<1>5. CASE \E c \in Clients : ClearAnswer(c)
  BY <1>5 DEF ClearAnswer, Vacate, Goes
<1>6. CASE \E c \in Clients : JoinAnswer(c)
  BY <1>6 DEF JoinAnswer, Goes
<1>7. CASE \E p \in Requests, granted \in BOOLEAN : ResolveAccess(p, granted)
  BY <1>7 DEF ResolveAccess, FinishAccess, Vacate, Deliver, Settle, Bump, CtxDone
<1>8. CASE \E o \in Ops : SubmitSendNow(o)
  BY <1>8 DEF SubmitSendNow, Goes
<1>9. CASE \E o \in Ops : CancelTurn(o)
  BY <1>9 DEF CancelTurn
<1>10. CASE \E o \in Ops : Collect(o)
  BY <1>10 DEF Collect, Goes
<1>11. CASE \E o \in Ops, p \in Requests : Interrupt(o, p)
  <2>1. PICK o \in Ops, p \in Requests : Interrupt(o, p)
    BY <1>11
  <2>2. todo' \in [Ops -> SUBSET Requests] /\ CancelClaim(o, p, "steering", "claim") /\ o \in Threads
    BY <2>1 DEF Interrupt
  <2> HIDE DEF TypeOK
  <2>3. QED
    BY <2>2, ClaimTyped
<1>12. CASE \E o \in Ops : CancelOperation(o)
  BY <1>12 DEF CancelOperation, Goes
<1>13. CASE \E t \in Ops \cup Requests : CancelDeliver(t)
  BY <1>13 DEF CancelDeliver, Deliver, Bump, Goes
<1>14. CASE \E t \in Ops \cup Requests : CancelSettle(t)
  BY <1>14 DEF CancelSettle, Goes
<1>15. CASE \E t \in Ops \cup Requests : CancelClear(t)
  BY <1>15 DEF CancelClear, Vacate, Goes, Onward
<1>16. CASE \E t \in Ops \cup Requests : CancelAccess(t)
  BY <1>16 DEF CancelAccess, FinishAccess, Vacate, Deliver, Settle, Bump, Goes, Onward
<1>17. CASE \E t \in Ops \cup Requests : CancelJoin(t)
  BY <1>17 DEF CancelJoin, Goes, Onward
<1>18. CASE \E p \in Requests : Receive(p)
  BY <1>18 DEF Receive, Returns, Received, Cause, Failure, Decision, Goes
<1>19. CASE \E p \in Requests : GiveUp(p)
  <2>1. PICK p \in Requests : GiveUp(p)
    BY <1>19
  <2>2. CASE kind[p] = "access"
    <3>1. CASE slot["approval"] = p
      <4>1. slot' \in [Slots -> Requests \cup {Consent, None}]
        BY <2>1, <2>2, <3>1 DEF GiveUp, FinishAccess, Vacate
      <4>2. /\ sent' \in [Requests -> {"none", "answer", "refused", "cancel"}]
            /\ closes' \in [Requests -> 0..2]
        BY <2>1, <2>2, <3>1 DEF GiveUp, FinishAccess, Deliver, Bump
      <4>3. /\ settled' \subseteq Requests
            /\ cause' \in [Requests -> {"none", "steering", "turn", "shutdown", "superseded", "failed"}]
        BY <2>1, <2>2, <3>1 DEF GiveUp, FinishAccess, Settle
      <4>4. at' \in [Threads -> {"idle", "claim", "apply", "access", "deliver", "settle", "clear",
                               "join", "collect", "wait", "after", "exit", "over"}]
        BY <2>1, <2>2, <3>1 DEF GiveUp, Goes
      <4>5. /\ UNCHANGED <<kind, op, known, claimed, applied, won, on, todo, result>>
            /\ UNCHANGED <<intent, done, stopped, life, shut, consent, replaced>>
        BY <2>1, <2>2, <3>1 DEF GiveUp
      <4>6. QED
        BY <4>1, <4>2, <4>3, <4>4, <4>5
    <3>2. CASE slot["approval"] # p
      BY <2>1, <2>2, <3>2 DEF GiveUp, Goes
    <3>3. QED
      BY <3>1, <3>2
  <2>3. CASE kind[p] # "access"
    <3>1. /\ CancelClaim(p, p, Why(p), "after") /\ p \in Threads
          /\ Why(p) \in {"steering", "turn"} /\ todo' \in [Ops -> SUBSET Requests]
      BY <2>1, <2>3 DEF GiveUp, Why
    <3> HIDE DEF TypeOK
    <3>2. QED
      BY <3>1, ClaimTyped
  <2>4. QED
    BY <2>2, <2>3
<1>20. CASE \E p \in Requests : AfterCancel(p)
  BY <1>20 DEF AfterCancel, Returns, Received, Cause, Failure, Decision, Goes
<1>21. CASE \E p \in Requests : ClearPrompt(p)
  BY <1>21 DEF ClearPrompt, Vacate, Goes
<1>22. CASE AskConsent
  BY <1>22 DEF AskConsent, SetPendingApproval
<1>23. CASE EndConsent
  BY <1>23 DEF EndConsent, SetPendingApproval
<1>24. CASE Supersede
  BY <1>24 DEF Supersede, Settle, Deliver, Bump
<1>25. CASE BeginQuiesce
  BY <1>25 DEF BeginQuiesce
<1>26. CASE Shutdown
  BY <1>26 DEF Shutdown
<1>27. CASE ResolvePendingForShutdown
  BY <1>27 DEF ResolvePendingForShutdown, Deliver, Bump
<1>28. CASE UNCHANGED vars
  BY <1>28 DEF vars
<1> HIDE DEF TypeOK, Taken, Busy, Holding, Delivering, Threads, Slots, Kinds,
         records, channels, effects, contexts, threads, setter
<1>29. QED
  BY <1>1, <1>2, <1>3, <1>4, <1>5, <1>6, <1>7, <1>8, <1>9, <1>10, <1>11, <1>12, <1>13,
     <1>14, <1>15, <1>16, <1>17, <1>18, <1>19, <1>20, <1>21, <1>22, <1>23, <1>24, <1>25,
     <1>26, <1>27, <1>28 DEF Next, Client, Cancel, Worker, Waiter

\* Every claim is exclusive, and no section delivers what another may deliver.
LEMMA TakenStep ==
  ASSUME TypeOK, Taken, [Next]_vars PROVE Taken'
<1> USE PromptAssumption DEF TypeOK, Taken, Busy, Holding, Delivering, Threads,
        Slots, Kinds, records, channels, effects, contexts, threads, setter
<1>1. CASE \E p \in Requests, k \in Raised, o \in Ops : Register(p, k, o)
  BY <1>1, SlotsOfKinds DEF Register, Goes
<1>2. CASE \E c \in Clients, p \in Requests : Claim(c, p)
  BY <1>2 DEF Claim, Live, Goes
<1>3. CASE \E c \in Clients, ok \in BOOLEAN : Apply(c, ok)
  BY <1>3 DEF Apply, Deliver, Bump, Goes
<1>4. CASE \E c \in Clients : SettleAnswer(c)
  BY <1>4 DEF SettleAnswer, Settle, Goes
<1>5. CASE \E c \in Clients : ClearAnswer(c)
  BY <1>5 DEF ClearAnswer, Vacate, Goes
<1>6. CASE \E c \in Clients : JoinAnswer(c)
  BY <1>6 DEF JoinAnswer, Goes
<1>7. CASE \E p \in Requests, granted \in BOOLEAN : ResolveAccess(p, granted)
  BY <1>7 DEF ResolveAccess, FinishAccess, Vacate, Deliver, Settle, Bump, CtxDone
<1>8. CASE \E o \in Ops : SubmitSendNow(o)
  BY <1>8 DEF SubmitSendNow, Goes
<1>9. CASE \E o \in Ops : CancelTurn(o)
  BY <1>9 DEF CancelTurn
<1>10. CASE \E o \in Ops : Collect(o)
  BY <1>10 DEF Collect, Goes
<1>11. CASE \E o \in Ops, p \in Requests : Interrupt(o, p)
  BY <1>11 DEF Interrupt, CancelClaim, Live, Goes
<1>12. CASE \E o \in Ops : CancelOperation(o)
  BY <1>12 DEF CancelOperation, Goes
<1>13. CASE \E t \in Ops \cup Requests : CancelDeliver(t)
  BY <1>13 DEF CancelDeliver, Deliver, Bump, Goes
<1>14. CASE \E t \in Ops \cup Requests : CancelSettle(t)
  BY <1>14 DEF CancelSettle, Goes
<1>15. CASE \E t \in Ops \cup Requests : CancelClear(t)
  BY <1>15 DEF CancelClear, Vacate, Goes, Onward
<1>16. CASE \E t \in Ops \cup Requests : CancelAccess(t)
  <2>1. PICK t \in Ops \cup Requests : CancelAccess(t)
    BY <1>16
  <2>2. t \in Threads /\ on[t] \in Requests /\ on[t] \in claimed /\ at[t] = "access"
    BY <2>1 DEF CancelAccess
  <2>3. CASE slot["approval"] = on[t]
    BY <2>1, <2>2, <2>3, SMTT(20) DEF CancelAccess, FinishAccess, Vacate, Deliver, Settle, Bump,
       Goes, Onward
  <2>4. CASE slot["approval"] # on[t]
    BY <2>1, <2>2, <2>4 DEF CancelAccess, Settle, Goes, Onward
  <2>5. QED
    BY <2>3, <2>4
<1>17. CASE \E t \in Ops \cup Requests : CancelJoin(t)
  BY <1>17 DEF CancelJoin, Goes, Onward
<1>18. CASE \E p \in Requests : Receive(p)
  BY <1>18 DEF Receive, Returns, Received, Cause, Failure, Decision, Goes
<1>19. CASE \E p \in Requests : GiveUp(p)
  <2>1. PICK p \in Requests : GiveUp(p)
    BY <1>19
  <2>2. p \in Threads /\ p \notin Clients
    OBVIOUS
  <2>3. CASE kind[p] = "access"
    <3>1. CASE slot["approval"] = p
      BY <2>1, <2>2, <2>3, <3>1, SMTT(30) DEF GiveUp, FinishAccess, Vacate, Deliver, Settle, Bump, Goes
    <3>2. CASE slot["approval"] # p
      BY <2>1, <2>2, <2>3, <3>2 DEF GiveUp, Goes
    <3>3. QED
      BY <3>1, <3>2
  <2>4. CASE kind[p] # "access"
    <3>1. CASE ~Live(p)
      BY <2>1, <2>2, <2>4, <3>1, SMTT(60) DEF GiveUp, CancelClaim, Goes, Live
    <3>2. CASE Live(p) /\ p \in claimed
      BY <2>1, <2>2, <2>4, <3>2, SMTT(60) DEF GiveUp, CancelClaim, Goes, Live
    <3>3. CASE Live(p) /\ p \notin claimed
      BY <2>1, <2>2, <2>4, <3>3, SMTT(60) DEF GiveUp, Why, CancelClaim, Goes, Live
    <3>4. QED
      BY <3>1, <3>2, <3>3
  <2>5. QED
    BY <2>3, <2>4
<1>20. CASE \E p \in Requests : AfterCancel(p)
  BY <1>20 DEF AfterCancel, Returns, Received, Cause, Failure, Decision, Goes
<1>21. CASE \E p \in Requests : ClearPrompt(p)
  BY <1>21 DEF ClearPrompt, Vacate, Goes
<1>22. CASE AskConsent
  BY <1>22, SMTT(20) DEF AskConsent, SetPendingApproval
<1>23. CASE EndConsent
  BY <1>23 DEF EndConsent, SetPendingApproval
<1>24. CASE Supersede
  BY <1>24 DEF Supersede, Settle, Deliver, Bump
<1>25. CASE BeginQuiesce
  BY <1>25 DEF BeginQuiesce
<1>26. CASE Shutdown
  BY <1>26 DEF Shutdown
<1>27. CASE ResolvePendingForShutdown
  BY <1>27 DEF ResolvePendingForShutdown, Deliver, Bump
<1>28. CASE UNCHANGED vars
  BY <1>28 DEF vars
<1> HIDE DEF TypeOK, Taken, Busy, Holding, Delivering, Threads, Slots, Kinds,
         records, channels, effects, contexts, threads, setter
<1>29. QED
  BY <1>1, <1>2, <1>3, <1>4, <1>5, <1>6, <1>7, <1>8, <1>9, <1>10, <1>11, <1>12, <1>13,
     <1>14, <1>15, <1>16, <1>17, <1>18, <1>19, <1>20, <1>21, <1>22, <1>23, <1>24, <1>25,
     <1>26, <1>27, <1>28 DEF Next, Client, Cancel, Worker, Waiter

\* Every cancellation leaves its cause before its sentinel.
LEMMA ToldStep ==
  ASSUME TypeOK, Taken, Told, [Next]_vars PROVE Told'
<1> USE PromptAssumption DEF TypeOK, Taken, Told, NoFabricatedAnswer, Busy, Holding,
        Delivering, Threads, Slots, Kinds, records, channels, effects, contexts, threads,
        setter
<1>1. CASE \E p \in Requests, k \in Raised, o \in Ops : Register(p, k, o)
  BY <1>1, SlotsOfKinds DEF Register, Goes
<1>2. CASE \E c \in Clients, p \in Requests : Claim(c, p)
  <2>1. PICK c \in Clients, p \in Requests : Claim(c, p)
    BY <1>2
  <2>2. /\ at' = [at EXCEPT ![c] = at'[c]] /\ at'[c] \in {"join", "apply"}
        /\ on' = [on EXCEPT ![c] = p]
        /\ UNCHANGED <<kind, known, cause, sent, result>>
    BY <2>1 DEF Claim, Goes
  <2>3. QED
    BY <2>2
<1>3. CASE \E c \in Clients, ok \in BOOLEAN : Apply(c, ok)
  BY <1>3 DEF Apply, Deliver, Bump, Goes
<1>4. CASE \E c \in Clients : SettleAnswer(c)
  BY <1>4 DEF SettleAnswer, Settle, Goes
<1>5. CASE \E c \in Clients : ClearAnswer(c)
  BY <1>5 DEF ClearAnswer, Vacate, Goes
<1>6. CASE \E c \in Clients : JoinAnswer(c)
  BY <1>6 DEF JoinAnswer, Goes
<1>7. CASE \E p \in Requests, granted \in BOOLEAN : ResolveAccess(p, granted)
  BY <1>7 DEF ResolveAccess, FinishAccess, Vacate, Deliver, Settle, Bump, CtxDone
<1>8. CASE \E o \in Ops : SubmitSendNow(o)
  BY <1>8 DEF SubmitSendNow, Goes
<1>9. CASE \E o \in Ops : CancelTurn(o)
  BY <1>9 DEF CancelTurn
<1>10. CASE \E o \in Ops : Collect(o)
  BY <1>10 DEF Collect, Goes
<1>11. CASE \E o \in Ops, p \in Requests : Interrupt(o, p)
  <2>1. PICK o \in Ops, p \in Requests : Interrupt(o, p)
    BY <1>11
  <2>2. o \in Threads /\ o \notin Clients /\ UNCHANGED <<kind, known, sent, result>>
    BY <2>1 DEF Interrupt, CancelClaim
  <2>3. CASE Live(p) /\ p \notin claimed
    <3>1. /\ cause' = [cause EXCEPT ![p] = "steering"] /\ on' = [on EXCEPT ![o] = p]
          /\ at' = [at EXCEPT ![o] = at'[o]] /\ at'[o] \in {"access", "deliver"}
      BY <2>1, <2>3 DEF Interrupt, CancelClaim, Goes
    <3>2. QED
      BY <2>2, <3>1, SMTT(20)
  <2>4. CASE ~(Live(p) /\ p \notin claimed)
    BY <2>1, <2>2, <2>4, SMTT(20) DEF Interrupt, CancelClaim, Live, Goes
  <2>5. QED
    BY <2>3, <2>4
<1>12. CASE \E o \in Ops : CancelOperation(o)
  BY <1>12 DEF CancelOperation, Goes
<1>13. CASE \E t \in Ops \cup Requests : CancelDeliver(t)
  BY <1>13 DEF CancelDeliver, Deliver, Bump, Goes
<1>14. CASE \E t \in Ops \cup Requests : CancelSettle(t)
  BY <1>14 DEF CancelSettle, Goes
<1>15. CASE \E t \in Ops \cup Requests : CancelClear(t)
  BY <1>15 DEF CancelClear, Vacate, Goes, Onward
<1>16. CASE \E t \in Ops \cup Requests : CancelAccess(t)
  <2>1. PICK t \in Ops \cup Requests : CancelAccess(t)
    BY <1>16
  <2>2. t \in Threads /\ on[t] \in Requests /\ on[t] \in claimed /\ at[t] = "access"
    BY <2>1 DEF CancelAccess
  <2>3. CASE slot["approval"] = on[t]
    BY <2>1, <2>2, <2>3 DEF CancelAccess, FinishAccess, Vacate, Deliver, Settle, Bump, Goes, Onward
  <2>4. CASE slot["approval"] # on[t]
    BY <2>1, <2>2, <2>4 DEF CancelAccess, Settle, Goes, Onward
  <2>5. QED
    BY <2>3, <2>4
<1>17. CASE \E t \in Ops \cup Requests : CancelJoin(t)
  BY <1>17 DEF CancelJoin, Goes, Onward
<1>18. CASE \E p \in Requests : Receive(p)
  BY <1>18 DEF Receive, Returns, Received, Cause, Failure, Decision, Goes
<1>19. CASE \E p \in Requests : GiveUp(p)
  <2>1. PICK p \in Requests : GiveUp(p)
    BY <1>19
  <2>2. p \in Threads /\ p \notin Clients
    OBVIOUS
  <2>3. CASE kind[p] = "access"
    BY <2>1, <2>2, <2>3 DEF GiveUp, FinishAccess, Vacate, Deliver, Settle, Bump, Goes
  <2>4. CASE kind[p] # "access"
    BY <2>1, <2>2, <2>4, SMTT(20) DEF GiveUp, Why, CancelClaim, Live, Goes
  <2>5. QED
    BY <2>3, <2>4
<1>20. CASE \E p \in Requests : AfterCancel(p)
  BY <1>20 DEF AfterCancel, Returns, Received, Cause, Failure, Decision, Goes
<1>21. CASE \E p \in Requests : ClearPrompt(p)
  BY <1>21 DEF ClearPrompt, Vacate, Goes
<1>22. CASE AskConsent
  BY <1>22 DEF AskConsent, SetPendingApproval
<1>23. CASE EndConsent
  BY <1>23 DEF EndConsent, SetPendingApproval
<1>24. CASE Supersede
  BY <1>24 DEF Supersede, Settle, Deliver, Bump
<1>25. CASE BeginQuiesce
  BY <1>25 DEF BeginQuiesce
<1>26. CASE Shutdown
  BY <1>26 DEF Shutdown
<1>27. CASE ResolvePendingForShutdown
  BY <1>27 DEF ResolvePendingForShutdown, Deliver, Bump
<1>28. CASE UNCHANGED vars
  BY <1>28 DEF vars
<1> HIDE DEF TypeOK, Taken, Told, NoFabricatedAnswer, Busy, Holding, Delivering,
         Threads, Slots, Kinds, records, channels, effects, contexts, threads, setter
<1>29. QED
  BY <1>1, <1>2, <1>3, <1>4, <1>5, <1>6, <1>7, <1>8, <1>9, <1>10, <1>11, <1>12, <1>13,
     <1>14, <1>15, <1>16, <1>17, <1>18, <1>19, <1>20, <1>21, <1>22, <1>23, <1>24, <1>25,
     <1>26, <1>27, <1>28 DEF Next, Client, Cancel, Worker, Waiter

\* Every section that clears a slot clears its own request.
LEMMA ShownStep ==
  ASSUME TypeOK, Taken, Shown, [Next]_vars PROVE Shown'
<1> USE PromptAssumption DEF TypeOK, Taken, Shown, Answerable, Live, Busy, Holding,
        Delivering, Threads, Slots, Kinds, records, channels, effects, contexts, threads,
        setter
<1>1. CASE \E p \in Requests, k \in Raised, o \in Ops : Register(p, k, o)
  BY <1>1, SlotsOfKinds DEF Register, Goes
<1>2. CASE \E c \in Clients, p \in Requests : Claim(c, p)
  BY <1>2 DEF Claim, Live, Goes
<1>3. CASE \E c \in Clients, ok \in BOOLEAN : Apply(c, ok)
  BY <1>3 DEF Apply, Deliver, Bump, Goes
<1>4. CASE \E c \in Clients : SettleAnswer(c)
  BY <1>4 DEF SettleAnswer, Settle, Goes
<1>5. CASE \E c \in Clients : ClearAnswer(c)
  BY <1>5, SlotsOfKinds DEF ClearAnswer, Vacate, Goes
<1>6. CASE \E c \in Clients : JoinAnswer(c)
  BY <1>6 DEF JoinAnswer, Goes
<1>7. CASE \E p \in Requests, granted \in BOOLEAN : ResolveAccess(p, granted)
  BY <1>7, SlotsOfKinds DEF ResolveAccess, FinishAccess, Vacate, Deliver, Settle, Bump,
     CtxDone
<1>8. CASE \E o \in Ops : SubmitSendNow(o)
  BY <1>8 DEF SubmitSendNow, Goes
<1>9. CASE \E o \in Ops : CancelTurn(o)
  BY <1>9 DEF CancelTurn
<1>10. CASE \E o \in Ops : Collect(o)
  BY <1>10 DEF Collect, Goes
<1>11. CASE \E o \in Ops, p \in Requests : Interrupt(o, p)
  BY <1>11 DEF Interrupt, CancelClaim, Live, Goes
<1>12. CASE \E o \in Ops : CancelOperation(o)
  BY <1>12 DEF CancelOperation, Goes
<1>13. CASE \E t \in Ops \cup Requests : CancelDeliver(t)
  BY <1>13 DEF CancelDeliver, Deliver, Bump, Goes
<1>14. CASE \E t \in Ops \cup Requests : CancelSettle(t)
  BY <1>14 DEF CancelSettle, Goes
<1>15. CASE \E t \in Ops \cup Requests : CancelClear(t)
  BY <1>15, SlotsOfKinds DEF CancelClear, Vacate, Goes, Onward
<1>16. CASE \E t \in Ops \cup Requests : CancelAccess(t)
  <2>1. PICK t \in Ops \cup Requests : CancelAccess(t)
    BY <1>16
  <2>2. t \in Threads /\ on[t] \in Requests /\ on[t] \in claimed /\ at[t] = "access"
    BY <2>1 DEF CancelAccess
  <2>3. CASE slot["approval"] = on[t]
    BY <2>1, <2>2, <2>3, SlotsOfKinds, SMTT(20) DEF CancelAccess, FinishAccess, Vacate, Deliver, Settle, Bump, Goes,
       Onward
  <2>4. CASE slot["approval"] # on[t]
    BY <2>1, <2>2, <2>4, SlotsOfKinds DEF CancelAccess, Settle, Goes, Onward
  <2>5. QED
    BY <2>3, <2>4
<1>17. CASE \E t \in Ops \cup Requests : CancelJoin(t)
  BY <1>17 DEF CancelJoin, Goes, Onward
<1>18. CASE \E p \in Requests : Receive(p)
  BY <1>18 DEF Receive, Returns, Received, Cause, Failure, Decision, Goes
<1>19. CASE \E p \in Requests : GiveUp(p)
  <2>1. PICK p \in Requests : GiveUp(p)
    BY <1>19
  <2>2. CASE kind[p] = "access"
    BY <2>1, <2>2, SlotsOfKinds, SMTT(20) DEF GiveUp, FinishAccess, Vacate, Deliver, Settle, Bump, Goes
  <2>3. CASE kind[p] # "access"
    BY <2>1, <2>3 DEF GiveUp, CancelClaim, Live, Goes
  <2>4. QED
    BY <2>2, <2>3
<1>20. CASE \E p \in Requests : AfterCancel(p)
  BY <1>20 DEF AfterCancel, Returns, Received, Cause, Failure, Decision, Goes
<1>21. CASE \E p \in Requests : ClearPrompt(p)
  BY <1>21, SlotsOfKinds DEF ClearPrompt, Vacate, Goes
<1>22. CASE AskConsent
  BY <1>22, SlotsOfKinds DEF AskConsent, SetPendingApproval
<1>23. CASE EndConsent
  BY <1>23, SlotsOfKinds DEF EndConsent, SetPendingApproval
<1>24. CASE Supersede
  BY <1>24 DEF Supersede, Settle, Deliver, Bump
<1>25. CASE BeginQuiesce
  BY <1>25 DEF BeginQuiesce
<1>26. CASE Shutdown
  BY <1>26 DEF Shutdown
<1>27. CASE ResolvePendingForShutdown
  BY <1>27 DEF ResolvePendingForShutdown, Deliver, Bump
<1>28. CASE UNCHANGED vars
  BY <1>28 DEF vars
<1> HIDE DEF TypeOK, Taken, Shown, Answerable, Live, Busy, Holding, Delivering,
         Threads, Slots, Kinds, records, channels, effects, contexts, threads, setter
<1>29. QED
  BY <1>1, <1>2, <1>3, <1>4, <1>5, <1>6, <1>7, <1>8, <1>9, <1>10, <1>11, <1>12, <1>13,
     <1>14, <1>15, <1>16, <1>17, <1>18, <1>19, <1>20, <1>21, <1>22, <1>23, <1>24, <1>25,
     <1>26, <1>27, <1>28 DEF Next, Client, Cancel, Worker, Waiter

\* No section parts an answer in flight from its waiter.
LEMMA HeardStep ==
  ASSUME TypeOK, Taken, Told, Heard, [Next]_vars PROVE Heard'
<1> USE PromptAssumption DEF TypeOK, Taken, Told, Heard, Read, Live, Busy, Holding,
        Delivering, Threads, Slots, Kinds, records, channels, effects, contexts, threads,
        setter
<1>1. CASE \E p \in Requests, k \in Raised, o \in Ops : Register(p, k, o)
  BY <1>1, SlotsOfKinds DEF Register, Goes
<1>2. CASE \E c \in Clients, p \in Requests : Claim(c, p)
  <2>1. PICK c \in Clients, p \in Requests : Claim(c, p)
    BY <1>2
  <2>2. /\ at' = [at EXCEPT ![c] = at'[c]] /\ at'[c] \in {"join", "apply"}
        /\ on' = [on EXCEPT ![c] = p]
        /\ UNCHANGED <<kind, known, settled, cause, sent, slot, won, life, shut, result>>
    BY <2>1 DEF Claim, Goes
  <2>3. Live(p) /\ kind[p] # "access" /\ c \notin Requests
    BY <2>1 DEF Claim
  <2>4. at'[c] = "apply" => p \notin claimed /\ cause[p] = "none" /\ at[p] = "wait"
    BY <2>1, <2>3 DEF Claim, Goes
  <2>5. claimed \subseteq claimed'
    BY <2>1 DEF Claim
  <2>6. \A t \in Threads : t # c => at'[t] = at[t] /\ on'[t] = on[t]
    BY <2>2
  <2>7. at'[c] \in {"join", "apply"} /\ on'[c] = p
    BY <2>2
  <2>8. QED
    BY <2>2, <2>3, <2>4, <2>5, <2>6, <2>7, SMTT(20)
<1>3. CASE \E c \in Clients, ok \in BOOLEAN : Apply(c, ok)
  BY <1>3 DEF Apply, Deliver, Bump, Goes
<1>4. CASE \E c \in Clients : SettleAnswer(c)
  BY <1>4 DEF SettleAnswer, Settle, Goes
<1>5. CASE \E c \in Clients : ClearAnswer(c)
  BY <1>5 DEF ClearAnswer, Vacate, Goes
<1>6. CASE \E c \in Clients : JoinAnswer(c)
  BY <1>6 DEF JoinAnswer, Goes
<1>7. CASE \E p \in Requests, granted \in BOOLEAN : ResolveAccess(p, granted)
  BY <1>7 DEF ResolveAccess, FinishAccess, Vacate, Deliver, Settle, Bump, CtxDone
<1>8. CASE \E o \in Ops : SubmitSendNow(o)
  BY <1>8 DEF SubmitSendNow, Goes
<1>9. CASE \E o \in Ops : CancelTurn(o)
  BY <1>9 DEF CancelTurn
<1>10. CASE \E o \in Ops : Collect(o)
  BY <1>10 DEF Collect, Goes
<1>11. CASE \E o \in Ops, p \in Requests : Interrupt(o, p)
  <2>1. PICK o \in Ops, p \in Requests : Interrupt(o, p)
    BY <1>11
  <2>2. o \in Threads /\ o \notin Clients /\ UNCHANGED <<kind, known, sent, result>>
    BY <2>1 DEF Interrupt, CancelClaim
  <2>3. CASE Live(p) /\ p \notin claimed
    <3>1. /\ cause' = [cause EXCEPT ![p] = "steering"] /\ on' = [on EXCEPT ![o] = p]
          /\ at' = [at EXCEPT ![o] = at'[o]] /\ at'[o] \in {"access", "deliver"}
      BY <2>1, <2>3 DEF Interrupt, CancelClaim, Goes
    <3>2. \A t \in Threads : at'[t] = IF t = o THEN at'[o] ELSE at[t]
      BY <2>2, <3>1
    <3>3. settled' = settled /\ claimed' = claimed \cup {p} /\ UNCHANGED <<life, shut, won, slot>>
      BY <2>1, <2>3 DEF Interrupt, CancelClaim
    <3>4. p \in Requests /\ o \notin Requests /\ at[o] = "claim"
      BY <2>1 DEF Interrupt
    <3>5. \A c \in Clients : at'[c] = at[c] /\ on'[c] = on[c]
      BY <2>2, <3>1, <3>2
    <3>6. \A q \in Requests : at'[q] = at[q] /\ on'[q] = on[q]
      BY <3>1, <3>2, <3>4
    <3>7. \A c \in Clients : at[c] = "apply" => on[c] # p
      BY <2>3
    <3>8. sent[p] = "none" \/ kind[p] = "access"
      BY <2>3
    <3>9. \A q \in Requests : q # p => cause'[q] = cause[q]
      BY <3>1
    <3>10. QED
      BY <2>2, <2>3, <3>1, <3>2, <3>3, <3>4, <3>5, <3>6, <3>7, <3>8, <3>9, SMTT(20)
  <2>4. CASE ~(Live(p) /\ p \notin claimed)
    BY <2>1, <2>2, <2>4, SMTT(20) DEF Interrupt, CancelClaim, Live, Goes
  <2>5. QED
    BY <2>3, <2>4
<1>12. CASE \E o \in Ops : CancelOperation(o)
  BY <1>12 DEF CancelOperation, Goes
<1>13. CASE \E t \in Ops \cup Requests : CancelDeliver(t)
  BY <1>13 DEF CancelDeliver, Deliver, Bump, Goes
<1>14. CASE \E t \in Ops \cup Requests : CancelSettle(t)
  BY <1>14 DEF CancelSettle, Goes
<1>15. CASE \E t \in Ops \cup Requests : CancelClear(t)
  <2>1. PICK t \in Ops \cup Requests : CancelClear(t)
    BY <1>15
  <2>2. /\ t \in Threads /\ t \notin Clients /\ on[t] \in claimed /\ sent[on[t]] = "cancel"
        /\ (t \in Requests => on[t] = t)
    BY <2>1 DEF CancelClear
  <2>3. \A u \in Threads : u # t => at'[u] = at[u] /\ on'[u] = on[u]
    BY <2>1 DEF CancelClear, Goes
  <2>4. at'[t] = IF t \in Ops THEN "claim" ELSE "after"
    BY <2>1, <2>2 DEF CancelClear, Goes, Onward
  <2>5. \A s \in Slots : slot'[s] = slot[s] \/ slot'[s] = None
    BY <2>1 DEF CancelClear, Vacate
  <2>6. UNCHANGED <<kind, known, settled, claimed, cause, sent, won, life, shut, result>>
    BY <2>1 DEF CancelClear
  <2>7. at[t] = "clear"
    BY <2>1 DEF CancelClear
  <2>8. \A c \in Clients : at[c] = "apply" => on[c] # on[t]
    BY <2>2
  <2>9. CASE t \in Ops
    <3>1. \A q \in Requests : at'[q] = at[q] /\ on'[q] = on[q]
      BY <2>3, <2>9
    <3>2. at'[t] = "claim"
      BY <2>4, <2>9
    <3>3. QED
      BY <2>2, <2>3, <2>5, <2>6, <3>1, <3>2, SMTT(30)
  <2>10. CASE t \in Requests
    <3>1. at'[t] = "after"
      BY <2>4, <2>10
    <3>2. t \in claimed /\ sent[t] = "cancel" /\ (slot["approval"] = t => kind[t] # "access")
      BY <2>2, <2>7, <2>10
    <3>3. TypeOK /\ Heard
      OBVIOUS
    <3> HIDE DEF Taken, Told
    <3>4. QED
      BY <2>2, <2>3, <2>5, <2>6, <2>7, <2>8, <2>10, <3>1, <3>2, <3>3, SMTT(20)
  <2>11. QED
    BY <2>9, <2>10
<1>16. CASE \E t \in Ops \cup Requests : CancelAccess(t)
  <2>1. PICK t \in Ops \cup Requests : CancelAccess(t)
    BY <1>16
  <2>2. t \in Threads /\ on[t] \in Requests /\ on[t] \in claimed /\ at[t] = "access"
    BY <2>1 DEF CancelAccess
  <2>3. CASE slot["approval"] = on[t]
    BY <2>1, <2>2, <2>3 DEF CancelAccess, FinishAccess, Vacate, Deliver, Settle, Bump, Goes, Onward
  <2>4. CASE slot["approval"] # on[t]
    BY <2>1, <2>2, <2>4 DEF CancelAccess, Settle, Goes, Onward
  <2>5. QED
    BY <2>3, <2>4
<1>17. CASE \E t \in Ops \cup Requests : CancelJoin(t)
  <2>1. PICK t \in Ops \cup Requests : CancelJoin(t)
    BY <1>17
  <2>2. t \in Threads /\ t \notin Clients /\ at[t] = "join" /\ (t \in Requests => on[t] = t)
    BY <2>1 DEF CancelJoin
  <2>3. \A u \in Threads : u # t => at'[u] = at[u] /\ on'[u] = on[u]
    BY <2>1 DEF CancelJoin, Goes
  <2>4. at'[t] = IF t \in Ops THEN "claim" ELSE "after"
    BY <2>1, <2>2 DEF CancelJoin, Goes, Onward
  <2>5. UNCHANGED <<kind, known, settled, claimed, cause, sent, slot, won, life, shut, result>>
    BY <2>1 DEF CancelJoin
  <2>6. t \in Requests => t \in settled \/ life = "over"
    BY <2>1, <2>2 DEF CancelJoin, Joined
  <2>7. CASE t \in Ops
    <3>1. \A q \in Requests : at'[q] = at[q] /\ on'[q] = on[q]
      BY <2>3, <2>7
    <3>2. at'[t] = "claim"
      BY <2>4, <2>7
    <3>3. TypeOK /\ Heard
      OBVIOUS
    <3> HIDE DEF Taken, Told
    <3>4. QED
      BY <2>2, <2>3, <2>5, <3>1, <3>2, <3>3, SMTT(20)
  <2>8. CASE t \in Requests
    <3>1. at'[t] = "after" /\ on[t] = t /\ (t \in settled \/ life = "over")
      BY <2>2, <2>4, <2>6, <2>8
    <3>2. TypeOK /\ Heard
      OBVIOUS
    <3> HIDE DEF Taken, Told
    <3>3. QED
      BY <2>2, <2>3, <2>5, <2>8, <3>1, <3>2
  <2>9. QED
    BY <2>7, <2>8
<1>18. CASE \E p \in Requests : Receive(p)
  BY <1>18 DEF Receive, Returns, Received, Cause, Failure, Decision, Goes
<1>19. CASE \E p \in Requests : GiveUp(p)
  <2>1. PICK p \in Requests : GiveUp(p)
    BY <1>19
  <2>2. p \in Threads /\ p \notin Clients
    OBVIOUS
  <2>3. CASE kind[p] = "access"
    <3>1. CASE slot["approval"] = p
      BY <2>1, <2>2, <2>3, <3>1, SMTT(30) DEF GiveUp, FinishAccess, Vacate, Deliver, Settle, Bump, Goes
    <3>2. CASE slot["approval"] # p
      BY <2>1, <2>2, <2>3, <3>2 DEF GiveUp, Goes
    <3>3. QED
      BY <3>1, <3>2
  <2>4. CASE kind[p] # "access"
    <3>1. at[p] = "wait" /\ \A u \in Threads : u # p => at'[u] = at[u] /\ on'[u] = on[u]
      BY <2>1, <2>2, <2>4 DEF GiveUp, CancelClaim, Goes
    <3>2. UNCHANGED <<kind, known, settled, sent, slot, won, life, shut, result>>
      BY <2>1, <2>4 DEF GiveUp, CancelClaim
    <3>3. TypeOK /\ Heard
      OBVIOUS
    <3>4. CASE ~Live(p)
      <4>1. at'[p] = "after" /\ on'[p] = None
        BY <2>1, <2>2, <2>4, <3>4 DEF GiveUp, CancelClaim, Goes
      <4>2. claimed' = claimed /\ cause' = cause
        BY <2>1, <2>4, <3>4 DEF GiveUp, CancelClaim
      <4> HIDE DEF Taken, Told
      <4>3. QED
        BY <2>2, <2>4, <3>1, <3>2, <3>3, <3>4, <4>1, <4>2, SMTT(30)
    <3>5. CASE Live(p) /\ p \in claimed
      <4>1. at'[p] = "join" /\ on'[p] = p
        BY <2>1, <2>2, <2>4, <3>5 DEF GiveUp, CancelClaim, Goes
      <4>2. claimed' = claimed /\ cause' = cause
        BY <2>1, <2>4, <3>5 DEF GiveUp, CancelClaim
      <4> HIDE DEF Taken, Told
      <4>3. QED
        BY <2>2, <2>4, <3>1, <3>2, <3>3, <3>5, <4>1, <4>2, SMTT(30)
    <3>6. CASE Live(p) /\ p \notin claimed
      <4>1. at'[p] = "deliver" /\ on'[p] = p
        BY <2>1, <2>2, <2>4, <3>6 DEF GiveUp, CancelClaim, Goes
      <4>2. claimed' = claimed \cup {p} /\ \A q \in Requests : q # p => cause'[q] = cause[q]
        BY <2>1, <2>4, <3>6 DEF GiveUp, CancelClaim
      <4>3. sent[p] = "none" /\ \A c \in Clients : at[c] = "apply" => on[c] \in Requests \ {p}
        BY <2>4, <3>6
      <4> HIDE DEF Taken, Told
      <4>4. \A q \in Requests :
              kind'[q] # "access" /\ (q \notin claimed' \/ sent'[q] = "answer") => cause'[q] = "none"
        BY <3>2, <3>3, <4>2, <4>3
      <4>5. \A c \in Clients : at'[c] = "apply" => cause'[on'[c]] = "none"
        BY <2>2, <3>1, <3>3, <4>2, <4>3
      <4>6. \A t \in Threads : at'[t] \in {"settle", "clear"} =>
              sent'[on'[t]] # "none" /\ (t \notin Clients => sent'[on'[t]] = "cancel")
        BY <3>1, <3>2, <3>3, <4>1
      <4>7. \A q \in Requests : at'[q] \in Busy => on'[q] = q
        BY <2>2, <3>1, <3>3, <4>1
      <4>8. \A q \in Requests : at'[q] \notin {"exit", "over"} => result'[q] = "none"
        BY <3>1, <3>2, <3>3, <4>1
      <4>9. \A q \in known' \ (settled' \cup claimed') : kind'[q] # "access" => at'[q] = "wait"
        BY <2>2, <3>1, <3>2, <3>3, <4>2
      <4>10. \A q \in Requests : kind'[q] = "access" /\ slot'["approval"] = q => at'[q] = "wait"
        BY <2>2, <2>4, <3>1, <3>2, <3>3
      <4>11. \A c \in Clients : at'[c] = "apply" /\ ~shut' /\ life' # "over" =>
               on'[c] \in known' \ settled' /\ at'[on'[c]] \in {"wait", "join"}
        BY <2>2, <3>1, <3>2, <3>3, <4>3
      <4>12. \A q \in Requests : sent'[q] = "answer" /\ ~shut' /\ life' # "over" =>
               /\ kind'[q] # "access" /\ at'[q] \in {"wait", "join", "after"} => q \in known'
               /\ kind'[q] \in Read /\ result'[q] # "none" => result'[q] = "answer"
        BY <3>1, <3>2, <3>3, <4>3
      <4>13. \A q \in won' : sent'[q] = "answer"
        BY <3>2, <3>3
      <4>14. QED
        BY <4>4, <4>5, <4>6, <4>7, <4>8, <4>9, <4>10, <4>11, <4>12, <4>13
    <3>7. QED
      BY <3>4, <3>5, <3>6
  <2>5. QED
    BY <2>3, <2>4
<1>20. CASE \E p \in Requests : AfterCancel(p)
  BY <1>20 DEF AfterCancel, Returns, Received, Cause, Failure, Decision, Goes
<1>21. CASE \E p \in Requests : ClearPrompt(p)
  BY <1>21 DEF ClearPrompt, Vacate, Goes
<1>22. CASE AskConsent
  BY <1>22 DEF AskConsent, SetPendingApproval
<1>23. CASE EndConsent
  BY <1>23 DEF EndConsent, SetPendingApproval
<1>24. CASE Supersede
  BY <1>24 DEF Supersede, Settle, Deliver, Bump
<1>25. CASE BeginQuiesce
  BY <1>25 DEF BeginQuiesce
<1>26. CASE Shutdown
  BY <1>26 DEF Shutdown
<1>27. CASE ResolvePendingForShutdown
  BY <1>27 DEF ResolvePendingForShutdown, Deliver, Bump
<1>28. CASE UNCHANGED vars
  BY <1>28 DEF vars
<1> HIDE DEF TypeOK, Taken, Told, Heard, Read, Live, Busy, Holding, Delivering,
         Threads, Slots, Kinds, records, channels, effects, contexts, threads, setter
<1>29. QED
  BY <1>1, <1>2, <1>3, <1>4, <1>5, <1>6, <1>7, <1>8, <1>9, <1>10, <1>11, <1>12, <1>13,
     <1>14, <1>15, <1>16, <1>17, <1>18, <1>19, <1>20, <1>21, <1>22, <1>23, <1>24, <1>25,
     <1>26, <1>27, <1>28 DEF Next, Client, Cancel, Worker, Waiter

-----------------------------------------------------------------------------
LEMMA Start == Init => IInv
<1> SUFFICES ASSUME Init PROVE IInv
  OBVIOUS
<1>1. TypeOK
  <2>1. /\ kind \in [Requests -> Kinds \cup {None}] /\ op \in [Requests -> Ops \cup {None}]
        /\ cause \in [Requests -> {"none", "steering", "turn", "shutdown", "superseded", "failed"}]
        /\ sent \in [Requests -> {"none", "answer", "refused", "cancel"}]
        /\ closes \in [Requests -> 0..2]
        /\ result \in [Requests -> {"none", "answer", "denied", "steered", "stopped"}]
    BY DEF Init
  <2>2. /\ slot \in [Slots -> Requests \cup {Consent, None}]
        /\ at \in [Threads -> {"idle", "claim", "apply", "access", "deliver", "settle", "clear",
                             "join", "collect", "wait", "after", "exit", "over"}]
        /\ on \in [Threads -> Requests \cup {None}]
        /\ todo \in [Ops -> SUBSET Requests]
    BY DEF Init
  <2>3. QED
    BY <2>1, <2>2 DEF Init, TypeOK
<1>2. Taken /\ Told /\ Shown /\ Heard
  BY PromptAssumption DEF Init, Taken, Told, Shown, Heard, Answerable, NoFabricatedAnswer, Live, Threads,
     Slots, Busy, Holding, Delivering
<1>3. QED
  BY <1>1, <1>2 DEF IInv

LEMMA Invariance == Spec => []IInv
<1>1. IInv /\ [Next]_vars => IInv'
  BY TypedStep, TakenStep, ToldStep, ShownStep, HeardStep DEF IInv
<1>2. QED
  BY Start, <1>1, PTL DEF Spec

\* The registry, the slots and the channels keep their types.
THEOREM TypeCorrect == Spec => []TypeOK
<1>1. IInv => TypeOK
  BY DEF IInv
<1>2. QED
  BY <1>1, Invariance, PTL

\* However many clients answer, operations are interrupted and waiters give up, a
\* request's channel is written and closed once (deliverApproval and its siblings).
THEOREM OneDelivery == Spec => []DeliveredOnce
<1>1. IInv => DeliveredOnce
  BY DEF IInv, TypeOK, Taken, DeliveredOnce
<1>2. QED
  BY <1>1, Invariance, PTL

\* A request that was told it is canceled had no effect (claimForAnswer, ResolveAccess).
THEOREM NoEffectAfterCancel == Spec => []CanceledRanNothing
<1>1. IInv => CanceledRanNothing
  BY DEF IInv, TypeOK, Taken, CanceledRanNothing
<1>2. QED
  BY <1>1, Invariance, PTL

\* A waiter's answer is one a client gave (claimForCancel, PromptCause).
THEOREM NoSentinelAnswer == Spec => []NoFabricatedAnswer
<1>1. IInv => NoFabricatedAnswer
  BY DEF IInv, Told
<1>2. QED
  BY <1>1, Invariance, PTL

\* A late cleanup never takes a newer request off the screen (clearPromptSlot).
THEOREM StaysAnswerable == Spec => []Answerable
<1>1. IInv => Answerable
  BY DEF IInv, Shown
<1>2. QED
  BY <1>1, Invariance, PTL

\* An answer that won reaches its waiter, also one whose context ends meanwhile
\* (CancelPrompt, joinClaim).
THEOREM WonReachesWaiter == Spec => []WonIsUsed
<1>1. IInv => WonIsUsed
  BY DEF IInv, TypeOK, Heard, Read, WonIsUsed
<1>2. QED
  BY <1>1, Invariance, PTL

-----------------------------------------------------------------------------
(* The refinement *)

\* A delivery that keeps the count of closes found the channel empty.
LEMMA DeliversOnce ==
  ASSUME TypeOK, Taken, Taken', NEW P, P \subseteq Requests,
         NEW v \in {"answer", "refused", "cancel"}, Deliver(P, v)
  PROVE  \A p \in Requests :
           /\ p \in P => sent[p] = "none" /\ sent'[p] = v
           /\ p \notin P => sent'[p] = sent[p]
<1> SUFFICES ASSUME NEW p \in Requests
             PROVE  /\ p \in P => sent[p] = "none" /\ sent'[p] = v
                    /\ p \notin P => sent'[p] = sent[p]
  OBVIOUS
<1>1. sent'[p] = IF p \in P THEN v ELSE sent[p]
  BY DEF Deliver
<1>2. ASSUME p \in P, sent[p] # "none" PROVE FALSE
  <2>1. closes[p] = 1 /\ closes'[p] = 2
    BY <1>2 DEF Deliver, Bump, Taken
  <2>2. closes'[p] \in {0, 1}
    BY DEF Taken
  <2>3. QED
    BY <2>1, <2>2
<1>3. QED
  BY <1>1, <1>2

\* Every section decides, tells or returns as Decisions allows: a section that decides
\* writes a channel that was empty, and a waiter returns what its channel says.
LEMMA DecisionsStep ==
  ASSUME IInv, IInv', [Next]_vars
  PROVE  [Verdicts!Next]_<<sent, applied, won, result>>
<1> DEFINE Step == [Verdicts!Next]_<<sent, applied, won, result>>
<1> USE DEF channels, effects
<1>0. /\ TypeOK /\ Taken /\ Taken' /\ NoFabricatedAnswer'
      /\ sent \in [Requests -> {"none", "answer", "refused", "cancel"}]
      /\ on \in [Threads -> Requests \cup {None}] /\ Clients \cup Ops \cup Requests = Threads
      /\ result \in [Requests -> {"none", "answer", "denied", "steered", "stopped"}]
  BY DEF IInv, TypeOK, Told, Threads
<1>a. UNCHANGED <<sent, applied, won, result>> => Step
  OBVIOUS
<1>b. ASSUME NEW P, P \subseteq Requests, NEW v \in {"answer", "refused", "cancel"}, Deliver(P, v),
             applied' = IF v = "answer" THEN applied \cup P ELSE applied,
             won' \subseteq won \cup {p \in P : v = "answer"}, won \subseteq won', result' = result
      PROVE  Step
  <2>1. \A p \in Requests : /\ p \in P => sent[p] = "none" /\ sent'[p] = v
                            /\ p \notin P => sent'[p] = sent[p]
    BY <1>0, <1>b, DeliversOnce
  <2>2. ASSUME NEW p \in Requests
        PROVE  Verdicts!Decides(p) /\ Verdicts!Tells(p) /\ Verdicts!Returns(p)
    <3>1. p \in applied => sent[p] = "answer"
      BY <1>0 DEF Taken
    <3>2. Verdicts!Decides(p)
      BY <1>b, <2>1, <3>1 DEF Verdicts!Decides
    <3>3. Verdicts!Tells(p)
      BY <1>b, <2>1 DEF Verdicts!Tells
    <3>4. QED
      BY <1>b, <3>2, <3>3 DEF Verdicts!Returns
  <2>3. QED
    BY <2>2 DEF Verdicts!Next
<1>c. ASSUME NEW p \in Requests, at[p] \in {"wait", "after"}, NEW r, Returns(p, r),
             r = "denied" => sent[p] \in {"refused", "cancel"}
      PROVE  Step
  <2>1. UNCHANGED <<sent, applied, won>> /\ result' = [result EXCEPT ![p] = r]
    BY <1>c DEF Returns
  <2>2. result[p] = "none"
    BY <1>c DEF IInv, Heard
  <2>3. ASSUME NEW q \in Requests
        PROVE  Verdicts!Decides(q) /\ Verdicts!Tells(q) /\ Verdicts!Returns(q)
    <3>1. result'[q] = "answer" => sent'[q] = "answer"
      BY <1>0 DEF NoFabricatedAnswer
    <3>2. Verdicts!Returns(q)
      BY <1>0, <1>c, <2>1, <2>2, <3>1 DEF Verdicts!Returns
    <3>3. QED
      BY <2>1, <3>2 DEF Verdicts!Decides, Verdicts!Tells
  <2>4. QED
    BY <2>3 DEF Verdicts!Next
<1>d. ASSUME NEW t \in Threads, at[t] \in Busy PROVE on[t] \in Requests
  BY <1>0, <1>d DEF Taken
<1> HIDE DEF Step
<1>1. ASSUME NEW c \in Clients, NEW ok \in BOOLEAN, Apply(c, ok) PROVE Step
  <2>1. on[c] \in Requests
    BY <1>0, <1>1, <1>d DEF Apply, Busy
  <2>2. QED
    BY <1>1, <1>b, <2>1 DEF Apply
<1>2. ASSUME NEW c \in Clients, ClearAnswer(c) PROVE Step
  <2>1. UNCHANGED <<sent, applied, result>>
        /\ (won' = won \/ (won' = won \cup {on[c]} /\ sent[on[c]] = "answer"))
    BY <1>2 DEF ClearAnswer
  <2>2. \A p \in Requests : Verdicts!Decides(p) /\ Verdicts!Tells(p) /\ Verdicts!Returns(p)
    BY <2>1 DEF Verdicts!Decides, Verdicts!Tells, Verdicts!Returns
  <2>3. QED
    BY <2>2 DEF Step, Verdicts!Next
<1>3. ASSUME NEW p \in Requests, NEW granted \in BOOLEAN, ResolveAccess(p, granted) PROVE Step
  <2>1. CASE CtxDone(p) \/ life # "on" \/ op[p] \in intent
    BY <1>3, <1>b, <2>1 DEF ResolveAccess, FinishAccess
  <2>2. CASE ~(CtxDone(p) \/ life # "on" \/ op[p] \in intent)
    BY <1>3, <1>b, <2>2 DEF ResolveAccess, FinishAccess
  <2>3. QED
    BY <2>1, <2>2
<1>4. ASSUME NEW t \in Ops \cup Requests, Cancel(t) PROVE Step
  <2>1. at[t] \in {"deliver", "access"} => on[t] \in Requests
    BY <1>0, <1>d DEF Busy
  <2>2. CASE CancelDeliver(t)
    BY <1>b, <2>1, <2>2 DEF CancelDeliver
  <2>3. CASE CancelAccess(t)
    BY <1>a, <1>b, <2>1, <2>3 DEF CancelAccess, FinishAccess
  <2>4. QED
    BY <1>4, <1>a, <2>2, <2>3 DEF Cancel, CancelSettle, CancelClear, CancelJoin
<1>5. ASSUME NEW p \in Requests, Receive(p) PROVE Step
  <2>1. Received(p) = "denied" => sent[p] # "answer"
    BY DEF Received, Decision, Failure
  <2>2. QED
    BY <1>0, <1>5, <1>c, <2>1 DEF Receive
<1>6. ASSUME NEW p \in Requests, AfterCancel(p) PROVE Step
  <2>1. Received(p) = "denied" => sent[p] # "answer"
    BY DEF Received, Decision, Failure
  <2>2. PICK r : Returns(p, r) /\ (r = "denied" => r = Received(p) /\ sent[p] # "none")
    BY <1>6 DEF AfterCancel, Failure
  <2>3. QED
    BY <1>0, <1>6, <1>c, <2>1, <2>2 DEF AfterCancel
<1>7. ASSUME NEW p \in Requests, GiveUp(p) PROVE Step
  BY <1>7, <1>a, <1>b DEF GiveUp, FinishAccess, CancelClaim
<1>8. ASSUME Supersede PROVE Step
  <2>1. {p \in {replaced} \cap known : p \notin settled \cup claimed} \subseteq Requests
    BY <1>0 DEF TypeOK
  <2>2. QED
    BY <1>8, <1>b, <2>1 DEF Supersede
<1>9. ASSUME ResolvePendingForShutdown PROVE Step
  <2>1. PICK P \in SUBSET Requests : Deliver(P, "cancel")
    BY <1>0, <1>9 DEF ResolvePendingForShutdown, TypeOK
  <2>2. QED
    BY <1>9, <1>b, <2>1 DEF ResolvePendingForShutdown
<1>10. ASSUME NEW c \in Clients, Client(c) PROVE Step
  BY <1>1, <1>2, <1>10, <1>a DEF Client, SettleAnswer, JoinAnswer
<1>11. ASSUME NEW o \in Ops, Worker(o) PROVE Step
  BY <1>4, <1>11, <1>a DEF Worker, Collect, Interrupt, CancelClaim, CancelOperation
<1>12. ASSUME NEW p \in Requests, Waiter(p) PROVE Step
  BY <1>4, <1>5, <1>6, <1>7, <1>12, <1>a DEF Waiter, ClearPrompt
<1>13. CASE \/ \E p \in Requests, k \in Raised, o \in Ops : Register(p, k, o)
            \/ \E c \in Clients, p \in Requests : Claim(c, p)
            \/ \E o \in Ops : SubmitSendNow(o) \/ CancelTurn(o)
            \/ AskConsent \/ EndConsent \/ BeginQuiesce \/ Shutdown
  BY <1>13, <1>a DEF Register, Claim, SubmitSendNow, CancelTurn, AskConsent, EndConsent,
     SetPendingApproval, BeginQuiesce, Shutdown
<1>14. CASE UNCHANGED vars
  BY <1>14, <1>a DEF vars
<1>15. QED
  BY <1>3, <1>8, <1>9, <1>10, <1>11, <1>12, <1>13, <1>14 DEF Next, Step

\* However client, interruption, waiter, consent and shutdown interleave, a request is
\* decided once and for good, and its effect, what its client was told and what its
\* waiter returned agree with the decision (claimForAnswer, claimForCancel,
\* ResolveAccess, ResolvePendingForShutdown).
THEOREM DecidesOnce == Spec => ImplementsDecisions
<1>1. Init => Verdicts!Init
  BY DEF Init, Verdicts!Init
<1>2. QED
  BY <1>1, DecisionsStep, Invariance, PTL DEF Spec, ImplementsDecisions, Verdicts!Spec
=============================================================================
