------------------------------ MODULE Prompts ------------------------------
(***************************************************************************)
(* The requests an operation puts to the user: approvals, skill gates,     *)
(* questions, password prompts and access requests                         *)
(* (internal/app/session/prompts.go, session.go, pending.go), and the      *)
(* waiters that raised them (internal/agent/requests.go, tools/native).    *)
(* A client's answer, the interruption of the operation by Send now, the   *)
(* waiter's own cancellation, a consent that takes the approval slot, and  *)
(* a shutdown compete for each of them.                                    *)
(*                                                                         *)
(* accessMu is one lock: each of its sections is one action.  A channel    *)
(* holds one value and is closed with it.  Clients keep copies, so they    *)
(* may answer any request ever shown; Full Auto answers as a client does.  *)
(***************************************************************************)
EXTENDS Naturals, FiniteSets

CONSTANTS
  Requests,     \* the prompts, which are also their waiters
  Clients,      \* threads that answer
  Ops,          \* operations, which are also their interruption workers
  Consent,      \* the unregistered approval of subagent.go
  Raised,       \* the kinds of prompt raised
  None

Threads == Clients \cup Ops \cup Requests

\* "question" is the runner's own question and "tool" the question tool's.
Kinds == {"approval", "access", "skill", "question", "tool", "sudo"}

ASSUME PromptAssumption ==
  /\ Clients \cap Ops = {} /\ Clients \cap Requests = {} /\ Ops \cap Requests = {}
  /\ None \notin Requests \cup Kinds /\ Consent \notin Requests \cup {None}
  /\ Raised \subseteq Kinds

Slots == {"approval", "skill", "question", "sudo"}
SlotOf(k) ==
  CASE k = "access" -> "approval" [] k = "tool" -> "question" [] OTHER -> k

VARIABLES
  kind, op,     \* of a registered request
  known,        \* the registry, prompts
  claimed, settled, cause,   \* of a record
  sent,         \* what its channel got
  closes,       \* how often it was closed
  slot,         \* the four pending slots
  applied,      \* requests whose answer had its effect
  won,          \* requests some client was told it answered
  intent,       \* operations that Send now has claimed
  done,         \* operations whose context was canceled with it, and
  stopped,      \* those whose turn was canceled
  life,         \* "on", "quiescing" (BeginQuiesce) or "over" (Shutdown)
  shut,         \* ResolvePendingForShutdown has run
  at, on,       \* where a thread is, and the request it works on
  todo,         \* the requests an interruption has yet to cancel
  consent, replaced,   \* the consent's thread, and the request it displaced
  result        \* what a waiter returned

records == <<kind, op, known, claimed, settled, cause>>
channels == <<sent, closes>>
effects == <<applied, won>>
contexts == <<intent, done, stopped, life, shut>>
threads == <<at, on, todo>>
setter == <<consent, replaced>>
vars == <<records, channels, slot, effects, contexts, threads, setter, result>>

TypeOK ==
  /\ kind \in [Requests -> Kinds \cup {None}] /\ op \in [Requests -> Ops \cup {None}]
  /\ known \subseteq Requests /\ claimed \subseteq Requests /\ settled \subseteq Requests
  /\ cause \in [Requests -> {"none", "steering", "turn", "shutdown", "superseded", "failed"}]
  /\ sent \in [Requests -> {"none", "answer", "refused", "cancel"}]
  /\ closes \in [Requests -> 0..2]
  /\ slot \in [Slots -> Requests \cup {Consent, None}]
  /\ applied \subseteq Requests /\ won \subseteq Requests
  /\ intent \subseteq Ops /\ done \subseteq Ops /\ stopped \subseteq Ops
  /\ life \in {"on", "quiescing", "over"} /\ shut \in BOOLEAN
  /\ at \in [Threads -> {"idle", "claim", "apply", "access", "deliver", "settle", "clear",
                         "join", "collect", "wait", "after", "exit", "over"}]
  /\ on \in [Threads -> Requests \cup {None}]
  /\ todo \in [Ops -> SUBSET Requests]
  /\ consent \in {"off", "set", "on", "cleared"} /\ replaced \in Requests \cup {None}
  /\ result \in [Requests -> {"none", "answer", "denied", "steered", "stopped"}]

Init ==
  /\ kind = [p \in Requests |-> None] /\ op = [p \in Requests |-> None]
  /\ known = {} /\ claimed = {} /\ settled = {}
  /\ cause = [p \in Requests |-> "none"]
  /\ sent = [p \in Requests |-> "none"] /\ closes = [p \in Requests |-> 0]
  /\ slot = [s \in Slots |-> None]
  /\ applied = {} /\ won = {}
  /\ intent = {} /\ done = {} /\ stopped = {} /\ life = "on" /\ shut = FALSE
  /\ at = [t \in Threads |-> "idle"] /\ on = [t \in Threads |-> None]
  /\ todo = [o \in Ops |-> {}]
  /\ consent = "off" /\ replaced = None
  /\ result = [p \in Requests |-> "none"]
-----------------------------------------------------------------------------
Bump(n) == IF n = 2 THEN 2 ELSE n + 1

\* The delivery helpers: one value, then the close.
Deliver(P, value) ==
  /\ sent' = [p \in Requests |-> IF p \in P THEN value ELSE sent[p]]
  /\ closes' = [p \in Requests |-> IF p \in P THEN Bump(closes[p]) ELSE closes[p]]

\* settlePromptLocked keeps the first cause.
Settle(P, why) ==
  /\ settled' = settled \cup P
  /\ cause' = [p \in Requests |-> IF p \in P \ settled THEN why ELSE cause[p]]

\* Compare-and-clear: a request that replaced p keeps its slot.
VacateKind(p) == slot' = [slot EXCEPT ![SlotOf(kind[p])] = None]   \* mutant
Vacate(p) == slot' = [s \in Slots |-> IF slot[s] = p THEN None ELSE slot[s]]

Goes(t, where) == at' = [at EXCEPT ![t] = where]
Live(p) == p \in known \ settled
CtxDone(p) == op[p] \in done \cup stopped

\* finishAccessLocked.
FinishAccess(p, value) ==
  /\ Vacate(p)
  /\ Deliver({p}, value)
  /\ Settle({p} \cap known, IF value = "cancel" THEN "steering" ELSE "none")
-----------------------------------------------------------------------------
\* Register*, called by the thread that will wait.
Register(p, k, o) ==
  /\ at[p] = "idle" /\ kind[p] = None
  /\ o \notin intent /\ slot[SlotOf(k)] = None
  /\ k = "access" => o \notin done \cup stopped /\ life = "on"
  /\ kind' = [kind EXCEPT ![p] = k] /\ op' = [op EXCEPT ![p] = o]
  /\ known' = known \cup {p}
  /\ slot' = [slot EXCEPT ![SlotOf(k)] = p]
  /\ Goes(p, "wait")
  /\ UNCHANGED <<claimed, settled, cause, channels, effects, contexts, on, todo, setter, result>>
-----------------------------------------------------------------------------
\* A client: ResolveApproval, ResolveQuestion, ResolveSkillGate, ResolveSudoAuth.
Claim(c, p) ==
  /\ at[c] = "idle" /\ Live(p) /\ kind[p] # "access"
  /\ IF p \in claimed
     THEN Goes(c, "join") /\ UNCHANGED claimed
     ELSE op[p] \notin intent /\ claimed' = claimed \cup {p} /\ Goes(c, "apply")
  /\ on' = [on EXCEPT ![c] = p]
  /\ UNCHANGED <<kind, op, known, settled, cause, channels, slot, effects, contexts, todo,
                 setter, result>>

\* The apply callback, outside the locks, and the decision it permits.
Apply(c, ok) ==
  /\ at[c] = "apply"
  /\ ~ok => kind[on[c]] \in {"approval", "skill"}
  /\ applied' = IF ok THEN applied \cup {on[c]} ELSE applied
  /\ Deliver({on[c]}, IF ok THEN "answer" ELSE "refused")
  /\ Goes(c, "settle")
  /\ UNCHANGED <<records, slot, won, contexts, on, todo, setter, result>>

SettleAnswerApplied(c) ==                                     \* mutant
  /\ at[c] = "settle"
  /\ Settle({on[c]} \cap applied, "none")
  /\ Goes(c, "clear")
  /\ UNCHANGED <<kind, op, known, claimed, channels, slot, effects, contexts, on, todo,
                 setter, result>>

SettleAnswer(c) ==
  /\ at[c] = "settle"
  /\ Settle({on[c]}, IF sent[on[c]] = "answer" THEN "none" ELSE "failed")
  /\ Goes(c, "clear")
  /\ UNCHANGED <<kind, op, known, claimed, channels, slot, effects, contexts, on, todo,
                 setter, result>>

\* clearPromptSlot; after a failed effect the caller's ClearPrompt drops the record.
ClearAnswer(c) ==
  /\ at[c] = "clear"
  /\ Vacate(on[c])
  /\ IF sent[on[c]] = "answer"
     THEN won' = won \cup {on[c]} /\ UNCHANGED known
     ELSE known' = known \ {on[c]} /\ UNCHANGED won
  /\ Goes(c, "idle") /\ on' = [on EXCEPT ![c] = None]
  /\ UNCHANGED <<kind, op, claimed, settled, cause, channels, applied, contexts, todo, setter,
                 result>>

\* joinClaim: until the claim is done, or the session's context is.
JoinedAtOnce(t) == TRUE                                       \* mutant
Joined(t) == on[t] \in settled \/ life = "over"

JoinAnswer(c) ==
  /\ at[c] = "join" /\ Joined(c)
  /\ Goes(c, "idle") /\ on' = [on EXCEPT ![c] = None]
  /\ UNCHANGED <<records, channels, slot, effects, contexts, todo, setter, result>>

\* ResolveAccess, one section of the lock: what is already visible wins.
ResolveAccess(p, granted) ==
  /\ kind[p] = "access" /\ slot["approval"] = p
  /\ IF CtxDone(p) \/ life # "on" \/ op[p] \in intent
     THEN FinishAccess(p, "cancel") /\ UNCHANGED <<applied, won>>
     ELSE /\ FinishAccess(p, IF granted THEN "answer" ELSE "refused")
          /\ applied' = IF granted THEN applied \cup {p} ELSE applied
          /\ won' = IF granted THEN won \cup {p} ELSE won
  /\ UNCHANGED <<kind, op, known, claimed, contexts, threads, setter, result>>
-----------------------------------------------------------------------------
\* CancelPrompt(p, why) in thread t, which goes on at place next.
CancelClaimTakes(t, p, why, next) ==                          \* mutant
  /\ IF ~Live(p)
     THEN Goes(t, next) /\ UNCHANGED <<claimed, cause>>
     ELSE /\ claimed' = claimed \cup {p}
          /\ cause' = [cause EXCEPT ![p] = why]
          /\ Goes(t, IF kind[p] = "access" THEN "access" ELSE "deliver")
  /\ on' = [on EXCEPT ![t] = IF Live(p) THEN p ELSE None]
  /\ UNCHANGED <<kind, op, known, settled, channels, slot, effects, contexts, setter, result>>
CancelClaimUncaused(t, p, why, next) ==                       \* mutant
  /\ IF ~Live(p)
     THEN Goes(t, next) /\ UNCHANGED claimed
     ELSE IF p \in claimed
     THEN Goes(t, "join") /\ UNCHANGED claimed
     ELSE /\ claimed' = claimed \cup {p}
          /\ Goes(t, IF kind[p] = "access" THEN "access" ELSE "deliver")
  /\ on' = [on EXCEPT ![t] = IF Live(p) THEN p ELSE None]
  /\ UNCHANGED <<kind, op, known, settled, cause, channels, slot, effects, contexts, setter,
                 result>>
CancelClaim(t, p, why, next) ==
  /\ IF ~Live(p)
     THEN Goes(t, next) /\ UNCHANGED <<claimed, cause>>
     ELSE IF p \in claimed
     THEN Goes(t, "join") /\ UNCHANGED <<claimed, cause>>
     ELSE /\ claimed' = claimed \cup {p}
          /\ cause' = [cause EXCEPT ![p] = why]
          /\ Goes(t, IF kind[p] = "access" THEN "access" ELSE "deliver")
  /\ on' = [on EXCEPT ![t] = IF Live(p) THEN p ELSE None]
  /\ UNCHANGED <<kind, op, known, settled, channels, slot, effects, contexts, setter, result>>

\* Where a canceling thread goes on: the next request, or the waiter's return.
Onward(t) == IF t \in Ops THEN "claim" ELSE "after"

CancelDeliver(t) ==
  /\ at[t] = "deliver"
  /\ Deliver({on[t]}, "cancel")
  /\ Goes(t, "settle")
  /\ UNCHANGED <<records, slot, effects, contexts, on, todo, setter, result>>

CancelSettle(t) ==
  /\ at[t] = "settle"
  /\ settled' = settled \cup {on[t]}
  /\ Goes(t, "clear")
  /\ UNCHANGED <<kind, op, known, claimed, cause, channels, slot, effects, contexts, on, todo,
                 setter, result>>

CancelClear(t) ==
  /\ at[t] = "clear"
  /\ Vacate(on[t])
  /\ Goes(t, Onward(t)) /\ on' = [on EXCEPT ![t] = None]
  /\ UNCHANGED <<records, channels, effects, contexts, todo, setter, result>>

\* A typed access request is settled by its own resolver.
CancelAccess(t) ==
  /\ at[t] = "access"
  /\ IF slot["approval"] = on[t]
     THEN FinishAccess(on[t], "cancel")
     ELSE UNCHANGED <<slot, channels>> /\ Settle({on[t]}, "steering")
  /\ Goes(t, Onward(t)) /\ on' = [on EXCEPT ![t] = None]
  /\ UNCHANGED <<kind, op, known, claimed, effects, contexts, todo, setter, result>>

CancelJoin(t) ==
  /\ at[t] = "join" /\ Joined(t)
  /\ Goes(t, Onward(t)) /\ on' = [on EXCEPT ![t] = None]
  /\ UNCHANGED <<records, channels, slot, effects, contexts, todo, setter, result>>
-----------------------------------------------------------------------------
\* Send now: the intent under both locks, then the worker.
SubmitSendNow(o) ==
  /\ o \notin intent \cup done
  /\ intent' = intent \cup {o}
  /\ Goes(o, "collect")
  /\ UNCHANGED <<records, channels, slot, effects, done, stopped, life, shut, on, todo, setter,
                 result>>

\* CancelOperationPrompts.
Collect(o) ==
  /\ at[o] = "collect"
  /\ todo' = [todo EXCEPT ![o] = {p \in known \ settled : op[p] = o}]
  /\ Goes(o, "claim")
  /\ UNCHANGED <<records, channels, slot, effects, contexts, on, setter, result>>

Interrupt(o, p) ==
  /\ at[o] = "claim" /\ p \in todo[o]
  /\ CancelClaim(o, p, "steering", "claim")
  /\ todo' = [todo EXCEPT ![o] = @ \ {p}]

\* The operation's context is canceled after its prompts.
CancelOperation(o) ==
  /\ at[o] = "claim" /\ todo[o] = {}
  /\ done' = done \cup {o}
  /\ Goes(o, "over")
  /\ UNCHANGED <<records, channels, slot, effects, intent, stopped, life, shut, on, todo, setter,
                 result>>

CancelTurn(o) ==
  /\ o \notin stopped
  /\ stopped' = stopped \cup {o}
  /\ UNCHANGED <<records, channels, slot, effects, intent, done, life, shut, threads, setter,
                 result>>
-----------------------------------------------------------------------------
\* The waiter.
\* PromptCause; the registry may have forgotten the key.
Cause(p) == IF p \in known THEN cause[p] ELSE "unknown"
Failure(why) == IF why = "steering" THEN "steered" ELSE "stopped"
Decision(p) == IF sent[p] = "answer" THEN "answer" ELSE "denied"

\* What a waiter makes of the value it receives.
Received(p) ==
  CASE kind[p] = "approval" ->
         IF sent[p] = "cancel" THEN "steered" ELSE Decision(p)
    [] kind[p] = "skill" ->
         IF Cause(p) = "steering" THEN "steered" ELSE Decision(p)
    [] kind[p] \in {"question", "tool"} ->
         IF Cause(p) # "none" THEN Failure(Cause(p)) ELSE "answer"
    [] kind[p] = "sudo" ->
         IF sent[p] # "answer" /\ Cause(p) # "none" THEN Failure(Cause(p)) ELSE Decision(p)
    [] OTHER ->
         IF sent[p] = "cancel"
         THEN IF op[p] \in intent THEN "steered" ELSE "stopped" ELSE Decision(p)

Returns(p, r) ==
  /\ result' = [result EXCEPT ![p] = r]
  /\ Goes(p, "exit")
  /\ UNCHANGED <<records, channels, slot, effects, contexts, on, todo, setter>>

Receive(p) == at[p] = "wait" /\ sent[p] # "none" /\ Returns(p, Received(p))

\* The context is done: the waiter cancels its own request.
Why(p) == IF kind[p] \in {"tool", "sudo"} \/ op[p] \notin stopped THEN "steering" ELSE "turn"

GiveUp(p) ==
  /\ at[p] = "wait" /\ CtxDone(p)
  /\ IF kind[p] = "access"
     THEN /\ IF slot["approval"] = p THEN FinishAccess(p, "cancel")
             ELSE UNCHANGED <<slot, channels, settled, cause>>
          /\ Goes(p, "after")
          /\ UNCHANGED <<kind, op, known, claimed, effects, contexts, on, setter, result>>
     ELSE CancelClaim(p, p, Why(p), "after")
  /\ UNCHANGED todo

\* What it returns then: the tools read their channel, the runner does not
\* have to.
AfterCancel(p) ==
  /\ at[p] = "after"
  /\ kind[p] \in {"tool", "sudo", "access"} => sent[p] # "none"
  /\ Returns(p,
       CASE kind[p] \in {"tool", "sudo", "access"} -> Received(p)
         [] kind[p] = "approval" /\ Cause(p) = "none" /\ sent[p] # "none" -> Received(p)
         [] OTHER -> Failure(Cause(p)))

\* The deferred ClearPrompt.
ClearPrompt(p) ==
  /\ at[p] = "exit"
  /\ IF kind[p] # "access" /\ p \in known
     THEN known' = known \ {p} /\ Vacate(p)
     ELSE UNCHANGED <<known, slot>>
  /\ Goes(p, "over")
  /\ UNCHANGED <<kind, op, claimed, settled, cause, channels, effects, contexts, on, todo,
                 setter, result>>
-----------------------------------------------------------------------------
\* requestSubagentConsent, which uses the slot without a record: SetPendingApproval
\* with its own call, later with nil.  An access request is left in place.
SetPendingApproval(content) ==
  /\ IF slot["approval"] \in Requests /\ kind[slot["approval"]] = "access"
     THEN UNCHANGED slot /\ replaced' = None
     ELSE /\ slot' = [slot EXCEPT !["approval"] = content]
          /\ replaced' = IF slot["approval"] \in Requests THEN slot["approval"] ELSE None
  /\ UNCHANGED <<records, channels, effects, contexts, threads, result>>

AskConsent == consent = "off" /\ consent' = "set" /\ SetPendingApproval(Consent)
EndConsent == consent = "on" /\ consent' = "cleared" /\ SetPendingApproval(None)

\* settleSupersededPrompt, in a section of its own.
Supersede ==
  /\ consent \in {"set", "cleared"}
  /\ LET P == {p \in {replaced} \cap known : p \notin settled \cup claimed} IN
       claimed' = claimed \cup P /\ Settle(P, "superseded") /\ Deliver(P, "cancel")
  /\ replaced' = None
  /\ consent' = IF consent = "set" THEN "on" ELSE "off"
  /\ UNCHANGED <<kind, op, known, slot, effects, contexts, threads, result>>
-----------------------------------------------------------------------------
BeginQuiesce ==
  /\ life = "on" /\ life' = "quiescing"
  /\ UNCHANGED <<records, channels, slot, effects, intent, done, stopped, shut, threads, setter,
                 result>>

Shutdown ==
  /\ life = "quiescing" /\ life' = "over"
  /\ UNCHANGED <<records, channels, slot, effects, intent, done, stopped, shut, threads, setter,
                 result>>

\* A claim in flight is left to its owner, but the registry forgets everything.
ResolvePendingForShutdown ==
  LET access == {p \in Requests : kind[p] = "access" /\ slot["approval"] = p}
      open == {p \in known : p \notin settled \cup claimed /\ kind[p] # "access"}
  IN /\ Deliver(access \cup open, "cancel")
     /\ settled' = settled \cup (access \cap known) \cup open
     /\ cause' = [p \in Requests |->
          IF p \in open THEN "shutdown"
          ELSE IF p \in (access \cap known) \ settled THEN "steering" ELSE cause[p]]
     /\ claimed' = claimed \cup open
     /\ known' = {}
     /\ slot' = [s \in Slots |-> None]
     /\ shut' = TRUE
     /\ UNCHANGED <<kind, op, effects, intent, done, stopped, life, threads, setter, result>>
-----------------------------------------------------------------------------
Client(c) ==
  \/ \E ok \in BOOLEAN : Apply(c, ok)
  \/ SettleAnswer(c) \/ ClearAnswer(c) \/ JoinAnswer(c)

Cancel(t) ==
  CancelDeliver(t) \/ CancelSettle(t) \/ CancelClear(t) \/ CancelAccess(t) \/ CancelJoin(t)

Worker(o) == Collect(o) \/ (\E p \in Requests : Interrupt(o, p)) \/ CancelOperation(o) \/ Cancel(o)

Waiter(p) == Receive(p) \/ GiveUp(p) \/ AfterCancel(p) \/ ClearPrompt(p) \/ Cancel(p)

Next ==
  \/ \E p \in Requests, k \in Raised, o \in Ops : Register(p, k, o)
  \/ \E c \in Clients : Client(c) \/ \E p \in Requests : Claim(c, p)
  \/ \E p \in Requests, granted \in BOOLEAN : ResolveAccess(p, granted)
  \/ \E o \in Ops : SubmitSendNow(o) \/ CancelTurn(o) \/ Worker(o)
  \/ \E p \in Requests : Waiter(p)
  \/ AskConsent \/ EndConsent \/ Supersede
  \/ BeginQuiesce \/ Shutdown \/ ResolvePendingForShutdown

Spec == Init /\ [][Next]_vars

\* Goroutines run on and callbacks return; nobody has to answer.
FairSpec ==
  /\ Spec
  /\ \A c \in Clients : WF_vars(Client(c))
  /\ \A o \in Ops : WF_vars(Worker(o))
  /\ \A p \in Requests : WF_vars(Waiter(p))
-----------------------------------------------------------------------------
\* A channel gets one value and is closed once, whoever settles the request; a
\* second close would panic (deliverApproval and its siblings).
DeliveredOnce == \A p \in Requests : closes[p] <= 1

\* A request that was settled as interrupted had no effect: nothing was granted,
\* recorded or persisted for it (claimForAnswer, ResolveAccess).
CanceledRanNothing == \A p \in Requests : sent[p] = "cancel" => p \notin applied

\* Client, interruption, waiter, consent and shutdown decide a request as if in one
\* step: once, with the effect the decision permits and no other, and what its client
\* was told and its waiter returned agree with it (claimForAnswer, claimForCancel,
\* ResolveAccess, the delivery helpers).
Verdicts == INSTANCE Decisions
              WITH decision <- sent, permitted <- applied, told <- won, returned <- result
ImplementsDecisions == Verdicts!Spec

\* A waiter never takes the sentinel of a cancellation for the user's words,
\* although it may wake before the cancellation is settled (claimForCancel
\* records the cause before the delivery).
NoFabricatedAnswer == \A p \in Requests : result[p] = "answer" => sent[p] = "answer"

\* A request that nobody has taken yet is on the screen: no late cleanup of an
\* older one removes it (clearPromptSlot, ClearPrompt).
Answerable ==
  \A p \in Requests :
    Live(p) /\ p \notin claimed /\ at[p] = "wait" => slot[SlotOf(kind[p])] = p \/ replaced = p

\* An answer the client was told had won reaches the approval, the tool or the
\* password prompt that waited for it, even when its context ends meanwhile
\* (CancelPrompt: a claim that won is never rolled back).
WonIsUsed ==
  \A p \in won :
    ~shut /\ life # "over" /\ kind[p] \in {"approval", "tool", "sudo", "access"} /\ result[p] # "none"
      => result[p] = "answer"

\* The same of every kind: the runner's own questions and skill gates do not read
\* the channel once their context is done.
AnswerIsUsed ==
  \A p \in won :
    ~shut /\ life # "over" /\ result[p] # "none" => result[p] = "answer"

\* Whoever waits for a request of an operation that is interrupted or canceled
\* returns, also when an answer is being applied or the session shuts down.
WaiterReturns ==
  \A p \in Requests :
    at[p] = "wait" /\ op[p] \in intent \cup stopped ~> at[p] = "over"
=============================================================================
