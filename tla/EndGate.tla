------------------------------- MODULE EndGate -------------------------------
(***************************************************************************)
(* The conversation end gate: the registry every ordinary unit of work     *)
(* joins (endController), the operations that join it, and the runtime     *)
(* that accepts an end, stops the membership and joins it (AcceptEnd,      *)
(* WaitForEnd, RunExitAnalysis, Quiesce).                                  *)
(*                                                                         *)
(* Every action is one critical section of the gate or of the runtime, or  *)
(* one step of the goroutine of a turn, a delegated child, a card worker   *)
(* (a pipeline or review child), a command, or a caller of the runtime.    *)
(* How long work runs is its own affair: it may end at any moment and is   *)
(* only bound to end once it is cancelled.                                 *)
(***************************************************************************)
EXTENDS Naturals, Sequences, FiniteSets, Functions

CONSTANTS
  Turns,      \* parent operations that may run, each once
  Kids,       \* agent.run children that may be created
  Cards,      \* card workers that may be dispatched
  Cmds,       \* commands that may be launched
  Panics,     \* the card workers whose RunTask may panic
  Transport,  \* who runs the turns: "acp" (acp/turn.go) or "inproc" (acp/service)
  Callers,    \* the calls into the runtime: WaitForEnd callers, Analysis, Quit
  MaxEpoch,   \* bound on exit-analysis epochs
  None

Work == Turns \cup Kids \cup Cards \cup Cmds
Analysis == "analysis"
Quit == "quiesce"
Enders == Callers \ {Analysis, Quit}

ASSUME WorkAssumption ==
  /\ IsFiniteSet(Turns)
  /\ Turns \cap Kids = {} /\ Turns \cap Cards = {} /\ Turns \cap Cmds = {}
  /\ Kids \cap Cards = {} /\ Kids \cap Cmds = {} /\ Cards \cap Cmds = {}
  /\ Panics \subseteq Cards
  /\ None \notin Work \cup {Analysis} /\ Analysis \notin Work
ASSUME HostAssumption == Transport \in {"acp", "inproc"} /\ MaxEpoch \in Nat

VARIABLES
  \* endController
  phase,      \* the exit phase
  items,      \* the registered work
  parents,    \* the FIFO of registered parent operations
  hook,       \* the operation whose cancel a parent item carries
  openScope,  \* the open analysis epoch, 0 for none
  epoch,      \* how many epochs were opened
  \* the runtime and the session
  accepted,   \* rt.endAccepted
  intent,     \* rt.endIntended
  rtPhase,    \* rt.endPhase
  rtScope,    \* rt.analysisScope, 0 for none
  shown,      \* the membership the user was last shown
  quiescing,  \* State.quiescing
  down,       \* rt.workCtx and the session context are cancelled
  \* the work
  slot,       \* the turn that holds the session's turn slot
  at,         \* how far each operation has come
  owner,      \* the operation that waits for it, or None
  scope,      \* the epoch a command was admitted under, 0 for ordinary
  cancelled,  \* unfinished work that was told to stop
  \* the calls
  pass,       \* how far each call into the runtime has come
  passScope,  \* the analysis scope it captured
  todo,       \* the stop targets it captured
  result      \* what the caller's latest call returned

gate == <<phase, items, parents, hook, openScope, epoch>>
runtime == <<accepted, intent, rtPhase, rtScope, shown, quiescing, down>>
work == <<slot, at, owner, scope, cancelled>>
calls == <<pass, passScope, todo, result>>
vars == <<gate, runtime, work, calls>>

Phases == {"open", "stopping", "postmortem", "closing"}
Rank(f) == CASE f = "open" -> 0 [] f = "stopping" -> 1
             [] f = "postmortem" -> 2 [] f = "closing" -> 3
TurnStages ==
  {"idle", "slot", "refused", "entered", "begun", "running", "leaving", "popped", "over"}
WorkStages == {"idle", "created", "carded", "running", "released", "over", "panicked"}
PassStages == {"idle", "begun", "frozen", "opened", "running", "stopping", "acting", "joining", "scoped",
               "drain", "waiting", "drained", "closing", "final"}

-----------------------------------------------------------------------------
(* What the controller's locks decide *)

\* An item's scope, 0 for ordinary work (WorkItem.Scope).
ScopeOf(w) == IF w \in Cmds THEN scope[w] ELSE 0
Ordinary == {w \in items : ScopeOf(w) = 0}
InScope(s) == {w \in items : ScopeOf(w) = s}

\* begin: ordinary work while the conversation is open, scoped work while the
\* postmortem is, under the open epoch only.
Admits(s) ==
  IF s = 0 THEN phase = "open"
  ELSE phase = "postmortem" /\ s = openScope

\* setPhase never moves backwards.
Advance(f) == phase' = IF Rank(f) < Rank(phase) THEN phase ELSE f

\* signalDrainedLocked: an empty registry wakes every join that waits for it.
Woken(p) == IF pass[p] = "waiting" THEN "drained" ELSE pass[p]
Register(w) == items' = items \cup {w}
ReleaseWakesAll(w) ==                                         \* mutant
  items' = items \ {w} /\ pass' = [p \in Callers |-> Woken(p)]
ReleaseSignalsFirst(w) ==                                     \* mutant
  items' = items \ {w} /\ pass' = IF items = {} THEN [p \in Callers |-> Woken(p)] ELSE pass
Release(w) ==
  /\ items' = items \ {w}
  /\ pass' = IF items' = {} THEN [p \in Callers |-> Woken(p)] ELSE pass

Enter(w, stage) == at' = [at EXCEPT ![w] = stage]
Ended(w) == cancelled' = cancelled \ {w}
Free(w) == owner' = [owner EXCEPT ![w] = None]
Waited(o) == {w \in Work : owner[w] = o}

-----------------------------------------------------------------------------
(* Parent operations *)

Init ==
  /\ phase = "open" /\ items = {} /\ parents = <<>>
  /\ hook = [t \in Turns |-> None] /\ openScope = 0 /\ epoch = 0
  /\ accepted = FALSE /\ intent = "none" /\ rtPhase = "open" /\ rtScope = 0
  /\ shown = {} /\ quiescing = FALSE /\ down = FALSE
  /\ slot = None /\ at = [w \in Work |-> "idle"] /\ owner = [w \in Work |-> None]
  /\ scope = [c \in Cmds |-> 0] /\ cancelled = {}
  /\ pass = [p \in Callers |-> "idle"] /\ passScope = [p \in Callers |-> 0]
  /\ todo = [p \in Callers |-> {}] /\ result = [p \in Callers |-> "none"]

TakeSlotTaken(t) ==                                           \* mutant
  /\ at[t] = "idle" /\ slot' = t /\ Enter(t, "slot")
  /\ UNCHANGED <<gate, runtime, owner, scope, cancelled, calls>>
\* One turn at a time: the slot is reserved before any work registers.
TakeSlot(t) ==
  /\ at[t] = "idle" /\ slot = None
  /\ slot' = t /\ Enter(t, "slot")
  /\ UNCHANGED <<gate, runtime, owner, scope, cancelled, calls>>

\* BeginWorkCancelable, up to the end of the gate's section of begin.
BeginTurn(t) ==
  /\ at[t] = "slot"
  /\ IF ~quiescing /\ Admits(0)
     THEN Enter(t, "entered") /\ Register(t) /\ UNCHANGED slot
     ELSE Enter(t, "refused") /\ slot' = None /\ UNCHANGED items
  /\ UNCHANGED <<phase, parents, hook, openScope, epoch, runtime, owner, scope, cancelled, calls>>

\* rememberParent and workWG.Add.  The service's turns publish no stop hook.
Remember(t) ==
  /\ at[t] = "entered"
  /\ parents' = Append(parents, t)
  /\ Enter(t, IF Transport = "acp" THEN "begun" ELSE "running")
  /\ UNCHANGED <<phase, items, hook, openScope, epoch, runtime, slot, owner, scope, cancelled, calls>>

\* setParentCancel: the newest registered parent whose hook is still unset.
Unhooked == {i \in DOMAIN parents : hook[parents[i]] = None}
Newest == CHOOSE i \in Unhooked : \A j \in Unhooked : j <= i

\* Runtime.BeginWork's tail: the context ends with the runtime's, and its cancel
\* is published to the gate.
PublishCancel(t) ==
  /\ at[t] = "begun"
  /\ hook' = IF Unhooked = {} THEN hook ELSE [hook EXCEPT ![parents[Newest]] = t]
  /\ cancelled' = IF down THEN cancelled \cup {t} ELSE cancelled
  /\ Enter(t, "running")
  /\ UNCHANGED <<phase, items, parents, openScope, epoch, runtime, slot, owner, scope, calls>>

\* The run returns once everything it waits for has.  The service gives its slot
\* up first, the ACP manager last.
FinishTurn(t) ==
  /\ at[t] = "running" /\ Waited(t) = {}
  /\ Enter(t, "leaving") /\ Ended(t)
  /\ slot' = IF Transport = "acp" THEN slot ELSE None
  /\ UNCHANGED <<gate, runtime, owner, scope, calls>>

EndWorkOwn(t) ==                                              \* mutant
  /\ at[t] = "leaving" /\ Enter(t, "popped")
  /\ parents # <<>> /\ parents' = Tail(parents) /\ Release(t)
  /\ hook' = [hook EXCEPT ![t] = None]
  /\ UNCHANGED <<phase, openScope, epoch, runtime, slot, owner, scope, cancelled,
                 passScope, todo, result>>
\* EndWork releases the oldest registered parent, whichever operation's it is.
EndWork(t) ==
  /\ at[t] = "leaving" /\ Enter(t, "popped")
  /\ IF parents = <<>> THEN UNCHANGED <<items, parents, hook, pass>>
     ELSE /\ parents' = Tail(parents)
          /\ hook' = [hook EXCEPT ![Head(parents)] = None]
          /\ Release(Head(parents))
  /\ UNCHANGED <<phase, openScope, epoch, runtime, slot, owner, scope, cancelled,
                 passScope, todo, result>>

\* workWG.Done, and the ACP manager's slot.
TurnDone(t) ==
  /\ at[t] = "popped" /\ Enter(t, "over")
  /\ slot' = IF slot = t THEN None ELSE slot
  /\ UNCHANGED <<gate, runtime, owner, scope, cancelled, calls>>

\* What workWG counts.
Counted == {t \in Turns : at[t] \in {"begun", "running", "leaving", "popped"}}

-----------------------------------------------------------------------------
(* Delegated children, card workers and commands *)

EnterKidUngated(k, t) ==                                      \* mutant
  /\ at[k] = "idle" /\ at[t] = "running" /\ Register(k) /\ Enter(k, "created")
  /\ owner' = [owner EXCEPT ![k] = t]
  /\ UNCHANGED <<phase, parents, hook, openScope, epoch, runtime, slot, scope, cancelled, calls>>
\* EnterSubagentWork, called by a turn that waits for the creation.
EnterKid(k, t) ==
  /\ at[k] = "idle" /\ at[t] = "running" /\ Admits(0)
  /\ Register(k) /\ Enter(k, "created")
  /\ owner' = [owner EXCEPT ![k] = t]
  /\ UNCHANGED <<phase, parents, hook, openScope, epoch, runtime, slot, scope, cancelled, calls>>

\* The consent is denied or the factory fails: the creation is given up.
RefuseKid(k) ==
  /\ at[k] = "created" /\ Release(k) /\ Enter(k, "over") /\ Free(k)
  /\ UNCHANGED <<phase, parents, hook, openScope, epoch, runtime, slot, scope, cancelled,
                 passScope, todo, result>>

\* registerSubagent: the card names the creation's own item.
RegisterKid(k) ==
  /\ at[k] = "created" /\ Enter(k, "carded")
  /\ UNCHANGED <<gate, runtime, slot, owner, scope, cancelled, calls>>

\* SetSubagentCancel and the goroutine: the tool call returns, the child's context
\* is the session's.
StartKid(k) ==
  /\ at[k] = "carded" /\ Enter(k, "running") /\ Free(k)
  /\ cancelled' = IF down THEN cancelled \cup {k} ELSE cancelled
  /\ UNCHANGED <<gate, runtime, slot, scope, calls>>

\* The report is stored and queued, then ExitSubagentWork releases the item.
ExitKid(k) ==
  /\ at[k] = "running" /\ Release(k) /\ Enter(k, "released") /\ Ended(k)
  /\ UNCHANGED <<phase, parents, hook, openScope, epoch, runtime, slot, owner, scope,
                 passScope, todo, result>>

\* FinishSubagent: the view, and the final work-index save.
FinishKid(k) ==
  /\ at[k] = "released" /\ Enter(k, "over")
  /\ UNCHANGED <<gate, runtime, slot, owner, scope, cancelled, calls>>

\* An operation that may dispatch card workers: a turn, or the exit analysis.
Dispatching(o) ==
  IF o = Analysis THEN Analysis \in Callers /\ pass[Analysis] = "running"
  ELSE at[o] = "running"

\* registerSubagent without a creation item: bindChildCard reserves the card's own,
\* whatever the phase.
DispatchCard(c, o) ==
  /\ at[c] = "idle" /\ Dispatching(o)
  /\ Register(c) /\ Enter(c, "carded")
  /\ owner' = [owner EXCEPT ![c] = o]
  /\ UNCHANGED <<phase, parents, hook, openScope, epoch, runtime, slot, scope, cancelled, calls>>

\* SetSubagentCancel, which only pipeline workers call.
StartCard(c) ==
  /\ at[c] = "carded" /\ Enter(c, "running")
  /\ UNCHANGED <<gate, runtime, slot, owner, scope, cancelled, calls>>

\* FinishSubagent releases the item a card registered.
FinishCard(c) ==
  /\ at[c] \in {"carded", "running"}
  /\ Release(c) /\ Enter(c, "over") /\ Free(c) /\ Ended(c)
  /\ UNCHANGED <<phase, parents, hook, openScope, epoch, runtime, slot, scope,
                 passScope, todo, result>>

\* RunTask panics: the stack unwinds into the turn's recover, past FinishSubagent.
PanicCard(c) ==
  /\ c \in Panics /\ at[c] \in {"carded", "running"}
  /\ Enter(c, "panicked") /\ Free(c) /\ Ended(c)
  /\ UNCHANGED <<gate, runtime, slot, scope, calls>>

\* A command is launched from a context that is ordinary or carries the epoch's
\* authorization; the service asks the gate at admission.
Launchers(s) ==
  IF s = 0 THEN {o \in Turns \cup Kids : at[o] = "running"}
  ELSE {a \in {Analysis} \cap Callers : pass[a] = "running" /\ rtScope = s}

\* JobManager.Shutdown closed the service.
ServiceClosed ==
  Quit \in Callers /\ (pass[Quit] = "final" \/ (pass[Quit] = "idle" /\ result[Quit] # "none"))

AdmitCmd(c, s) ==
  /\ at[c] = "idle" /\ Launchers(s) # {} /\ Admits(s) /\ ~ServiceClosed
  /\ Register(c) /\ Enter(c, "running")
  /\ scope' = [scope EXCEPT ![c] = s]
  /\ UNCHANGED <<phase, parents, hook, openScope, epoch, runtime, slot, owner, cancelled, calls>>

FinishCmd(c) ==
  /\ at[c] = "running" /\ Release(c) /\ Enter(c, "over") /\ Ended(c)
  /\ UNCHANGED <<phase, parents, hook, openScope, epoch, runtime, slot, owner, scope,
                 passScope, todo, result>>

-----------------------------------------------------------------------------
(* Accepting an end *)

\* ActiveWork: the warning the user is shown.
Show ==
  /\ shown # Ordinary /\ shown' = Ordinary
  /\ UNCHANGED <<gate, accepted, intent, rtPhase, rtScope, quiescing, down, work, calls>>

\* accept refuses a membership that was not shown, and freezes once.
Displayed == Ordinary \subseteq shown

\* AcceptEnd.  A refusal reports the membership it found, which refreshes the
\* warning; an acceptance records its intent only if it is the one that froze.
AcceptEnd(why) ==
  /\ IF Displayed
     THEN /\ phase' = IF phase = "open" THEN "stopping" ELSE phase
          /\ intent' = IF phase = "open" THEN why ELSE intent
          /\ accepted' = (accepted \/ phase = "open")
          /\ rtPhase' = "stopping"
          /\ UNCHANGED shown
     ELSE shown' = Ordinary /\ UNCHANGED <<phase, intent, accepted, rtPhase>>
  /\ UNCHANGED <<items, parents, hook, openScope, epoch, rtScope, quiescing, down, work, calls>>

-----------------------------------------------------------------------------
(* The stop and join pass *)

Go(p, stage) == pass' = [pass EXCEPT ![p] = stage]
Report(p, r) == result' = [result EXCEPT ![p] = r]

\* WaitForEnd captures the open analysis, if any.
WaitForEnd(p) ==
  /\ p \in Enders /\ pass[p] = "idle" /\ accepted
  /\ Go(p, "stopping") /\ Report(p, "none")
  /\ passScope' = [passScope EXCEPT ![p] = rtScope]
  /\ UNCHANGED <<gate, runtime, work, todo>>

TargetsParents(s) == {hook[t] : t \in InScope(s) \cap Turns} \ {None}  \* mutant
\* WorkStopTargets: the hooks of the parents and the children a card names.
Targets(s) ==
  ({hook[t] : t \in InScope(s) \cap Turns} \ {None})
    \cup {w \in InScope(s) \cap (Kids \cup Cards) : at[w] \in {"carded", "running"}}

TakeTargets(p) ==
  /\ pass[p] = "stopping" /\ Go(p, "acting")
  /\ todo' = [todo EXCEPT ![p] = Targets(passScope[p])]
  /\ UNCHANGED <<gate, runtime, work, passScope, result>>

\* A parent's cancel always works while it runs; CancelSubagent needs the handle
\* of a running child; every execution the service still has is asked to stop.
Stopped(w) == w \in Turns \/ at[w] = "running"
Executing == {c \in Cmds : at[c] = "running"}
StopTargets(p) ==
  /\ pass[p] = "acting" /\ Go(p, "joining")
  /\ cancelled' = cancelled \cup Executing
       \cup {w \in todo[p] : Stopped(w) /\ at[w] \in {"begun", "running"}}
  /\ todo' = [todo EXCEPT ![p] = {}]
  /\ UNCHANGED <<gate, runtime, slot, at, owner, scope, passScope, result>>

\* WaitForWork.
JoinTurns(p) ==
  /\ pass[p] = "joining" /\ Counted = {}
  /\ Go(p, IF passScope[p] = 0 THEN "drain" ELSE "scoped")
  /\ UNCHANGED <<gate, runtime, work, passScope, todo, result>>

\* WaitForScopedWorkDrain.
JoinScope(p) ==
  /\ pass[p] = "scoped" /\ InScope(passScope[p]) = {}
  /\ Go(p, "drain")
  /\ UNCHANGED <<gate, runtime, work, passScope, todo, result>>

DrainOrdinary(p) ==                                           \* mutant
  /\ pass[p] = "drain" /\ Go(p, IF Ordinary = {} THEN "drained" ELSE "waiting")
  /\ UNCHANGED <<gate, runtime, work, passScope, todo, result>>
\* WaitForWorkDrain: return at once, or wait for the channel of the next time the
\* registry is empty.
Drain(p) ==
  /\ pass[p] = "drain" /\ Go(p, IF items = {} THEN "drained" ELSE "waiting")
  /\ UNCHANGED <<gate, runtime, work, passScope, todo, result>>

\* Where a pass goes that returns: an analysis closes its epoch for the runtime,
\* Quiesce goes on to the command service's own shutdown.
Return(p) ==
  /\ Go(p, IF p = Quit THEN "closing" ELSE "idle")
  /\ rtScope' = IF p = Analysis THEN 0 ELSE rtScope
  /\ passScope' = [passScope EXCEPT ![p] = 0]

ExpireForgotten(p) ==                                         \* mutant
  /\ pass[p] \in {"joining", "scoped", "waiting", "drained"}
  /\ Return(p) /\ Report(p, IF p = Quit THEN result[Quit] ELSE "err")
  /\ UNCHANGED <<gate, accepted, intent, rtPhase, shown, quiescing, down, work, todo>>
\* The caller's context ends a join, or the durable finalization fails.
Expire(p) ==
  /\ pass[p] \in {"joining", "scoped", "waiting", "drained"}
  /\ Return(p) /\ Report(p, "err")
  /\ UNCHANGED <<gate, accepted, intent, rtPhase, shown, quiescing, down, work, todo>>

\* Everything joined: an exit may be analysed, a replacement is closing.
Settle(p) ==
  /\ p \in Enders /\ pass[p] = "drained"
  /\ LET f == IF intent = "exit" THEN "postmortem" ELSE "closing"
     IN rtPhase' = f /\ Advance(f)
  /\ Return(p) /\ Report(p, "ok")
  /\ UNCHANGED <<items, parents, hook, openScope, epoch,
                 accepted, intent, shown, quiescing, down, work, todo>>

-----------------------------------------------------------------------------
(* Exit analysis *)

\* RunExitAnalysis opens an epoch in the postmortem phase, one at a time.
OpenAnalysis ==
  /\ Analysis \in Callers /\ pass[Analysis] = "idle" /\ epoch < MaxEpoch
  /\ rtPhase = "postmortem" /\ rtScope = 0 /\ phase = "postmortem" /\ openScope = 0
  /\ epoch' = epoch + 1 /\ openScope' = epoch + 1 /\ rtScope' = epoch + 1
  /\ passScope' = [passScope EXCEPT ![Analysis] = epoch + 1]
  /\ Go(Analysis, "opened") /\ Report(Analysis, "none")
  /\ UNCHANGED <<phase, items, parents, hook, accepted, intent, rtPhase, shown,
                 quiescing, down, work, todo>>

\* BeginExitAnalysisAccess, which a quiescing session refuses.
GrantAnalysis ==
  /\ Analysis \in Callers /\ pass[Analysis] = "opened" /\ ~quiescing
  /\ Go(Analysis, "running")
  /\ UNCHANGED <<gate, runtime, work, passScope, todo, result>>

\* The operation is over, or was never run: the epoch is closed, then stopped and
\* joined.
CloseAnalysis ==
  /\ Analysis \in Callers
  /\ \/ pass[Analysis] = "running" /\ Waited(Analysis) = {}
     \/ pass[Analysis] = "opened" /\ quiescing
  /\ openScope' = 0 /\ Go(Analysis, "stopping")
  /\ UNCHANGED <<phase, items, parents, hook, epoch, runtime, work, passScope, todo, result>>

AnalysisReturns ==
  /\ Analysis \in Callers /\ pass[Analysis] = "drained"
  /\ Return(Analysis) /\ Report(Analysis, "ok")
  /\ UNCHANGED <<gate, accepted, intent, rtPhase, shown, quiescing, down, work, todo>>

-----------------------------------------------------------------------------
(* Quiesce *)

\* BeginQuiesce waits for a registration in progress (workMu).
BeginQuiesce ==
  /\ Quit \in Callers /\ pass[Quit] = "idle" /\ result[Quit] = "none"
  /\ \A t \in Turns : at[t] # "entered"
  /\ quiescing' = TRUE /\ Go(Quit, "begun")
  /\ UNCHANGED <<gate, accepted, intent, rtPhase, rtScope, shown, down, work,
                 passScope, todo, result>>

\* freezeOrdinaryAdmission asks nobody.
Freeze ==
  /\ Quit \in Callers /\ pass[Quit] = "begun" /\ Go(Quit, "frozen")
  /\ Advance("stopping") /\ accepted' = TRUE
  /\ rtPhase' = IF rtPhase = "open" THEN "stopping" ELSE rtPhase
  /\ UNCHANGED <<items, parents, hook, openScope, epoch, intent, rtScope, shown,
                 quiescing, down, work, passScope, todo, result>>

\* workCancel ends every context BeginWork derived, Shutdown every child's.
CancelRoot ==
  /\ Quit \in Callers /\ pass[Quit] = "frozen" /\ Go(Quit, "stopping")
  /\ down' = TRUE
  /\ cancelled' = cancelled \cup {k \in Kids : at[k] = "running"}
       \cup {t \in Turns : Transport = "acp" /\ at[t] = "running"}
  /\ UNCHANGED <<gate, accepted, intent, rtPhase, rtScope, shown, quiescing,
                 slot, at, owner, scope, passScope, todo, result>>

\* The shared pass joined everything.
QuiescePass ==
  /\ Quit \in Callers /\ pass[Quit] = "drained" /\ Return(Quit)
  /\ UNCHANGED <<gate, accepted, intent, rtPhase, shown, quiescing, down, work, todo, result>>

\* JobManager.Shutdown ends and joins the executions, or gives up at its deadline.
ShutdownCommands ==
  /\ Quit \in Callers /\ pass[Quit] = "closing" /\ Go(Quit, "final")
  /\ cancelled' = cancelled \cup Executing
  /\ UNCHANGED <<gate, runtime, slot, at, owner, scope, passScope, todo, result>>

\* The terminal joins: the service's, and WaitForWork.
QuiesceReturns ==
  /\ Quit \in Callers /\ pass[Quit] = "final" /\ Go(Quit, "idle")
  /\ \E joined \in BOOLEAN :
       /\ joined => Executing = {} /\ Counted = {}
       /\ Report(Quit, IF joined /\ result[Quit] = "none" THEN "ok" ELSE "err")
  /\ UNCHANGED <<gate, runtime, work, passScope, todo>>

-----------------------------------------------------------------------------

Turn(t) ==
  \/ TakeSlot(t) \/ BeginTurn(t) \/ Remember(t) \/ PublishCancel(t)
  \/ FinishTurn(t) \/ EndWork(t) \/ TurnDone(t)
Kid(k) ==
  \/ \E t \in Turns : EnterKid(k, t)
  \/ RefuseKid(k) \/ RegisterKid(k) \/ StartKid(k) \/ ExitKid(k) \/ FinishKid(k)
Card(c) ==
  \/ \E o \in Turns \cup {Analysis} : DispatchCard(c, o)
  \/ StartCard(c) \/ FinishCard(c) \/ PanicCard(c)
Cmd(c) == (\E s \in 0..MaxEpoch : AdmitCmd(c, s)) \/ FinishCmd(c)
Join(p) ==
  \/ TakeTargets(p) \/ StopTargets(p) \/ JoinTurns(p) \/ JoinScope(p) \/ Drain(p)
Ending == Show \/ (\E why \in {"exit", "replace"} : AcceptEnd(why))
Analysing == OpenAnalysis \/ GrantAnalysis \/ CloseAnalysis \/ AnalysisReturns
Quiescing ==
  \/ BeginQuiesce \/ Freeze \/ CancelRoot \/ QuiescePass \/ ShutdownCommands \/ QuiesceReturns

Next ==
  \/ \E t \in Turns : Turn(t)
  \/ \E k \in Kids : Kid(k)
  \/ \E c \in Cards : Card(c)
  \/ \E c \in Cmds : Cmd(c)
  \/ \E p \in Callers : WaitForEnd(p) \/ Join(p) \/ Settle(p) \/ Expire(p)
  \/ Ending \/ Analysing \/ Quiescing

Spec == Init /\ [][Next]_vars

\* Work ends once it, or the turn that waits for it, is told to stop; creations,
\* cleanups and the runtime's own steps are never held up; WaitForEnd's callers set a
\* deadline and wait again for an end that was not settled; and a join that keeps
\* finding its work gone does not miss it for ever.
ToldToStop(w) == w \in cancelled \/ owner[w] \in cancelled
Fairness ==
  /\ \A t \in Turns :
       /\ WF_vars(BeginTurn(t)) /\ WF_vars(Remember(t)) /\ WF_vars(PublishCancel(t))
       /\ WF_vars(ToldToStop(t) /\ FinishTurn(t)) /\ WF_vars(EndWork(t)) /\ WF_vars(TurnDone(t))
  /\ \A k \in Kids :
       /\ WF_vars(RefuseKid(k) \/ RegisterKid(k)) /\ WF_vars(StartKid(k))
       /\ WF_vars(ToldToStop(k) /\ ExitKid(k)) /\ WF_vars(FinishKid(k))
  /\ \A c \in Cards : WF_vars(ToldToStop(c) /\ FinishCard(c))
  /\ \A c \in Cmds : WF_vars(ToldToStop(c) /\ FinishCmd(c))
  /\ \A p \in Callers : WF_vars(Join(p)) /\ SF_vars(JoinTurns(p)) /\ SF_vars(Drain(p) /\ items = {})
  /\ \A p \in Enders : WF_vars(phase = "stopping" /\ WaitForEnd(p)) /\ WF_vars(Expire(p)) /\ SF_vars(Settle(p))
  /\ WF_vars(Freeze \/ CancelRoot \/ QuiescePass \/ ShutdownCommands)
  /\ WF_vars(QuiesceReturns)
LiveSpec == Spec /\ Fairness

-----------------------------------------------------------------------------
(* Properties *)

TypeOK ==
  /\ phase \in Phases /\ items \subseteq Work /\ parents \in Seq(Turns)
  /\ hook \in [Turns -> Turns \cup {None}]
  /\ openScope \in 0..MaxEpoch /\ epoch \in 0..MaxEpoch
  /\ accepted \in BOOLEAN /\ intent \in {"none", "exit", "replace"} /\ rtPhase \in Phases
  /\ rtScope \in 0..MaxEpoch /\ shown \subseteq Work
  /\ quiescing \in BOOLEAN /\ down \in BOOLEAN
  /\ slot \in Turns \cup {None}
  /\ at \in [Work -> TurnStages \cup WorkStages]
  /\ owner \in [Work -> Turns \cup {Analysis, None}]
  /\ scope \in [Cmds -> 0..MaxEpoch] /\ cancelled \subseteq Work
  /\ pass \in [Callers -> PassStages] /\ passScope \in [Callers -> 0..MaxEpoch]
  /\ todo \in [Callers -> SUBSET Work] /\ result \in [Callers -> {"none", "ok", "err"}]

\* Ordinary work that has begun and is not over.
LiveTurns == {t \in Turns : at[t] \in {"entered", "begun", "running", "leaving"}}
LiveKids == {k \in Kids : at[k] \in {"created", "carded", "running"}}
LiveCards == {c \in Cards : at[c] \in {"carded", "running"} /\ owner[c] # Analysis}
LiveCmds == {c \in Cmds : at[c] = "running" /\ scope[c] = 0}
Lives == LiveTurns \cup LiveKids \cup LiveCards \cup LiveCmds

\* An end is only reported settled when no ordinary work is left: no turn between
\* registration and EndWork, no child, worker or command (WaitForEnd's join).
SettledMeansOver == phase \in {"postmortem", "closing"} => Lives = {}

\* The FIFO loses no parent and invents none: EndWork may release another
\* operation's registration, but as many stay as operations are unfinished
\* (rememberParent, releaseOldestParent).
ParentsExact ==
  /\ Len(parents) = Cardinality({t \in Turns : at[t] \in {"begun", "running", "leaving"}})
  /\ Range(parents) = (items \cap Turns) \ {t \in Turns : at[t] = "entered"}
  /\ Cardinality(Range(parents)) = Len(parents)

\* Whatever the FIFO released, a running ACP turn's stop hook is still in the
\* registry, so a stop pass reaches it (setParentCancel).
HookReachesTurn ==
  Transport = "acp" =>
    \A t \in Turns : at[t] = "running" => \E i \in items \cap Turns : hook[i] = t

\* A Quiesce that reports no error has joined everything ordinary and every
\* execution.
QuiescedIsQuiet ==
  Quit \in Callers /\ result[Quit] = "ok" => Lives = {} /\ Executing = {}

\* Quiesce tells whatever it will wait for to stop, also what registers, publishes its
\* cancel or starts while the runtime's and the session's contexts are being cancelled
\* (Runtime.BeginWork, SetSubagentCancel, Quiesce, JobManager.Shutdown); only ACP turns
\* run under the context it cancels.
QuiesceTellsAll ==
  /\ down /\ Transport = "acp" =>
       \A w \in Lives \ Cmds : at[w] \in {"created", "carded", "running"} => ToldToStop(w)
  /\ Quit \in Callers /\ pass[Quit] = "final" => Executing \subseteq cancelled

\* An analysis that reports no failed join left none of its commands, nor any of an
\* earlier epoch (RunExitAnalysis).
AnalysisJoined ==
  Analysis \in Callers /\ pass[Analysis] = "idle" /\ result[Analysis] = "ok" =>
    \A c \in Cmds : scope[c] # 0 => at[c] = "over"

\* Only an accepted exit is analysed: no later request turns a replacement into one
\* (AcceptEnd's intent).
ReplacementSkipsPostmortem == phase = "postmortem" \/ epoch > 0 => intent = "exit"

\* The gate's membership of work that registers through begin.
Admitted(w) == w \notin Cards /\ ScopeOf(w) = 0
Gate == INSTANCE WorkMembership
          WITH frozen <- phase # "open",
               members <- {w \in Lives : Admitted(w)},
               settled <- {w \in Work : Admitted(w) /\ at[w] \in {"popped", "released", "over"}}

\* Acceptance is atomic: ordinary work that registers first is in the membership the
\* end freezes, and nothing registers through begin after it.
ImplementsMembership == Gate!Spec

\* An accepted end settles if the caller keeps retrying, also when a pass began
\* before a turn published its hook or a child its handle (WaitForEnd).
EndSettles == accepted ~> phase \in {"postmortem", "closing"}

\* Quiesce returns even when its caller sets no deadline: cancelling the runtime and
\* the session reaches every operation it waits for.
QuiesceEnds == quiescing ~> pass[Quit] = "idle" /\ result[Quit] # "none"

-----------------------------------------------------------------------------
(* What the sources say and the code does not do *)

\* session.go, contract 7: "work that registers after one can never be admitted".
\* A card worker's registration asks nobody (bindChildCard).
AcceptedEndAdmitsNothing == [][phase # "open" => Ordinary' \subseteq Ordinary]_vars

\* AcceptEnd: "A second acceptance of an already-accepted end is a no-op".  It takes
\* the runtime's phase back to stopping.
SecondAcceptanceIsNoOp == [][Rank(rtPhase') >= Rank(rtPhase)]_vars

\* RunExitAnalysis: "The epoch is always stopped and joined before this returns — on
\* success, on failure and on cancellation".  A cancelled caller's join gives up.
AnalysisLeavesNothing ==
  pass[Analysis] = "idle" => \A c \in Cmds : scope[c] # 0 => at[c] = "over"

\* Quiesce: "all in-flight work has completed".  A child leaves the registry before
\* its final work-index save.
QuiesceJoinsChildren == result[Quit] = "ok" => \A k \in Kids : at[k] \in {"idle", "over"}

\* stopEndWork "stops every still-active unit of work in the membership".  A child
\* that is being created has neither a card nor a handle yet.
StopReachesChildren ==
  \A p \in Enders : pass[p] = "joining" /\ passScope[p] = 0 =>
    \A k \in items \cap Kids : k \in cancelled
=============================================================================
