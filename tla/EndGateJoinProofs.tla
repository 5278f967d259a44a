-------------------------- MODULE EndGateJoinProofs --------------------------
(***************************************************************************)
(* Proofs, for any turns, children, workers, commands, callers and number  *)
(* of analyses, of what the end gate's joins leave behind: nothing, when   *)
(* Quiesce reports success, and no command of any epoch, when an exit      *)
(* analysis does; and that a stop pass finds the hook of every running ACP *)
(* turn.                                                                   *)
(***************************************************************************)
EXTENDS EndGateProofs

-----------------------------------------------------------------------------
(* The inductive invariant, part by part, on top of IInv *)

\* A Quiesce that got past the freeze, or has reported, finds the conversation
\* closed; what its pass joined stays joined until it reports, and then for ever.
Quitting ==
  Quit \in Callers =>
    /\ pass[Quit] \notin {"idle", "begun"} \/ result[Quit] # "none" => phase # "open"
    /\ pass[Quit] \in {"drained", "closing", "final"} /\ result[Quit] = "none" => Lives = {}
    /\ result[Quit] = "ok" => pass[Quit] = "idle" /\ Lives = {} /\ Executing = {}

\* A command has no epoch before it is admitted, and is never admitted again.
CmdStages ==
  \A c \in Cmds : /\ at[c] \in {"idle", "running", "over"}
                  /\ at[c] = "idle" => scope[c] = 0

\* From the moment an analysis finds the registry empty until the next one opens, no
\* command of an epoch is left.
ScopedOver == \A c \in Cmds : scope[c] # 0 => at[c] = "over"
Joined ==
  Analysis \in Callers =>
    (pass[Analysis] = "drained" \/ (pass[Analysis] = "idle" /\ result[Analysis] = "ok")
       => ScopedOver)

\* The ACP manager's slot is held from before registration until after EndWork, so its
\* FIFO never holds more than the one turn, which gets its own hook.
Hooked ==
  Transport = "acp" =>
    \A t \in Turns :
      /\ at[t] \in {"slot", "entered", "begun", "running", "leaving", "popped"} => slot = t
      /\ at[t] \in {"begun", "running", "leaving"} => parents = <<t>>
      /\ hook[t] = IF at[t] \in {"running", "leaving"} THEN t ELSE None

\* Whoever waits for an operation still runs; a child that is being created is waited
\* for, and a worker until it ends.
Owned ==
  /\ \A w \in Work : owner[w] \in Turns => at[owner[w]] = "running"
  /\ \A k \in Kids : at[k] \in {"created", "carded"} => owner[k] \in Turns
  /\ \A c \in Cards : at[c] \in {"carded", "running"} => owner[c] # None

\* Once the contexts are cancelled, so is what they reach; the rest is waited for by it.
Reached ==
  down => /\ Transport = "acp" => \A t \in Turns : at[t] = "running" => t \in cancelled
          /\ \A k \in Kids : at[k] = "running" => k \in cancelled

\* The command service's own shutdown reaches what it still has.
Ordered == Quit \in Callers /\ pass[Quit] = "final" => Executing \subseteq cancelled

JInv == IInv /\ Quitting /\ CmdStages /\ Joined /\ Hooked /\ Owned /\ Reached /\ Ordered

-----------------------------------------------------------------------------
(* Frames *)

\* A step of the work, and a step of a call into the runtime.
WorkStep ==
  \/ \E t \in Turns : Turn(t)
  \/ \E k \in Kids : Kid(k)
  \/ \E c \in Cards : Card(c)
  \/ \E c \in Cmds : Cmd(c)
CallStep ==
  \/ \E p \in Callers : WaitForEnd(p) \/ Join(p) \/ Settle(p) \/ Expire(p)
  \/ Ending \/ Analysing \/ Quiescing \/ UNCHANGED vars

LEMMA Steps == [Next]_vars => WorkStep \/ CallStep
  BY DEF Next, WorkStep, CallStep

\* The work moves a call only by waking the joins of an empty registry.
LEMMA WorkFrame ==
  ASSUME WorkStep
  PROVE  /\ phase' = phase /\ result' = result
         /\ pass' = pass \/ (items' = {} /\ pass' = [p \in Callers |-> Woken(p)])
<1> USE DEF gate, runtime, work, calls, Release
<1>1. ASSUME NEW t \in Turns, Turn(t)
      PROVE  /\ phase' = phase /\ result' = result
             /\ pass' = pass \/ (items' = {} /\ pass' = [p \in Callers |-> Woken(p)])
  BY <1>1 DEF Turn, TakeSlot, BeginTurn, Remember, PublishCancel, FinishTurn, EndWork, TurnDone
<1>2. ASSUME NEW k \in Kids, Kid(k)
      PROVE  /\ phase' = phase /\ result' = result
             /\ pass' = pass \/ (items' = {} /\ pass' = [p \in Callers |-> Woken(p)])
  BY <1>2 DEF Kid, EnterKid, RefuseKid, RegisterKid, StartKid, ExitKid, FinishKid
<1>3. ASSUME NEW c \in Cards, Card(c)
      PROVE  /\ phase' = phase /\ result' = result
             /\ pass' = pass \/ (items' = {} /\ pass' = [p \in Callers |-> Woken(p)])
  BY <1>3 DEF Card, DispatchCard, StartCard, FinishCard, PanicCard
<1>4. ASSUME NEW c \in Cmds, Cmd(c)
      PROVE  /\ phase' = phase /\ result' = result
             /\ pass' = pass \/ (items' = {} /\ pass' = [p \in Callers |-> Woken(p)])
  BY <1>4 DEF Cmd, AdmitCmd, FinishCmd
<1> QED
  BY <1>1, <1>2, <1>3, <1>4 DEF WorkStep

\* A call into the runtime moves no work and never reopens the conversation.
LEMMA CallFrame ==
  ASSUME CallStep
  PROVE  /\ <<at, owner, scope, items, parents, hook, slot>>'
              = <<at, owner, scope, items, parents, hook, slot>>
         /\ phase # "open" => phase' # "open"
<1> USE DEF gate, runtime, work, calls
<1>1. CASE \E p \in Callers : WaitForEnd(p) \/ Join(p) \/ Settle(p) \/ Expire(p)
  BY <1>1 DEF Join, WaitForEnd, TakeTargets, StopTargets, JoinTurns, JoinScope, Drain, Settle,
     Advance, Expire
<1>2. CASE Ending
  BY <1>2 DEF Ending, Show, AcceptEnd
<1>3. CASE Analysing
  BY <1>3 DEF Analysing, OpenAnalysis, GrantAnalysis, CloseAnalysis, AnalysisReturns
<1>4. CASE Quiescing
  BY <1>4 DEF Quiescing, BeginQuiesce, Freeze, Advance, Rank, CancelRoot, QuiescePass,
     ShutdownCommands, QuiesceReturns
<1>5. CASE UNCHANGED vars
  BY <1>5 DEF vars
<1> QED
  BY <1>1, <1>2, <1>3, <1>4, <1>5 DEF CallStep

\* Whoever finds the registry empty finds nothing ordinary left.
LEMMA EmptiedMeansOver ==
  ASSUME IInv, [Next]_vars, items' = {}
  PROVE  Lives' = {}
<1>1. TypeOK' /\ Held' /\ ParentsExact'
  BY TypeStep, HeldStep, ParentsStep DEF IInv
<1>2. (TypeOK /\ Held /\ ParentsExact /\ items = {} => Lives = {})'
  BY EmptyMeansOver, PTL
<1> QED
  BY <1>1, <1>2

-----------------------------------------------------------------------------
(* Commands *)

\* Only its own steps move a command or change its epoch.
LEMMA OtherCmds ==
  ASSUME TypeOK, WorkStep, NEW c \in Cmds, ~Cmd(c)
  PROVE  at'[c] = at[c] /\ scope'[c] = scope[c]
<1> USE DEF gate, runtime, work, calls, Enter, TypeOK
<1>0. c \in Work /\ c \notin Turns \cup Kids \cup Cards
  BY WorkAssumption DEF Work
<1>1. ASSUME NEW t \in Turns, Turn(t) PROVE at'[c] = at[c] /\ scope'[c] = scope[c]
  BY <1>0, <1>1 DEF Turn, TakeSlot, BeginTurn, Remember, PublishCancel, FinishTurn, EndWork, TurnDone
<1>2. ASSUME NEW k \in Kids, Kid(k) PROVE at'[c] = at[c] /\ scope'[c] = scope[c]
  BY <1>0, <1>2 DEF Kid, EnterKid, RefuseKid, RegisterKid, StartKid, ExitKid, FinishKid
<1>3. ASSUME NEW d \in Cards, Card(d) PROVE at'[c] = at[c] /\ scope'[c] = scope[c]
  BY <1>0, <1>3 DEF Card, DispatchCard, StartCard, FinishCard, PanicCard
<1>4. ASSUME NEW d \in Cmds, Cmd(d) PROVE at'[c] = at[c] /\ scope'[c] = scope[c]
  <2>1. d # c
    BY <1>4
  <2> QED
    BY <1>0, <1>4, <2>1 DEF Cmd, AdmitCmd, FinishCmd
<1> QED
  BY <1>1, <1>2, <1>3, <1>4 DEF WorkStep

LEMMA OwnCmd ==
  ASSUME TypeOK, NEW c \in Cmds, Cmd(c)
  PROVE  \/ /\ at[c] = "running" /\ at'[c] = "over" /\ scope'[c] = scope[c]
         \/ /\ at[c] = "idle" /\ at'[c] = "running" /\ ~ServiceClosed
            /\ scope'[c] # 0 => Analysis \in Callers /\ pass[Analysis] = "running" /\ pass' = pass
<1> USE DEF gate, runtime, work, calls, Enter, TypeOK
<1>0. c \in Work
  BY DEF Work
<1>1. ASSUME NEW s \in 0..MaxEpoch, AdmitCmd(c, s)
      PROVE  /\ at[c] = "idle" /\ at'[c] = "running" /\ ~ServiceClosed
             /\ scope'[c] # 0 => Analysis \in Callers /\ pass[Analysis] = "running" /\ pass' = pass
  <2>1. scope'[c] = s /\ pass' = pass
    BY <1>1 DEF AdmitCmd
  <2>2. s # 0 => Analysis \in Callers /\ pass[Analysis] = "running"
    BY <1>1 DEF AdmitCmd, Launchers
  <2> QED
    BY <1>0, <1>1, <2>1, <2>2 DEF AdmitCmd
<1>2. CASE FinishCmd(c)
  BY <1>0, <1>2 DEF FinishCmd
<1> QED
  BY <1>1, <1>2 DEF Cmd

LEMMA CmdStagesStep ==
  ASSUME TypeOK, CmdStages, [Next]_vars
  PROVE  CmdStages'
<1>1. CASE WorkStep
  BY <1>1, OtherCmds, OwnCmd DEF CmdStages
<1>2. CASE CallStep
  BY <1>2, CallFrame DEF CmdStages
<1> QED
  BY <1>1, <1>2, Steps

-----------------------------------------------------------------------------
(* Quiesce *)

\* What Quiesce joined stays joined: the conversation admits nothing ordinary, and the
\* command service it has shut down nothing at all.
LEMMA QuittingStep ==
  ASSUME IInv, Quitting, [Next]_vars
  PROVE  Quitting'
<1> SUFFICES ASSUME Quit \in Callers PROVE Quitting'
  BY DEF Quitting
<1>0. TypeOK /\ pass \in [Callers -> PassStages] /\ result \in [Callers -> {"none", "ok", "err"}]
  BY DEF IInv, TypeOK
<1>a. phase # "open" /\ Lives = {} => Lives' = {}
  BY <1>0, OverStaysOver
<1>b. items' = {} => Lives' = {}
  BY EmptiedMeansOver
<1>1. CASE WorkStep
  <2>1. phase' = phase /\ result' = result
        /\ (pass'[Quit] = pass[Quit]
             \/ (items' = {} /\ pass[Quit] = "waiting" /\ pass'[Quit] = "drained"))
    BY <1>0, <1>1, WorkFrame DEF Woken
  <2>2. ASSUME result[Quit] = "ok" PROVE Executing' = {}
    <3>1. ServiceClosed /\ Executing = {}
      BY <2>2 DEF Quitting, ServiceClosed
    <3> QED
      BY <1>0, <1>1, <3>1, OtherCmds, OwnCmd DEF Executing
  <2> QED
    BY <1>a, <1>b, <2>1, <2>2 DEF Quitting
<1>2. CASE CallStep
  <2>1. Lives' = Lives /\ Executing' = Executing
    BY <1>2, CallFrame DEF Lives, LiveTurns, LiveKids, LiveCards, LiveCmds, Executing
  <2>2. (phase # "open" => phase' # "open") /\ (items = {} => Lives = {})
    BY <1>2, CallFrame, EmptyMeansOver DEF IInv
  <2> USE DEF gate, runtime, work, calls, Go, Report
  <2>3. (pass'[Quit] = pass[Quit] /\ result'[Quit] = result[Quit]) => Quitting'
    BY <2>1, <2>2 DEF Quitting
  <2>4. ASSUME NEW p \in Callers, WaitForEnd(p) \/ Join(p) \/ Settle(p) \/ Expire(p)
        PROVE  Quitting'
    <3>1. CASE p # Quit
      <4>1. pass'[Quit] = pass[Quit] /\ result'[Quit] = result[Quit]
        BY <1>0, <2>4, <3>1 DEF Join, WaitForEnd, TakeTargets, StopTargets, JoinTurns, JoinScope, Drain,
           Settle, Expire, Return
      <4> QED
        BY <2>3, <4>1
    <3>2. CASE p = Quit
      <4>1. pass'[Quit] \notin {"idle", "begun", "closing", "final", "drained"}
            /\ pass[Quit] \notin {"idle", "begun"} /\ result'[Quit] = result[Quit] => Quitting'
        BY <2>1, <2>2 DEF Quitting
      <4>2. CASE TakeTargets(Quit) \/ StopTargets(Quit) \/ JoinTurns(Quit) \/ JoinScope(Quit)
        BY <1>0, <4>1, <4>2 DEF TakeTargets, StopTargets, JoinTurns, JoinScope
      <4>3. CASE Drain(Quit)
        BY <1>0, <2>1, <2>2, <4>3 DEF Drain, Quitting
      <4>4. CASE Expire(Quit)
        BY <1>0, <2>1, <2>2, <4>4 DEF Expire, Return, Quitting
      <4> QED
        BY <2>4, <3>2, <4>2, <4>3, <4>4 DEF Join, WaitForEnd, Settle, Enders
    <3> QED
      BY <3>1, <3>2
  <2>5. CASE Ending
    BY <2>3, <2>5 DEF Ending, Show, AcceptEnd
  <2>6. CASE Analysing
    <3>1. pass'[Quit] = pass[Quit] /\ result'[Quit] = result[Quit]
      BY <1>0, <2>6 DEF Analysing, OpenAnalysis, GrantAnalysis, CloseAnalysis, AnalysisReturns, Return,
         Quit, Analysis
    <3> QED
      BY <2>3, <3>1
  <2>7. CASE Quiescing
    <3>1. CASE BeginQuiesce
      BY <1>0, <2>1, <2>2, <3>1 DEF BeginQuiesce, Quitting
    <3>2. CASE Freeze
      BY <1>0, <2>1, <2>2, <3>2 DEF Freeze, Advance, Rank, Quitting
    <3>3. CASE CancelRoot
      BY <1>0, <2>1, <2>2, <3>3 DEF CancelRoot, Quitting
    <3>4. CASE QuiescePass
      BY <1>0, <2>1, <2>2, <3>4 DEF QuiescePass, Return, Quitting
    <3>5. CASE ShutdownCommands
      BY <1>0, <2>1, <2>2, <3>5 DEF ShutdownCommands, Quitting
    <3>6. CASE QuiesceReturns
      BY <1>0, <2>1, <2>2, <3>6 DEF QuiesceReturns, Quitting
    <3> QED
      BY <2>7, <3>1, <3>2, <3>3, <3>4, <3>5, <3>6 DEF Quiescing
  <2>8. CASE UNCHANGED vars
    BY <2>3, <2>8 DEF vars
  <2> QED
    BY <1>2, <2>4, <2>5, <2>6, <2>7, <2>8 DEF CallStep
<1> QED
  BY <1>1, <1>2, Steps

-----------------------------------------------------------------------------
(* The exit analysis *)

\* An epoch's commands hold items of the registry, so an analysis that found it empty
\* left none running, and only a running analysis admits more.
LEMMA JoinedStep ==
  ASSUME IInv, CmdStages, Joined, [Next]_vars
  PROVE  Joined'
<1> SUFFICES ASSUME Analysis \in Callers PROVE Joined'
  BY DEF Joined
<1>0. TypeOK /\ pass \in [Callers -> PassStages] /\ result \in [Callers -> {"none", "ok", "err"}]
  BY DEF IInv, TypeOK
<1>a. ASSUME items' = {} PROVE ScopedOver'
  <2>1. Held' /\ CmdStages'
    BY HeldStep, CmdStagesStep DEF IInv
  <2>2. \A c \in Cmds : c \in Work /\ c \notin Turns
    BY WorkAssumption DEF Work
  <2>3. \A c \in Cmds : at'[c] # "running"
    BY <1>a, <2>1, <2>2 DEF Held, HoldsOwn
  <2> QED
    BY <2>1, <2>3 DEF CmdStages, ScopedOver
<1>1. CASE WorkStep
  <2>1. result' = result
        /\ (pass'[Analysis] = pass[Analysis]
             \/ (items' = {} /\ pass[Analysis] = "waiting" /\ pass'[Analysis] = "drained"))
    BY <1>0, <1>1, WorkFrame DEF Woken
  <2>2. pass[Analysis] # "running" /\ ScopedOver => ScopedOver'
    BY <1>0, <1>1, OtherCmds, OwnCmd DEF ScopedOver
  <2> QED
    BY <1>a, <2>1, <2>2 DEF Joined
<1>2. CASE CallStep
  <2>1. ScopedOver' = ScopedOver /\ items' = items
    BY <1>2, CallFrame DEF ScopedOver
  <2> USE DEF gate, runtime, work, calls, Go, Report
  <2>2. (pass'[Analysis] = pass[Analysis] /\ result'[Analysis] = result[Analysis]) => Joined'
    BY <2>1 DEF Joined
  <2>3. (pass'[Analysis] \notin {"idle", "drained"}) => Joined'
    BY DEF Joined
  <2>4. ASSUME NEW p \in Callers, WaitForEnd(p) \/ Join(p) \/ Settle(p) \/ Expire(p)
        PROVE  Joined'
    <3>1. CASE p # Analysis
      <4>1. pass'[Analysis] = pass[Analysis] /\ result'[Analysis] = result[Analysis]
        BY <1>0, <2>4, <3>1 DEF Join, WaitForEnd, TakeTargets, StopTargets, JoinTurns, JoinScope, Drain,
           Settle, Expire, Return
      <4> QED
        BY <2>2, <4>1
    <3>2. CASE p = Analysis
      <4>1. CASE TakeTargets(Analysis) \/ StopTargets(Analysis) \/ JoinTurns(Analysis) \/ JoinScope(Analysis)
        BY <1>0, <2>3, <4>1 DEF TakeTargets, StopTargets, JoinTurns, JoinScope
      <4>2. CASE Drain(Analysis)
        BY <1>0, <1>a, <2>1, <2>3, <4>2 DEF Drain, Joined
      <4>3. CASE Expire(Analysis)
        BY <1>0, <4>3 DEF Expire, Return, Joined
      <4> QED
        BY <2>4, <3>2, <4>1, <4>2, <4>3 DEF Join, WaitForEnd, Settle, Enders
    <3> QED
      BY <3>1, <3>2
  <2>5. CASE Ending
    BY <2>2, <2>5 DEF Ending, Show, AcceptEnd
  <2>6. CASE Analysing
    <3>1. CASE AnalysisReturns
      BY <1>0, <2>1, <3>1 DEF AnalysisReturns, Return, Joined
    <3> QED
      BY <1>0, <2>3, <2>6, <3>1 DEF Analysing, OpenAnalysis, GrantAnalysis, CloseAnalysis
  <2>7. CASE Quiescing
    <3>1. pass'[Analysis] = pass[Analysis] /\ result'[Analysis] = result[Analysis]
      BY <1>0, <2>7 DEF Quiescing, BeginQuiesce, Freeze, CancelRoot, QuiescePass, ShutdownCommands,
         QuiesceReturns, Return, Quit, Analysis
    <3> QED
      BY <2>2, <3>1
  <2>8. CASE UNCHANGED vars
    BY <2>2, <2>8 DEF vars
  <2> QED
    BY <1>2, <2>4, <2>5, <2>6, <2>7, <2>8 DEF CallStep
<1> QED
  BY <1>1, <1>2, Steps

-----------------------------------------------------------------------------
(* The stop hooks *)

\* With the slot held around its whole registration, a turn is alone in the FIFO.
LEMMA AloneInFifo ==
  ASSUME TypeOK, ParentsExact, Hooked, Transport = "acp",
         NEW t \in Turns, at[t] = "entered"
  PROVE  parents = <<>>
<1>1. \A u \in Turns : at[u] \notin {"begun", "running", "leaving"}
  BY DEF Hooked
<1>2. Len(parents) = 0
  BY <1>1, FS_EmptySet DEF ParentsExact
<1> QED
  BY <1>2 DEF TypeOK

\* A turn publishes its cancel while its own registration is the only one, and EndWork
\* takes both away.
LEMMA HookedStep ==
  ASSUME TypeOK, ParentsExact, Hooked, [Next]_vars
  PROVE  Hooked'
<1> USE DEF gate, runtime, work, calls, Enter
<1> DEFINE S == TurnStages \cup WorkStages
<1>0. at \in [Work -> S] /\ hook \in [Turns -> Turns \cup {None}] /\ None \notin Turns
      /\ \A t \in Turns : t \in Work
  BY WorkAssumption DEF TypeOK, Work
<1> HIDE DEF S
<1> SUFFICES ASSUME Transport = "acp" PROVE Hooked'
  BY DEF Hooked
<1>a. (slot' = slot /\ parents' = parents /\ hook' = hook /\ \A t \in Turns : at'[t] = at[t])
        => Hooked'
  BY DEF Hooked
<1>1. ASSUME NEW t \in Turns, Turn(t) PROVE Hooked'
  <2>1. \A u \in Turns : u # t => at'[u] = at[u]
    BY <1>0, <1>1 DEF Turn, TakeSlot, BeginTurn, Remember, PublishCancel, FinishTurn, EndWork, TurnDone
  <2>2. CASE TakeSlot(t)
    BY <1>0, <2>1, <2>2 DEF TakeSlot, Hooked
  <2>3. CASE BeginTurn(t)
    BY <1>0, <2>1, <2>3 DEF BeginTurn, Hooked
  <2>4. CASE Remember(t)
    <3>1. at[t] = "entered" /\ at'[t] = "begun" /\ slot' = slot /\ hook' = hook
          /\ parents' = Append(parents, t)
      BY <1>0, <2>4 DEF Remember
    <3>2. parents = <<>>
      BY <3>1, AloneInFifo
    <3>3. parents' = <<t>>
      BY <3>1, <3>2
    <3> QED
      BY <2>1, <3>1, <3>3 DEF Hooked
  <2>5. CASE PublishCancel(t)
    <3>1. at[t] = "begun" /\ at'[t] = "running" /\ slot' = slot /\ parents' = parents
      BY <1>0, <2>5 DEF PublishCancel
    <3>2. parents = <<t>> /\ hook[t] = None
      BY <3>1 DEF Hooked
    <3>3. Unhooked = {1}
      BY <3>2 DEF Unhooked
    <3>4. Newest = 1
      BY <3>3 DEF Newest
    <3>5. hook' = [hook EXCEPT ![t] = t]
      BY <2>5, <3>2, <3>3, <3>4 DEF PublishCancel
    <3> QED
      BY <1>0, <2>1, <3>1, <3>5 DEF Hooked
  <2>6. CASE FinishTurn(t)
    BY <1>0, <2>1, <2>6 DEF FinishTurn, Hooked
  <2>7. CASE EndWork(t)
    <3>1. at[t] = "leaving" /\ at'[t] = "popped" /\ slot' = slot
      BY <1>0, <2>7 DEF EndWork
    <3>2. parents = <<t>>
      BY <3>1 DEF Hooked
    <3>3. hook' = [hook EXCEPT ![t] = None]
      BY <2>7, <3>2 DEF EndWork
    <3>4. \A u \in Turns : u # t => at[u] \notin {"begun", "running", "leaving"}
      BY <3>1 DEF Hooked
    <3> QED
      BY <1>0, <2>1, <3>1, <3>3, <3>4 DEF Hooked
  <2>8. CASE TurnDone(t)
    BY <1>0, <2>1, <2>8 DEF TurnDone, Hooked
  <2> QED
    BY <1>1, <2>2, <2>3, <2>4, <2>5, <2>6, <2>7, <2>8 DEF Turn
<1>2. ASSUME NEW k \in Kids, Kid(k) PROVE Hooked'
  BY <1>0, <1>a, <1>2, WorkAssumption DEF Kid, EnterKid, RefuseKid, RegisterKid, StartKid, ExitKid, FinishKid
<1>3. ASSUME NEW c \in Cards, Card(c) PROVE Hooked'
  BY <1>0, <1>a, <1>3, WorkAssumption DEF Card, DispatchCard, StartCard, FinishCard, PanicCard
<1>4. ASSUME NEW c \in Cmds, Cmd(c) PROVE Hooked'
  BY <1>0, <1>a, <1>4, WorkAssumption DEF Cmd, AdmitCmd, FinishCmd
<1>5. CASE CallStep
  BY <1>5, <1>a, CallFrame
<1> QED
  BY <1>1, <1>2, <1>3, <1>4, <1>5, Steps DEF WorkStep

-----------------------------------------------------------------------------
(* What is told to stop *)

\* A turn does not finish before what it waits for, and frees what it hands on.
LEMMA OwnedStep ==
  ASSUME TypeOK, Owned, [Next]_vars
  PROVE  Owned'
<1> USE WorkAssumption DEF gate, runtime, work, calls, Enter, Free
<1>0. /\ at \in [Work -> TurnStages \cup WorkStages] /\ owner \in [Work -> Turns \cup {Analysis, None}]
      /\ Turns \cup Kids \cup Cards \subseteq Work /\ Analysis \notin Turns /\ None \notin Turns
  BY DEF TypeOK, Work
<1>a. (at' = at /\ owner' = owner) => Owned'
  BY DEF Owned
<1>1. ASSUME NEW t \in Turns, Turn(t) PROVE Owned'
  <2>1. owner' = owner /\ \A w \in Work : w # t => at'[w] = at[w]
    BY <1>0, <1>1 DEF Turn, TakeSlot, BeginTurn, Remember, PublishCancel, FinishTurn, EndWork, TurnDone
  <2>2. at[t] = "running" => Waited(t) = {}
    BY <1>1 DEF Turn, TakeSlot, BeginTurn, Remember, PublishCancel, FinishTurn, EndWork, TurnDone
  <2>3. \A w \in Work : owner[w] # t
    BY <2>2 DEF Owned, Waited
  <2>4. QED
    BY <1>0, <2>1, <2>3 DEF Owned
<1>2. ASSUME NEW k \in Kids, Kid(k) PROVE Owned'
  <2>1. ASSUME NEW t \in Turns, EnterKid(k, t) PROVE Owned'
    BY <1>0, <2>1 DEF EnterKid, Owned
  <2>2. QED
    BY <1>0, <1>2, <2>1 DEF Kid, RefuseKid, RegisterKid, StartKid, ExitKid, FinishKid, Owned
<1>3. ASSUME NEW c \in Cards, Card(c) PROVE Owned'
  <2>1. ASSUME NEW o \in Turns \cup {Analysis}, DispatchCard(c, o) PROVE Owned'
    BY <1>0, <2>1 DEF DispatchCard, Dispatching, Owned
  <2>2. QED
    BY <1>0, <1>3, <2>1 DEF Card, StartCard, FinishCard, PanicCard, Owned
<1>4. ASSUME NEW c \in Cmds, Cmd(c) PROVE Owned'
  <2>1. owner' = owner /\ \A w \in Work \ Cmds : at'[w] = at[w]
    BY <1>0, <1>4 DEF Cmd, AdmitCmd, FinishCmd
  <2>2. QED
    BY <1>0, <2>1 DEF Owned
<1>5. CASE CallStep
  BY <1>5, <1>a, CallFrame
<1>6. QED
  BY <1>1, <1>2, <1>3, <1>4, <1>5, Steps DEF WorkStep

\* What publishes its cancel or starts after the contexts were cancelled finds them so.
LEMMA ReachedStep ==
  ASSUME TypeOK, Reached, [Next]_vars
  PROVE  Reached'
<1> USE WorkAssumption DEF gate, runtime, work, calls, Enter, Ended
<1>0. /\ at \in [Work -> TurnStages \cup WorkStages]
      /\ Turns \cup Kids \cup Cards \cup Cmds \subseteq Work
  BY DEF TypeOK, Work
<1>a. (at' = at /\ down' = down /\ cancelled \subseteq cancelled') => Reached'
  BY DEF Reached
<1>1. ASSUME NEW t \in Turns, Turn(t) PROVE Reached'
  <2>1. down' = down /\ (\A w \in Work : w # t => at'[w] = at[w])
        /\ (\A w \in Work : w # t => (w \in cancelled => w \in cancelled'))
    BY <1>0, <1>1 DEF Turn, TakeSlot, BeginTurn, Remember, PublishCancel, FinishTurn, EndWork, TurnDone
  <2>2. Transport = "acp" /\ at'[t] = "running" /\ down => t \in cancelled'
    BY <1>0, <1>1 DEF Turn, TakeSlot, BeginTurn, Remember, PublishCancel, FinishTurn, EndWork, TurnDone
  <2>3. QED
    BY <1>0, <2>1, <2>2 DEF Reached
<1>2. ASSUME NEW k \in Kids, Kid(k) PROVE Reached'
  <2>1. down' = down /\ (\A w \in Work : w # k => at'[w] = at[w])
        /\ (\A w \in Work : w # k => (w \in cancelled => w \in cancelled'))
    BY <1>0, <1>2 DEF Kid, EnterKid, RefuseKid, RegisterKid, StartKid, ExitKid, FinishKid
  <2>2. at'[k] = "running" /\ down => k \in cancelled'
    BY <1>0, <1>2 DEF Kid, EnterKid, RefuseKid, RegisterKid, StartKid, ExitKid, FinishKid
  <2>3. QED
    BY <1>0, <2>1, <2>2 DEF Reached
<1>3. ASSUME NEW c \in Cards, Card(c) PROVE Reached'
  <2>1. down' = down /\ (\A w \in Work : w # c => at'[w] = at[w])
        /\ (\A w \in Work : w # c => (w \in cancelled => w \in cancelled'))
    BY <1>0, <1>3 DEF Card, DispatchCard, StartCard, FinishCard, PanicCard
  <2>2. QED
    BY <1>0, <2>1 DEF Reached
<1>4. ASSUME NEW c \in Cmds, Cmd(c) PROVE Reached'
  <2>1. down' = down /\ (\A w \in Work : w # c => at'[w] = at[w])
        /\ (\A w \in Work : w # c => (w \in cancelled => w \in cancelled'))
    BY <1>0, <1>4 DEF Cmd, AdmitCmd, FinishCmd
  <2>2. QED
    BY <1>0, <2>1 DEF Reached
<1>5. CASE CancelRoot
  BY <1>5 DEF CancelRoot, Reached
<1>6. CASE CallStep /\ ~CancelRoot
  <2>1. at' = at /\ down' = down
    BY <1>6 DEF CallStep, Join, WaitForEnd, TakeTargets, StopTargets, JoinTurns, JoinScope, Drain,
       Settle, Expire, Ending, Show, AcceptEnd, Analysing, OpenAnalysis, GrantAnalysis, CloseAnalysis,
       AnalysisReturns, Quiescing, BeginQuiesce, Freeze, QuiescePass, ShutdownCommands, QuiesceReturns,
       vars
  <2>2. cancelled \subseteq cancelled'
    BY <1>6 DEF CallStep, Join, WaitForEnd, TakeTargets, StopTargets, JoinTurns, JoinScope, Drain,
       Settle, Expire, Ending, Show, AcceptEnd, Analysing, OpenAnalysis, GrantAnalysis, CloseAnalysis,
       AnalysisReturns, Quiescing, BeginQuiesce, Freeze, QuiescePass, ShutdownCommands, QuiesceReturns,
       vars
  <2>3. QED
    BY <1>a, <2>1, <2>2
<1>7. QED
  BY <1>1, <1>2, <1>3, <1>4, <1>5, <1>6, Steps DEF WorkStep

\* A service that is shut down admits nothing more.
LEMMA OrderedStep ==
  ASSUME TypeOK, Ordered, [Next]_vars
  PROVE  Ordered'
<1> SUFFICES ASSUME Quit \in Callers PROVE Ordered'
  BY DEF Ordered
<1> USE WorkAssumption DEF gate, runtime, work, calls, Enter, Ended
<1>0. /\ at \in [Work -> TurnStages \cup WorkStages] /\ pass \in [Callers -> PassStages]
      /\ Turns \cup Kids \cup Cards \cup Cmds \subseteq Work
  BY DEF TypeOK, Work
<1>1. CASE WorkStep
  <2>1. pass'[Quit] = "final" => pass[Quit] = "final"
    BY <1>0, <1>1, WorkFrame DEF Woken
  <2>2. pass[Quit] = "final" => ServiceClosed
    BY DEF ServiceClosed
  <2>3. pass[Quit] = "final" => Executing' \subseteq Executing
    BY <1>1, <2>2, OtherCmds, OwnCmd DEF Executing
  <2>4. ASSUME NEW c \in Executing', c \in cancelled, pass[Quit] = "final" PROVE c \in cancelled'
    <3>1. c \in Cmds /\ c \in Work /\ at'[c] = "running"
      BY <1>0, <2>4 DEF Executing
    <3>2. ASSUME NEW t \in Turns, Turn(t) PROVE c \in cancelled'
      BY <2>4, <3>1, <3>2 DEF Turn, TakeSlot, BeginTurn, Remember, PublishCancel, FinishTurn, EndWork,
         TurnDone
    <3>3. ASSUME NEW k \in Kids, Kid(k) PROVE c \in cancelled'
      BY <2>4, <3>1, <3>3 DEF Kid, EnterKid, RefuseKid, RegisterKid, StartKid, ExitKid, FinishKid
    <3>4. ASSUME NEW d \in Cards, Card(d) PROVE c \in cancelled'
      BY <2>4, <3>1, <3>4 DEF Card, DispatchCard, StartCard, FinishCard, PanicCard
    <3>5. ASSUME NEW d \in Cmds, Cmd(d) PROVE c \in cancelled'
      BY <1>0, <2>4, <3>1, <3>5 DEF Cmd, AdmitCmd, FinishCmd
    <3>6. QED
      BY <1>1, <3>2, <3>3, <3>4, <3>5 DEF WorkStep
  <2>5. QED
    BY <2>1, <2>3, <2>4 DEF Ordered
<1>2. CASE CallStep
  <2>1. Executing' = Executing
    BY <1>2, CallFrame DEF Executing
  <2> USE DEF Go, Report
  <2>2. CASE ShutdownCommands
    BY <2>1, <2>2 DEF ShutdownCommands, Ordered
  <2>3. CASE ~ShutdownCommands
    <3>1. pass'[Quit] = "final" => pass[Quit] = "final"
      BY <1>0, <1>2, <2>3 DEF CallStep, Join, WaitForEnd, TakeTargets, StopTargets, JoinTurns, JoinScope,
         Drain, Settle, Expire, Return, Ending, Show, AcceptEnd, Analysing, OpenAnalysis, GrantAnalysis,
         CloseAnalysis, AnalysisReturns, Quiescing, BeginQuiesce, Freeze, CancelRoot, QuiescePass,
         QuiesceReturns, Enders, Quit, Analysis, vars
    <3>2. cancelled \subseteq cancelled'
      BY <1>2, <2>3 DEF CallStep, Join, WaitForEnd, TakeTargets, StopTargets, JoinTurns, JoinScope,
         Drain, Settle, Expire, Ending, Show, AcceptEnd, Analysing, OpenAnalysis, GrantAnalysis,
         CloseAnalysis, AnalysisReturns, Quiescing, BeginQuiesce, Freeze, CancelRoot, QuiescePass,
         QuiesceReturns, vars
    <3>3. QED
      BY <2>1, <3>1, <3>2 DEF Ordered
  <2>4. QED
    BY <2>2, <2>3
<1>3. QED
  BY <1>1, <1>2, Steps

-----------------------------------------------------------------------------
(* The theorems *)

LEMMA InitJInv == Init => JInv
<1> SUFFICES ASSUME Init PROVE JInv
  OBVIOUS
<1>1. \A w \in Work : at[w] = "idle"
  BY DEF Init
<1>2. Quitting /\ CmdStages /\ Joined
  BY <1>1 DEF Init, Quitting, CmdStages, Joined, Work
<1>3. Hooked
  BY <1>1 DEF Init, Hooked, Work
<1>4. Owned
  BY <1>1, WorkAssumption DEF Init, Owned, Work
<1>5. Reached /\ Ordered
  BY DEF Init, Reached, Ordered
<1> QED
  BY <1>2, <1>3, <1>4, <1>5, InitIInv DEF JInv

LEMMA JInvariant == Spec => []JInv
<1>1. IInv /\ [Next]_vars => IInv'
  BY TypeStep, HeldStep, ParentsStep, FrozenStep, ExitsStep, QuietStep DEF IInv
<1>2. JInv /\ [Next]_vars => JInv'
  BY <1>1, QuittingStep, CmdStagesStep, JoinedStep, HookedStep, OwnedStep, ReachedStep, OrderedStep
     DEF JInv, IInv
<1> QED
  BY InitJInv, <1>2, PTL DEF Spec

\* A Quiesce that reports no error has left nothing ordinary and no execution, and
\* nothing begins after it (Quiesce, JobManager.Shutdown).
THEOREM QuiescedStaysQuiet == Spec => []QuiescedIsQuiet
<1>1. JInv => QuiescedIsQuiet
  BY DEF JInv, Quitting, QuiescedIsQuiet
<1> QED
  BY JInvariant, <1>1, PTL

\* An analysis that reports no failed join left no command of any epoch, until the
\* next one opens (RunExitAnalysis).
THEOREM AnalysisLeavesNoCommand == Spec => []AnalysisJoined
<1>1. JInv => AnalysisJoined
  BY DEF JInv, Joined, ScopedOver, AnalysisJoined
<1> QED
  BY JInvariant, <1>1, PTL

\* A stop pass finds the stop hook of every running ACP turn (setParentCancel,
\* WorkStopTargets): the slot keeps a second registration out of the FIFO, so neither
\* the newest unset hook nor the oldest registration is ever another turn's.
THEOREM HooksReachTurns == Spec => []HookReachesTurn
<1>1. JInv => HookReachesTurn
  <2> SUFFICES ASSUME JInv, Transport = "acp", NEW t \in Turns, at[t] = "running"
               PROVE  \E i \in items \cap Turns : hook[i] = t
    BY DEF HookReachesTurn
  <2>1. parents = <<t>> /\ hook[t] = t
    BY DEF JInv, Hooked
  <2>2. t \in Range(parents)
    BY <2>1 DEF Range
  <2>3. t \in items
    BY <2>2 DEF JInv, IInv, ParentsExact
  <2> QED
    BY <2>1, <2>3
<1> QED
  BY JInvariant, <1>1, PTL

\* Over ACP, Quiesce waits for nothing that was not told to stop: what publishes its
\* cancel or starts after the contexts were cancelled is cancelled then, and what cannot be
\* cancelled itself is waited for by a turn that was (Runtime.BeginWork,
\* SetSubagentCancel, JobManager.Shutdown).
THEOREM QuiesceReachesAll == Spec => []QuiesceTellsAll
<1>1. JInv => QuiesceTellsAll
  <2>1. ASSUME JInv, down, Transport = "acp", NEW w \in Lives \ Cmds,
               at[w] \in {"created", "carded", "running"}
        PROVE  ToldToStop(w)
    <3>1. owner \in [Work -> Turns \cup {Analysis, None}]
          /\ (Turns \cup Kids \cup Cards) \subseteq Work
      BY <2>1 DEF JInv, IInv, TypeOK, Work
    <3>2. CASE w \in LiveTurns
      BY <2>1, <3>2 DEF JInv, Reached, ToldToStop, LiveTurns
    <3>3. ASSUME owner[w] \in Turns, w \in Work PROVE ToldToStop(w)
      BY <2>1, <3>3 DEF JInv, Owned, Reached, ToldToStop
    <3>4. CASE w \in LiveKids
      <4>1. CASE at[w] = "running"
        BY <2>1, <3>4, <4>1 DEF JInv, Reached, ToldToStop, LiveKids
      <4>2. CASE at[w] # "running"
        BY <2>1, <3>1, <3>3, <3>4, <4>2 DEF JInv, Owned, LiveKids
      <4>3. QED
        BY <4>1, <4>2
    <3>5. CASE w \in LiveCards
      BY <2>1, <3>1, <3>3, <3>5 DEF JInv, Owned, LiveCards
    <3>6. QED
      BY <2>1, <3>2, <3>4, <3>5 DEF Lives, LiveCmds
  <2>2. QED
    BY <2>1 DEF QuiesceTellsAll, JInv, Ordered
<1> QED
  BY JInvariant, <1>1, PTL
=============================================================================
