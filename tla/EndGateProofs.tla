---------------------------- MODULE EndGateProofs ----------------------------
(***************************************************************************)
(* Proofs, for any turns, children, workers, commands, callers, transport  *)
(* and number of analyses, of safety invariants the runs of MCEndGate      *)
(* check and of the refinement of WorkMembership.                          *)
(***************************************************************************)
EXTENDS EndGate, FiniteSetTheorems, TLAPS

-----------------------------------------------------------------------------
(* The inductive invariant, part by part *)

Entered == {t \in Turns : at[t] = "entered"}
Begun == {t \in Turns : at[t] \in {"begun", "running", "leaving"}}

\* Whatever a conclusion has to wait for outside the FIFO holds an item of its own,
\* and a turn has none before it registers.
HoldsOwn(w, stage) ==
  IF w \in Turns THEN stage = "entered" ELSE stage \in {"created", "carded", "running"}
Held ==
  /\ \A w \in Work : HoldsOwn(w, at[w]) => w \in items
  /\ \A t \in Turns : at[t] \in {"idle", "slot", "refused"} => t \notin items

\* No parent is in the FIFO twice.
Once == \A i, j \in DOMAIN parents : parents[i] = parents[j] => i = j

\* An end is accepted before a pass runs, and acceptance freezes the phase.
Frozen ==
  /\ accepted => phase # "open"
  /\ \A p \in Enders : pass[p] # "idle" => accepted

\* What an end caller may conclude, or already has.
Concluded ==
  phase \in {"postmortem", "closing"} \/ \E p \in Enders : pass[p] = "drained"
Quiet == Concluded => Lives = {}

\* The intent is the exit's as long as its postmortem can be seen.
Exits ==
  /\ phase = "postmortem" => intent = "exit"
  /\ epoch > 0 => phase \in {"postmortem", "closing"} /\ intent = "exit"

IInv == TypeOK /\ Held /\ Once /\ ParentsExact /\ Frozen /\ Quiet /\ Exits

-----------------------------------------------------------------------------
(* Types *)

\* Every action keeps every variable in its range.
LEMMA TypeStep == TypeOK /\ [Next]_vars => TypeOK'
<1> SUFFICES ASSUME TypeOK, [Next]_vars PROVE TypeOK'
  OBVIOUS
<1> USE DEF TypeOK, gate, runtime, work, calls, Enter, Ended, Free, Register, Release,
            Woken, Go, Report, Advance, Phases, TurnStages, WorkStages, PassStages
<1>1. ASSUME NEW t \in Turns, Turn(t) PROVE TypeOK'
  <2>0. t \in Work
    BY DEF Work
  <2>1. CASE TakeSlot(t)
    BY <2>0, <2>1 DEF TakeSlot
  <2>2. CASE BeginTurn(t)
    BY <2>0, <2>2 DEF BeginTurn
  <2>3. CASE Remember(t)
    BY <2>0, <2>3 DEF Remember
  <2>4. CASE PublishCancel(t)
    BY <2>0, <2>4 DEF PublishCancel
  <2>5. CASE FinishTurn(t)
    BY <2>0, <2>5 DEF FinishTurn
  <2>6. CASE EndWork(t)
    <3>1. parents # <<>> => Head(parents) \in Turns /\ Tail(parents) \in Seq(Turns)
      OBVIOUS
    <3>2. parents' \in Seq(Turns) /\ hook' \in [Turns -> Turns \cup {None}]
      BY <2>6, <3>1 DEF EndWork
    <3> QED
      BY <2>0, <2>6, <3>2 DEF EndWork
  <2>7. CASE TurnDone(t)
    BY <2>0, <2>7 DEF TurnDone
  <2> QED
    BY <1>1, <2>1, <2>2, <2>3, <2>4, <2>5, <2>6, <2>7 DEF Turn
<1>2. ASSUME NEW k \in Kids, Kid(k) PROVE TypeOK'
  <2>0. k \in Work
    BY DEF Work
  <2>1. ASSUME NEW t \in Turns, EnterKid(k, t) PROVE TypeOK'
    BY <2>0, <2>1 DEF EnterKid
  <2>2. CASE RefuseKid(k)
    BY <2>0, <2>2 DEF RefuseKid
  <2>3. CASE RegisterKid(k)
    BY <2>0, <2>3 DEF RegisterKid
  <2>4. CASE StartKid(k)
    BY <2>0, <2>4 DEF StartKid
  <2>5. CASE ExitKid(k)
    BY <2>0, <2>5 DEF ExitKid
  <2>6. CASE FinishKid(k)
    BY <2>0, <2>6 DEF FinishKid
  <2> QED
    BY <1>2, <2>1, <2>2, <2>3, <2>4, <2>5, <2>6 DEF Kid
<1>3. ASSUME NEW c \in Cards, Card(c) PROVE TypeOK'
  <2>0. c \in Work
    BY DEF Work
  <2>1. ASSUME NEW o \in Turns \cup {Analysis}, DispatchCard(c, o) PROVE TypeOK'
    BY <2>0, <2>1 DEF DispatchCard
  <2>2. CASE StartCard(c)
    BY <2>0, <2>2 DEF StartCard
  <2>3. CASE FinishCard(c)
    BY <2>0, <2>3 DEF FinishCard
  <2>4. CASE PanicCard(c)
    BY <2>0, <2>4 DEF PanicCard
  <2> QED
    BY <1>3, <2>1, <2>2, <2>3, <2>4 DEF Card
<1>4. ASSUME NEW c \in Cmds, Cmd(c) PROVE TypeOK'
  <2>0. c \in Work
    BY DEF Work
  <2>1. ASSUME NEW s \in 0..MaxEpoch, AdmitCmd(c, s) PROVE TypeOK'
    BY <2>0, <2>1 DEF AdmitCmd
  <2>2. CASE FinishCmd(c)
    BY <2>0, <2>2 DEF FinishCmd
  <2> QED
    BY <1>4, <2>1, <2>2 DEF Cmd
<1>5. ASSUME NEW p \in Callers, WaitForEnd(p) \/ Join(p) \/ Settle(p) \/ Expire(p)
      PROVE  TypeOK'
  <2>1. CASE WaitForEnd(p)
    BY <2>1 DEF WaitForEnd
  <2>2. CASE TakeTargets(p)
    <3>1. Targets(passScope[p]) \subseteq Work
      BY DEF Targets, Work
    <3> QED
      BY <2>2, <3>1 DEF TakeTargets
  <2>3. CASE StopTargets(p)
    <3>1. todo[p] \subseteq Work /\ Executing \subseteq Work
      BY DEF Executing, Work
    <3> QED
      BY <2>3, <3>1 DEF StopTargets
  <2>4. CASE JoinTurns(p)
    BY <2>4 DEF JoinTurns
  <2>5. CASE JoinScope(p)
    BY <2>5 DEF JoinScope
  <2>6. CASE Drain(p)
    BY <2>6 DEF Drain
  <2>7. CASE Settle(p)
    BY <2>7, HostAssumption DEF Settle, Return
  <2>8. CASE Expire(p)
    BY <2>8, HostAssumption DEF Expire, Return
  <2> QED
    BY <1>5, <2>1, <2>2, <2>3, <2>4, <2>5, <2>6, <2>7, <2>8 DEF Join
<1>6. CASE Ending
  <2>1. Ordinary \subseteq Work
    BY DEF Ordinary
  <2>2. CASE Show
    BY <2>1, <2>2 DEF Show
  <2>3. ASSUME NEW why \in {"exit", "replace"}, AcceptEnd(why) PROVE TypeOK'
    BY <2>1, <2>3 DEF AcceptEnd
  <2> QED
    BY <1>6, <2>2, <2>3 DEF Ending
<1>7. CASE Analysing
  <2>1. CASE OpenAnalysis
    BY <2>1, HostAssumption DEF OpenAnalysis
  <2>2. CASE GrantAnalysis
    BY <2>2 DEF GrantAnalysis
  <2>3. CASE CloseAnalysis
    BY <2>3, HostAssumption DEF CloseAnalysis
  <2>4. CASE AnalysisReturns
    BY <2>4, HostAssumption DEF AnalysisReturns, Return
  <2> QED
    BY <1>7, <2>1, <2>2, <2>3, <2>4 DEF Analysing
<1>8. CASE Quiescing
  <2>1. CASE BeginQuiesce
    BY <2>1 DEF BeginQuiesce
  <2>2. CASE Freeze
    BY <2>2 DEF Freeze
  <2>3. CASE CancelRoot
    BY <2>3 DEF CancelRoot, Work
  <2>4. CASE QuiescePass
    BY <2>4, HostAssumption DEF QuiescePass, Return
  <2>5. CASE ShutdownCommands
    BY <2>5 DEF ShutdownCommands, Executing, Work
  <2>6. CASE QuiesceReturns
    BY <2>6 DEF QuiesceReturns
  <2> QED
    BY <1>8, <2>1, <2>2, <2>3, <2>4, <2>5, <2>6 DEF Quiescing
<1>9. CASE UNCHANGED vars
  BY <1>9 DEF vars
<1> QED
  BY <1>1, <1>2, <1>3, <1>4, <1>5, <1>6, <1>7, <1>8, <1>9 DEF Next

-----------------------------------------------------------------------------
(* The registry *)

\* An empty registry means that nothing ordinary is left: what is not in the FIFO
\* holds its own item, and the FIFO counts the turns whose items may be swapped.
LEMMA EmptyMeansOver == TypeOK /\ Held /\ ParentsExact /\ items = {} => Lives = {}
<1> SUFFICES ASSUME TypeOK, Held, ParentsExact, items = {} PROVE Lives = {}
  OBVIOUS
<1>1. Range(parents) = {} /\ Entered = {}
  BY DEF ParentsExact, Held, HoldsOwn, Entered, Work
<1>2. Cardinality(Begun) = 0
  BY <1>1, FS_EmptySet DEF ParentsExact, Begun
<1>3. Begun = {}
  BY <1>2, WorkAssumption, FS_Subset, FS_EmptySet DEF Begun
<1>4. LiveTurns = {}
  BY <1>1, <1>3 DEF Entered, Begun, LiveTurns
<1>5. LiveKids = {} /\ LiveCards = {} /\ LiveCmds = {}
  BY WorkAssumption DEF Held, HoldsOwn, LiveKids, LiveCards, LiveCmds, Work
<1> QED
  BY <1>4, <1>5 DEF Lives

\* Only a step that empties the registry, or finds it empty, lets an end conclude.
LEMMA ConcludedWhenEmpty ==
  ASSUME TypeOK, [Next]_vars, ~Concluded, Concluded'
  PROVE  items' = {}
<1> USE DEF Concluded, gate, runtime, work, calls, Enter, Go, Report, Woken, TypeOK
<1>0. (phase' = phase /\ pass' = pass) => FALSE
  OBVIOUS
<1>1. ASSUME NEW w \in Work, Release(w), phase' = phase PROVE items' = {}
  BY <1>1 DEF Release
<1>2. ASSUME NEW t \in Turns, Turn(t) PROVE items' = {}
  <2>1. CASE EndWork(t)
    BY <2>1 DEF EndWork, Release
  <2> QED
    BY <1>0, <1>2, <2>1 DEF Turn, TakeSlot, BeginTurn, Remember, PublishCancel, FinishTurn, TurnDone
<1>3. ASSUME NEW k \in Kids, Kid(k) PROVE items' = {}
  BY <1>0, <1>1, <1>3 DEF Kid, EnterKid, RefuseKid, RegisterKid, StartKid, ExitKid, FinishKid, Work
<1>4. ASSUME NEW c \in Cards, Card(c) PROVE items' = {}
  BY <1>0, <1>1, <1>4 DEF Card, DispatchCard, StartCard, FinishCard, PanicCard, Work
<1>5. ASSUME NEW c \in Cmds, Cmd(c) PROVE items' = {}
  BY <1>0, <1>1, <1>5 DEF Cmd, AdmitCmd, FinishCmd, Work
<1>6. ASSUME NEW p \in Callers, WaitForEnd(p) \/ Join(p) \/ Settle(p) \/ Expire(p)
      PROVE  items' = {}
  <2>1. CASE Drain(p)
    BY <2>1 DEF Drain, Enders
  <2>2. CASE WaitForEnd(p)
    BY <2>2 DEF WaitForEnd
  <2>7. CASE TakeTargets(p)
    BY <2>7 DEF TakeTargets
  <2>8. CASE StopTargets(p)
    BY <2>8 DEF StopTargets
  <2>5. CASE JoinTurns(p)
    BY <2>5 DEF JoinTurns
  <2>6. CASE JoinScope(p)
    BY <2>6 DEF JoinScope
  <2>3. CASE Settle(p)
    BY <2>3 DEF Settle
  <2>4. CASE Expire(p)
    BY <2>4 DEF Expire, Return
  <2> QED
    BY <1>6, <2>1, <2>2, <2>3, <2>4, <2>5, <2>6, <2>7, <2>8 DEF Join
<1>7. CASE Ending
  BY <1>0, <1>7 DEF Ending, Show, AcceptEnd
<1>8. CASE Analysing
  BY <1>8 DEF Analysing, OpenAnalysis, GrantAnalysis, CloseAnalysis, AnalysisReturns, Return, Enders
<1>9. CASE Quiescing
  BY <1>9 DEF Quiescing, BeginQuiesce, Freeze, Advance, Rank, CancelRoot, QuiescePass,
     ShutdownCommands, QuiesceReturns, Return, Enders
<1>10. CASE UNCHANGED vars
  BY <1>0, <1>10 DEF vars
<1> QED
  BY <1>2, <1>3, <1>4, <1>5, <1>6, <1>7, <1>8, <1>9, <1>10 DEF Next

\* Once nothing ordinary is left in a conversation that admits nothing, nothing
\* ordinary begins: a worker of a turn needs a running turn.
LEMMA OverStaysOver ==
  ASSUME TypeOK, [Next]_vars, phase # "open", Lives = {}
  PROVE  Lives' = {}
<1> USE DEF Lives, LiveTurns, LiveKids, LiveCards, LiveCmds, gate, runtime, work, calls,
            Enter, Free, TypeOK
<1>0. (at' = at /\ owner' = owner /\ scope' = scope) => Lives' = {}
  OBVIOUS
<1>1. ASSUME NEW t \in Turns, Turn(t) PROVE Lives' = {}
  <2>1. at' = [at EXCEPT ![t] = at'[t]] /\ owner' = owner /\ scope' = scope
    BY <1>1 DEF Turn, TakeSlot, BeginTurn, Remember, PublishCancel, FinishTurn, EndWork, TurnDone, Work
  <2>2. at'[t] \notin {"entered", "begun", "running", "leaving"}
    BY <1>1 DEF Turn, TakeSlot, BeginTurn, Remember, PublishCancel, FinishTurn, EndWork, TurnDone,
       Admits, Work
  <2> QED
    BY <2>1, <2>2, WorkAssumption DEF Work
<1>2. ASSUME NEW k \in Kids, Kid(k) PROVE Lives' = {}
  <2>1. at' = [at EXCEPT ![k] = at'[k]] /\ scope' = scope
        /\ (owner' = owner \/ owner' = [owner EXCEPT ![k] = None])
    BY <1>2 DEF Kid, EnterKid, RefuseKid, RegisterKid, StartKid, ExitKid, FinishKid, Work
  <2>2. at'[k] \notin {"created", "carded", "running"}
    BY <1>2 DEF Kid, EnterKid, RefuseKid, RegisterKid, StartKid, ExitKid, FinishKid, Admits, Work
  <2> QED
    BY <2>1, <2>2, WorkAssumption DEF Work
<1>3. ASSUME NEW c \in Cards, Card(c) PROVE Lives' = {}
  <2>1. ASSUME NEW o \in Turns \cup {Analysis}, DispatchCard(c, o) PROVE Lives' = {}
    <3>1. o = Analysis
      BY <2>1 DEF DispatchCard, Dispatching
    <3>2. at' = [at EXCEPT ![c] = "carded"] /\ owner' = [owner EXCEPT ![c] = Analysis] /\ scope' = scope
      BY <2>1, <3>1 DEF DispatchCard
    <3> QED
      BY <3>2, WorkAssumption DEF Work
  <2>2. CASE StartCard(c)
    BY <2>2, WorkAssumption DEF StartCard, Work
  <2>3. CASE FinishCard(c) \/ PanicCard(c)
    BY <2>3, WorkAssumption DEF FinishCard, PanicCard, Work
  <2> QED
    BY <1>3, <2>1, <2>2, <2>3 DEF Card
<1>4. ASSUME NEW c \in Cmds, Cmd(c) PROVE Lives' = {}
  <2>1. ASSUME NEW s \in 0..MaxEpoch, AdmitCmd(c, s) PROVE Lives' = {}
    <3>1. s # 0
      BY <2>1 DEF AdmitCmd, Admits
    <3>2. at' = [at EXCEPT ![c] = "running"] /\ scope' = [scope EXCEPT ![c] = s] /\ owner' = owner
      BY <2>1 DEF AdmitCmd
    <3> QED
      BY <3>1, <3>2, WorkAssumption DEF Work
  <2>2. CASE FinishCmd(c)
    BY <2>2, WorkAssumption DEF FinishCmd, Work
  <2> QED
    BY <1>4, <2>1, <2>2 DEF Cmd
<1>5. ASSUME NEW p \in Callers, WaitForEnd(p) \/ Join(p) \/ Settle(p) \/ Expire(p)
      PROVE  Lives' = {}
  BY <1>0, <1>5 DEF Join, WaitForEnd, TakeTargets, StopTargets, JoinTurns, JoinScope, Drain, Settle, Expire
<1>6. CASE Ending \/ Analysing \/ Quiescing \/ UNCHANGED vars
  BY <1>0, <1>6 DEF Ending, Show, AcceptEnd, Analysing, OpenAnalysis, GrantAnalysis, CloseAnalysis,
     AnalysisReturns, Quiescing, BeginQuiesce, Freeze, CancelRoot, QuiescePass, ShutdownCommands,
     QuiesceReturns, vars
<1> QED
  BY <1>1, <1>2, <1>3, <1>4, <1>5, <1>6 DEF Next

\* What moving one operation does to the sets of turns the FIFO is about.
LEMMA TurnMoves ==
  ASSUME NEW S, at \in [Work -> S], NEW t \in Turns, NEW v \in S, at' = [at EXCEPT ![t] = v]
  PROVE  /\ v \in {"begun", "running", "leaving"} => Begun' = Begun \cup {t}
         /\ v \in {"begun", "running", "leaving"} /\ t \in Begun => Begun' = Begun
         /\ v \notin {"begun", "running", "leaving"} => Begun' = Begun \ {t}
         /\ v \notin {"begun", "running", "leaving"} /\ t \notin Begun => Begun' = Begun
         /\ v = "entered" => Entered' = Entered \cup {t}
         /\ v # "entered" => Entered' = Entered \ {t}
         /\ v # "entered" /\ t \notin Entered => Entered' = Entered
<1>1. \A x \in Turns : at'[x] = IF x = t THEN v ELSE at[x]
  BY DEF Work
<1>2. v \in {"begun", "running", "leaving"} => Begun' = Begun \cup {t}
  BY <1>1 DEF Begun
<1>3. v \notin {"begun", "running", "leaving"} => Begun' = Begun \ {t}
  BY <1>1 DEF Begun
<1>4. v = "entered" => Entered' = Entered \cup {t}
  BY <1>1 DEF Entered
<1>5. v # "entered" => Entered' = Entered \ {t}
  BY <1>1 DEF Entered
<1> QED
  BY <1>2, <1>3, <1>4, <1>5, Zenon

LEMMA OtherMoves ==
  ASSUME NEW S, at \in [Work -> S], NEW w \in Work, w \notin Turns, NEW v \in S,
         at' = [at EXCEPT ![w] = v]
  PROVE  Begun' = Begun /\ Entered' = Entered
<1>1. \A x \in Turns : at'[x] = at[x]
  BY DEF Work
<1> QED
  BY <1>1 DEF Begun, Entered

\* An operation that moves keeps, takes or releases its own item only.
LEMMA OwnItem ==
  ASSUME Held, NEW S, at \in [Work -> S], NEW w \in Work, NEW v \in S, at' = [at EXCEPT ![w] = v],
         items' \in {items, items \cup {w}, items \ {w}},
         HoldsOwn(w, v) => w \in items',
         w \in Turns /\ v \in {"idle", "slot", "refused"} => w \notin items'
  PROVE  Held'
<1>1. \A x \in Work : at'[x] = IF x = w THEN v ELSE at[x]
  OBVIOUS
<1>2. \A x \in Work : x # w => (x \in items' <=> x \in items)
  OBVIOUS
<1>3. \A x \in Work : HoldsOwn(x, at'[x]) => x \in items'
  BY <1>1, <1>2 DEF Held
<1>4. \A t \in Turns : at'[t] \in {"idle", "slot", "refused"} => t \notin items'
  BY <1>1, <1>2 DEF Held, Work
<1> QED
  BY <1>3, <1>4 DEF Held, HoldsOwn

\* Every operation holds its item until its own release.
LEMMA HeldStep ==
  ASSUME TypeOK, Held, Once, ParentsExact, [Next]_vars
  PROVE  Held'
<1> USE DEF gate, runtime, work, calls, Enter, Register, Release, HoldsOwn
<1> DEFINE S == TurnStages \cup WorkStages
<1>0. at \in [Work -> S]
  BY DEF TypeOK
<1>a. \A v \in {"idle", "slot", "refused", "entered", "begun", "running", "leaving", "popped", "over",
             "created", "carded", "released", "panicked"} : v \in S
  BY DEF TurnStages, WorkStages
<1> HIDE DEF S
<1>b. (at' = at /\ items' = items) => Held'
  BY DEF Held
<1>1. ASSUME NEW t \in Turns, Turn(t) PROVE Held'
  <2>0. t \in Work
    BY DEF Work
  <2>1. CASE TakeSlot(t)
    <3>1. t \notin items
      BY <2>0, <2>1 DEF TakeSlot, Held
    <3> QED
      BY <1>0, <1>a, <2>0, <2>1, <3>1, OwnItem DEF TakeSlot
  <2>2. CASE BeginTurn(t)
    <3>1. t \notin items
      BY <2>0, <2>2 DEF BeginTurn, Held
    <3>2. CASE ~quiescing /\ Admits(0)
      BY <1>0, <1>a, <2>0, <2>2, <3>2, OwnItem DEF BeginTurn
    <3>3. CASE ~(~quiescing /\ Admits(0))
      BY <1>0, <1>a, <2>0, <2>2, <3>1, <3>3, OwnItem DEF BeginTurn
    <3> QED
      BY <3>2, <3>3
  <2>3. CASE Remember(t)
    <3>1. CASE Transport = "acp"
      <4>1. at' = [at EXCEPT ![t] = "begun"] /\ items' = items
        BY <2>3, <3>1 DEF Remember
      <4> QED
        BY <1>0, <1>a, <2>0, <4>1, OwnItem
    <3>2. CASE Transport # "acp"
      <4>1. at' = [at EXCEPT ![t] = "running"] /\ items' = items
        BY <2>3, <3>2 DEF Remember
      <4> QED
        BY <1>0, <1>a, <2>0, <4>1, OwnItem
    <3> QED
      BY <3>1, <3>2
  <2>4. CASE PublishCancel(t)
    BY <1>0, <1>a, <2>0, <2>4, OwnItem DEF PublishCancel
  <2>5. CASE FinishTurn(t)
    BY <1>0, <1>a, <2>0, <2>5, OwnItem DEF FinishTurn
  <2>6. CASE TurnDone(t)
    BY <1>0, <1>a, <2>0, <2>6, OwnItem DEF TurnDone
  <2>7. CASE EndWork(t)
    <3>1. \A x \in Work : at'[x] = IF x = t THEN "popped" ELSE at[x]
      BY <1>0, <2>0, <2>7 DEF EndWork
    <3>2. items' = items \/ (parents # <<>> /\ items' = items \ {Head(parents)})
      BY <2>7 DEF EndWork
    <3>3. parents # <<>> => Head(parents) = parents[1] /\ 1 \in DOMAIN parents
      BY DEF TypeOK
    <3>4. parents # <<>> => Head(parents) \in Turns /\ at[Head(parents)] # "entered"
      BY <3>3 DEF ParentsExact, Range
    <3>5. \A x \in Work : HoldsOwn(x, at'[x]) => x \in items'
      BY <3>1, <3>2, <3>4 DEF Held
    <3>6. \A x \in Turns : at'[x] \in {"idle", "slot", "refused"} => x \notin items'
      BY <3>1, <3>2 DEF Held, Work
    <3> QED
      BY <3>5, <3>6 DEF Held
  <2> QED
    BY <1>1, <2>1, <2>2, <2>3, <2>4, <2>5, <2>6, <2>7 DEF Turn
<1>2. ASSUME NEW k \in Kids, Kid(k) PROVE Held'
  <2>0. k \in Work /\ k \notin Turns
    BY WorkAssumption DEF Work
  <2>1. CASE \E t \in Turns : EnterKid(k, t)
    BY <1>0, <1>a, <2>0, <2>1, OwnItem DEF EnterKid
  <2>2. CASE RefuseKid(k)
    BY <1>0, <1>a, <2>0, <2>2, OwnItem DEF RefuseKid
  <2>3. CASE RegisterKid(k)
    <3>1. k \in items
      BY <2>0, <2>3 DEF RegisterKid, Held
    <3> QED
      BY <1>0, <1>a, <2>0, <2>3, <3>1, OwnItem DEF RegisterKid
  <2>4. CASE StartKid(k)
    <3>1. k \in items
      BY <2>0, <2>4 DEF StartKid, Held
    <3> QED
      BY <1>0, <1>a, <2>0, <2>4, <3>1, OwnItem DEF StartKid
  <2>5. CASE ExitKid(k)
    BY <1>0, <1>a, <2>0, <2>5, OwnItem DEF ExitKid
  <2>6. CASE FinishKid(k)
    BY <1>0, <1>a, <2>0, <2>6, OwnItem DEF FinishKid
  <2> QED
    BY <1>2, <2>1, <2>2, <2>3, <2>4, <2>5, <2>6 DEF Kid
<1>3. ASSUME NEW c \in Cards, Card(c) PROVE Held'
  <2>0. c \in Work /\ c \notin Turns
    BY WorkAssumption DEF Work
  <2>1. CASE \E o \in Turns \cup {Analysis} : DispatchCard(c, o)
    BY <1>0, <1>a, <2>0, <2>1, OwnItem DEF DispatchCard
  <2>2. CASE StartCard(c)
    <3>1. c \in items
      BY <2>0, <2>2 DEF StartCard, Held
    <3> QED
      BY <1>0, <1>a, <2>0, <2>2, <3>1, OwnItem DEF StartCard
  <2>3. CASE FinishCard(c)
    BY <1>0, <1>a, <2>0, <2>3, OwnItem DEF FinishCard
  <2>4. CASE PanicCard(c)
    BY <1>0, <1>a, <2>0, <2>4, OwnItem DEF PanicCard
  <2> QED
    BY <1>3, <2>1, <2>2, <2>3, <2>4 DEF Card
<1>4. ASSUME NEW c \in Cmds, Cmd(c) PROVE Held'
  <2>0. c \in Work /\ c \notin Turns
    BY WorkAssumption DEF Work
  <2>1. CASE \E s \in 0..MaxEpoch : AdmitCmd(c, s)
    BY <1>0, <1>a, <2>0, <2>1, OwnItem DEF AdmitCmd
  <2>2. CASE FinishCmd(c)
    BY <1>0, <1>a, <2>0, <2>2, OwnItem DEF FinishCmd
  <2> QED
    BY <1>4, <2>1, <2>2 DEF Cmd
<1>5. ASSUME NEW p \in Callers, WaitForEnd(p) \/ Join(p) \/ Settle(p) \/ Expire(p)
      PROVE  Held'
  BY <1>b, <1>5 DEF Join, WaitForEnd, TakeTargets, StopTargets, JoinTurns, JoinScope, Drain, Settle, Expire
<1>6. CASE Ending \/ Analysing \/ Quiescing \/ UNCHANGED vars
  BY <1>b, <1>6 DEF Ending, Show, AcceptEnd, Analysing, OpenAnalysis, GrantAnalysis, CloseAnalysis,
     AnalysisReturns, Quiescing, BeginQuiesce, Freeze, CancelRoot, QuiescePass, ShutdownCommands,
     QuiesceReturns, vars
<1> QED
  BY <1>1, <1>2, <1>3, <1>4, <1>5, <1>6 DEF Next

\* The FIFO gains a parent with a begun operation and loses one, not always the same,
\* with a finished one.
LEMMA ParentsStep ==
  ASSUME TypeOK, Held, Once, ParentsExact, [Next]_vars
  PROVE  Once' /\ ParentsExact'
<1> USE DEF gate, runtime, work, calls, Enter, Register, Release
<1> DEFINE S == TurnStages \cup WorkStages
           Exact == /\ Len(parents) = Cardinality(Begun)
                    /\ Range(parents) = (items \cap Turns) \ Entered
                    /\ Cardinality(Range(parents)) = Len(parents)
<1>0. at \in [Work -> S] /\ parents \in Seq(Turns)
  BY DEF TypeOK
<1>s. \A v \in {"idle", "slot", "refused", "entered", "begun", "running", "leaving", "popped", "over",
             "created", "carded", "released", "panicked"} : v \in S
  BY DEF TurnStages, WorkStages
<1>a. Exact
  BY DEF ParentsExact, Begun, Entered
<1>b. Exact' => ParentsExact'
  BY DEF ParentsExact, Begun, Entered
<1>c. IsFiniteSet(Begun) /\ IsFiniteSet(Range(parents))
  <2>1. Begun \subseteq Turns /\ Range(parents) \subseteq Turns
    BY DEF Begun, ParentsExact
  <2> QED
    BY <2>1, WorkAssumption, FS_Subset
<1>d. (Begun' = Begun /\ Entered' = Entered /\ parents' = parents
        /\ items' \cap Turns = items \cap Turns) => Once' /\ ParentsExact'
  BY <1>a, <1>b DEF Once
<1> HIDE DEF S, Exact
<1>e. (at' = at /\ items' = items /\ parents' = parents) => Once' /\ ParentsExact'
  BY <1>d DEF Begun, Entered
<1>f. ASSUME NEW w \in Work, w \notin Turns, NEW v \in S, parents' = parents,
             at' = [at EXCEPT ![w] = v], items' \in {items, items \cup {w}, items \ {w}}
      PROVE  Once' /\ ParentsExact'
  <2>1. Begun' = Begun /\ Entered' = Entered
    BY <1>0, <1>f, OtherMoves
  <2>2. items' \cap Turns = items \cap Turns
    BY <1>f
  <2> QED
    BY <1>d, <1>f, <2>1, <2>2
<1>1. ASSUME NEW t \in Turns, Turn(t) PROVE Once' /\ ParentsExact'
  <2>0. t \in Work
    BY DEF Work
  <2>1. CASE TakeSlot(t)
    <3>1. t \notin Begun /\ t \notin Entered
      BY <2>1 DEF TakeSlot, Begun, Entered
    <3>2. Begun' = Begun /\ Entered' = Entered
      <4>1. at' = [at EXCEPT ![t] = "slot"] /\ "slot" \in S
        BY <1>s, <2>1 DEF TakeSlot
      <4>2. "slot" \notin {"begun", "running", "leaving"} /\ "slot" # "entered"
        OBVIOUS
      <4> QED
        BY <1>0, <3>1, <4>1, <4>2, TurnMoves
    <3> QED
      BY <1>d, <2>1, <3>2 DEF TakeSlot
  <2>2. CASE BeginTurn(t)
    <3>1. t \notin items /\ t \notin Begun /\ t \notin Entered /\ parents' = parents
      BY <2>0, <2>2 DEF BeginTurn, Held, Begun, Entered
    <3>2. CASE ~quiescing /\ Admits(0)
      <4>1. items' = items \cup {t} /\ at' = [at EXCEPT ![t] = "entered"]
        BY <2>2, <3>2 DEF BeginTurn
      <4>2. Begun' = Begun /\ Entered' = Entered \cup {t}
        BY <1>0, <1>s, <3>1, <4>1, TurnMoves
      <4> QED
        BY <1>a, <1>b, <3>1, <4>1, <4>2 DEF Once, Exact
    <3>3. CASE ~(~quiescing /\ Admits(0))
      <4>1. items' = items /\ at' = [at EXCEPT ![t] = "refused"]
        BY <2>2, <3>3 DEF BeginTurn
      <4>2. "refused" \in S /\ "refused" \notin {"begun", "running", "leaving"} /\ "refused" # "entered"
        BY <1>s
      <4>3. Begun' = Begun /\ Entered' = Entered
        BY <1>0, <3>1, <4>1, <4>2, TurnMoves
      <4> QED
        BY <1>d, <3>1, <4>1, <4>3
    <3> QED
      BY <3>2, <3>3
  <2>3. CASE Remember(t)
    <3>1. /\ t \in Entered /\ t \notin Begun /\ t \in items /\ items' = items
          /\ parents' = Append(parents, t)
      BY <2>0, <2>3 DEF Remember, Begun, Entered, Held, HoldsOwn
    <3>2. Begun' = Begun \cup {t} /\ Entered' = Entered \ {t}
      <4>1. CASE Transport = "acp"
        BY <1>0, <1>s, <2>3, <4>1, TurnMoves DEF Remember
      <4>2. CASE Transport # "acp"
        BY <1>0, <1>s, <2>3, <4>2, TurnMoves DEF Remember
      <4> QED
        BY <4>1, <4>2
    <3>3. t \notin Range(parents)
      BY <1>a, <3>1 DEF Exact
    <3>4. Len(parents') = Len(parents) + 1 /\ parents' \in Seq(Turns)
          /\ parents'[Len(parents) + 1] = t /\ \A i \in 1..Len(parents) : parents'[i] = parents[i]
      BY <1>0, <3>1
    <3>5. DOMAIN parents = 1..Len(parents) /\ DOMAIN parents' = 1..(Len(parents) + 1)
          /\ Len(parents) \in Nat
      BY <1>0, <3>4
    <3>6. Range(parents') = Range(parents) \cup {t}
      BY <3>4, <3>5 DEF Range
    <3>7. Cardinality(Begun') = Cardinality(Begun) + 1
          /\ Cardinality(Range(parents')) = Cardinality(Range(parents)) + 1
      BY <1>c, <3>1, <3>2, <3>3, <3>6, FS_AddElement
    <3>8. Once'
      BY <3>3, <3>4, <3>5 DEF Once, Range
    <3>9. Range(parents') = (items' \cap Turns) \ Entered'
      BY <1>a, <3>1, <3>2, <3>6 DEF Exact
    <3> QED
      BY <1>a, <1>b, <3>4, <3>7, <3>8, <3>9 DEF Exact
  <2>4. CASE PublishCancel(t)
    <3>1. t \in Begun /\ t \notin Entered
      BY <2>4 DEF PublishCancel, Begun, Entered
    <3>2. Begun' = Begun /\ Entered' = Entered
      BY <1>0, <1>s, <2>4, <3>1, TurnMoves DEF PublishCancel
    <3> QED
      BY <1>d, <2>4, <3>2 DEF PublishCancel
  <2>5. CASE FinishTurn(t)
    <3>1. t \in Begun /\ t \notin Entered
      BY <2>5 DEF FinishTurn, Begun, Entered
    <3>2. Begun' = Begun /\ Entered' = Entered
      BY <1>0, <1>s, <2>5, <3>1, TurnMoves DEF FinishTurn
    <3> QED
      BY <1>d, <2>5, <3>2 DEF FinishTurn
  <2>6. CASE TurnDone(t)
    <3>1. t \notin Begun /\ t \notin Entered
      BY <2>6 DEF TurnDone, Begun, Entered
    <3>2. Begun' = Begun /\ Entered' = Entered
      <4>1. at' = [at EXCEPT ![t] = "over"] /\ "over" \in S
        BY <1>s, <2>6 DEF TurnDone
      <4>2. "over" \notin {"begun", "running", "leaving"} /\ "over" # "entered"
        OBVIOUS
      <4> QED
        BY <1>0, <3>1, <4>1, <4>2, TurnMoves
    <3> QED
      BY <1>d, <2>6, <3>2 DEF TurnDone
  <2>7. CASE EndWork(t)
    <3>1. t \in Begun /\ t \notin Entered
      BY <2>7 DEF EndWork, Begun, Entered
    <3>2. Begun' = Begun \ {t} /\ Entered' = Entered
      <4>1. at' = [at EXCEPT ![t] = "popped"] /\ "popped" \in S
        BY <1>s, <2>7 DEF EndWork
      <4>2. "popped" \notin {"begun", "running", "leaving"} /\ "popped" # "entered"
        OBVIOUS
      <4> QED
        BY <1>0, <3>1, <4>1, <4>2, TurnMoves
    <3>3. Cardinality(Begun') = Cardinality(Begun) - 1 /\ Cardinality(Begun) # 0
          /\ Cardinality(Begun) \in Nat
      BY <1>c, <3>1, <3>2, FS_RemoveElement, FS_EmptySet, FS_CardinalityType
    <3>4. parents # <<>>
      BY <1>a, <3>3 DEF Exact
    <3> DEFINE h == Head(parents)
    <3>5. parents' = Tail(parents) /\ items' = items \ {h}
      BY <2>7, <3>4 DEF EndWork
    <3>6. /\ Len(parents) \in Nat \ {0} /\ DOMAIN parents = 1..Len(parents) /\ h = parents[1]
          /\ Len(parents') = Len(parents) - 1 /\ DOMAIN parents' = 1..(Len(parents) - 1)
          /\ \A i \in 1..(Len(parents) - 1) : parents'[i] = parents[i + 1]
      BY <1>0, <3>4, <3>5
    <3> HIDE DEF h
    <3>7. Once'
      <4> SUFFICES ASSUME NEW i \in DOMAIN parents', NEW j \in DOMAIN parents', parents'[i] = parents'[j]
                   PROVE  i = j
        BY DEF Once
      <4>1. i + 1 \in DOMAIN parents /\ j + 1 \in DOMAIN parents /\ parents[i + 1] = parents[j + 1]
        BY <3>6
      <4>2. i + 1 = j + 1
        BY <4>1 DEF Once
      <4> QED
        BY <3>6, <4>2
    <3>8. Range(parents') = Range(parents) \ {h}
      <4>1. ASSUME NEW i \in DOMAIN parents' PROVE parents'[i] \in Range(parents) \ {h}
        <5>1. i + 1 \in DOMAIN parents /\ 1 \in DOMAIN parents /\ i + 1 # 1 /\ parents'[i] = parents[i + 1]
          BY <3>6
        <5>2. parents[i + 1] # h
          BY <3>6, <5>1 DEF Once
        <5> QED
          BY <5>1, <5>2 DEF Range
      <4>2. ASSUME NEW i \in DOMAIN parents, parents[i] # h PROVE parents[i] \in Range(parents')
        <5>1. i - 1 \in DOMAIN parents' /\ parents'[i - 1] = parents[i]
          BY <3>6, <4>2
        <5> QED
          BY <5>1 DEF Range
      <4> QED
        BY <4>1, <4>2 DEF Range
    <3>9. Cardinality(Range(parents')) = Cardinality(Range(parents)) - 1
      <4>1. h \in Range(parents)
        BY <3>6 DEF Range
      <4> QED
        BY <1>c, <3>8, <4>1, FS_RemoveElement
    <3>10. Range(parents') = (items' \cap Turns) \ Entered'
      BY <1>a, <3>2, <3>5, <3>8 DEF Exact
    <3> QED
      BY <1>a, <1>b, <3>3, <3>6, <3>7, <3>9, <3>10 DEF Exact
  <2> QED
    BY <1>1, <2>1, <2>2, <2>3, <2>4, <2>5, <2>6, <2>7 DEF Turn
<1>2. ASSUME NEW k \in Kids, Kid(k) PROVE Once' /\ ParentsExact'
  <2>1. k \in Work /\ k \notin Turns
    BY WorkAssumption DEF Work
  <2> QED
    BY <1>2, <1>f, <1>s, <2>1 DEF Kid, EnterKid, RefuseKid, RegisterKid, StartKid, ExitKid, FinishKid
<1>3. ASSUME NEW c \in Cards, Card(c) PROVE Once' /\ ParentsExact'
  <2>1. c \in Work /\ c \notin Turns
    BY WorkAssumption DEF Work
  <2> QED
    BY <1>3, <1>f, <1>s, <2>1 DEF Card, DispatchCard, StartCard, FinishCard, PanicCard
<1>4. ASSUME NEW c \in Cmds, Cmd(c) PROVE Once' /\ ParentsExact'
  <2>1. c \in Work /\ c \notin Turns
    BY WorkAssumption DEF Work
  <2> QED
    BY <1>4, <1>f, <1>s, <2>1 DEF Cmd, AdmitCmd, FinishCmd
<1>5. ASSUME NEW p \in Callers, WaitForEnd(p) \/ Join(p) \/ Settle(p) \/ Expire(p)
      PROVE  Once' /\ ParentsExact'
  BY <1>e, <1>5 DEF Join, WaitForEnd, TakeTargets, StopTargets, JoinTurns, JoinScope, Drain, Settle, Expire
<1>6. CASE Ending \/ Analysing \/ Quiescing \/ UNCHANGED vars
  BY <1>e, <1>6 DEF Ending, Show, AcceptEnd, Analysing, OpenAnalysis, GrantAnalysis, CloseAnalysis,
     AnalysisReturns, Quiescing, BeginQuiesce, Freeze, CancelRoot, QuiescePass, ShutdownCommands,
     QuiesceReturns, vars
<1> QED
  BY <1>1, <1>2, <1>3, <1>4, <1>5, <1>6 DEF Next

-----------------------------------------------------------------------------
(* The phases *)

\* A pass runs for an accepted end, and no step reopens the conversation.
LEMMA FrozenStep ==
  ASSUME TypeOK, Frozen, [Next]_vars
  PROVE  Frozen'
<1> USE DEF Frozen, gate, runtime, work, calls, Go, Report, Woken
<1>0. pass \in [Callers -> PassStages]
  BY DEF TypeOK
<1>a. \A p \in Callers : Woken(p) # "idle" => pass[p] # "idle"
  OBVIOUS
<1>b. (accepted' = accepted /\ phase' = phase
        /\ pass' \in {pass, [p \in Callers |-> Woken(p)]}) => Frozen'
  BY <1>a DEF Enders
<1>1. ASSUME NEW t \in Turns, Turn(t) PROVE Frozen'
  BY <1>1, <1>b DEF Turn, TakeSlot, BeginTurn, Remember, PublishCancel, FinishTurn, EndWork, TurnDone, Release
<1>2. ASSUME NEW k \in Kids, Kid(k) PROVE Frozen'
  BY <1>2, <1>b DEF Kid, EnterKid, RefuseKid, RegisterKid, StartKid, ExitKid, FinishKid, Release
<1>3. ASSUME NEW c \in Cards, Card(c) PROVE Frozen'
  BY <1>3, <1>b DEF Card, DispatchCard, StartCard, FinishCard, PanicCard, Release
<1>4. ASSUME NEW c \in Cmds, Cmd(c) PROVE Frozen'
  BY <1>4, <1>b DEF Cmd, AdmitCmd, FinishCmd, Release
<1>5. ASSUME NEW p \in Callers, WaitForEnd(p) \/ Join(p) \/ Settle(p) \/ Expire(p)
      PROVE  Frozen'
  <2>1. ASSUME NEW stage, pass' = [pass EXCEPT ![p] = stage], accepted' = accepted,
               phase # "open" => phase' # "open", p \in Enders /\ stage # "idle" => accepted
        PROVE  Frozen'
    BY <1>0, <2>1 DEF Enders
  <2>2. CASE WaitForEnd(p)
    BY <2>1, <2>2 DEF WaitForEnd
  <2>3. CASE Join(p)
    <3>1. pass[p] # "idle" /\ phase' = phase /\ accepted' = accepted
      BY <2>3 DEF Join, TakeTargets, StopTargets, JoinTurns, JoinScope, Drain
    <3>2. \E stage : pass' = [pass EXCEPT ![p] = stage]
      BY <2>3 DEF Join, TakeTargets, StopTargets, JoinTurns, JoinScope, Drain
    <3> QED
      BY <2>1, <3>1, <3>2
  <2>4. CASE Settle(p)
    <3>1. phase # "open" => phase' # "open"
      BY <2>4 DEF Settle, Advance
    <3> QED
      BY <2>1, <2>4, <3>1 DEF Settle, Return
  <2>5. CASE Expire(p)
    <3>1. pass[p] # "idle"
      BY <2>5 DEF Expire
    <3> QED
      BY <2>1, <2>5, <3>1 DEF Expire, Return
  <2> QED
    BY <1>5, <2>2, <2>3, <2>4, <2>5
<1>6. CASE Ending
  BY <1>6 DEF Ending, Show, AcceptEnd
<1>7. CASE Analysing
  <2>1. /\ phase' = phase /\ accepted' = accepted
        /\ \E stage : pass' = [pass EXCEPT ![Analysis] = stage]
    BY <1>7 DEF Analysing, OpenAnalysis, GrantAnalysis, CloseAnalysis, AnalysisReturns, Return
  <2> QED
    BY <1>0, <2>1 DEF Enders
<1>8. CASE Quiescing
  <2>1. \E stage : pass' = [pass EXCEPT ![Quit] = stage]
    BY <1>8 DEF Quiescing, BeginQuiesce, Freeze, CancelRoot, QuiescePass, ShutdownCommands,
       QuiesceReturns, Return
  <2>2. (phase' = phase /\ accepted' = accepted) \/ (phase' # "open" /\ accepted')
    BY <1>8 DEF Quiescing, BeginQuiesce, Freeze, Advance, Rank, CancelRoot, QuiescePass,
       ShutdownCommands, QuiesceReturns, Return
  <2> QED
    BY <1>0, <2>1, <2>2 DEF Enders
<1>9. CASE UNCHANGED vars
  BY <1>9, <1>b DEF vars
<1> QED
  BY <1>1, <1>2, <1>3, <1>4, <1>5, <1>6, <1>7, <1>8, <1>9 DEF Next

\* Only an exit opens the postmortem, and the intent is not changed once frozen.
LEMMA ExitsStep ==
  ASSUME TypeOK, Frozen, Exits, [Next]_vars
  PROVE  Exits'
<1> USE DEF Exits, gate, runtime, work, calls
<1>0. (phase' = phase /\ intent' = intent /\ epoch' = epoch) => Exits'
  OBVIOUS
<1>1. ASSUME NEW t \in Turns, Turn(t) PROVE Exits'
  BY <1>0, <1>1 DEF Turn, TakeSlot, BeginTurn, Remember, PublishCancel, FinishTurn, EndWork, TurnDone
<1>2. ASSUME NEW k \in Kids, Kid(k) PROVE Exits'
  BY <1>0, <1>2 DEF Kid, EnterKid, RefuseKid, RegisterKid, StartKid, ExitKid, FinishKid
<1>3. ASSUME NEW c \in Cards, Card(c) PROVE Exits'
  BY <1>0, <1>3 DEF Card, DispatchCard, StartCard, FinishCard, PanicCard
<1>4. ASSUME NEW c \in Cmds, Cmd(c) PROVE Exits'
  BY <1>0, <1>4 DEF Cmd, AdmitCmd, FinishCmd
<1>5. ASSUME NEW p \in Callers, WaitForEnd(p) \/ Join(p) \/ Settle(p) \/ Expire(p)
      PROVE  Exits'
  <2>1. CASE Settle(p)
    <3>1. intent' = intent /\ epoch' = epoch
      BY <2>1 DEF Settle
    <3>2. CASE intent = "exit"
      BY <2>1, <3>1, <3>2 DEF Settle, Advance, Rank, TypeOK, Phases
    <3>3. CASE intent # "exit"
      BY <2>1, <3>1, <3>3 DEF Settle, Advance, Rank, TypeOK, Phases
    <3> QED
      BY <3>2, <3>3
  <2> QED
    BY <1>0, <1>5, <2>1 DEF Join, WaitForEnd, TakeTargets, StopTargets, JoinTurns, JoinScope, Drain, Expire
<1>6. CASE Ending
  BY <1>6 DEF Ending, Show, AcceptEnd
<1>7. CASE Analysing
  BY <1>0, <1>7 DEF Analysing, OpenAnalysis, GrantAnalysis, CloseAnalysis, AnalysisReturns
<1>8. CASE Quiescing
  BY <1>0, <1>8 DEF Quiescing, BeginQuiesce, Freeze, Advance, Rank, CancelRoot, QuiescePass,
     ShutdownCommands, QuiesceReturns
<1>9. CASE UNCHANGED vars
  BY <1>0, <1>9 DEF vars
<1> QED
  BY <1>1, <1>2, <1>3, <1>4, <1>5, <1>6, <1>7, <1>8, <1>9 DEF Next

\* Who concludes finds nothing left, and what was concluded stays true.
LEMMA QuietStep == IInv /\ [Next]_vars => Quiet'
<1> SUFFICES ASSUME IInv, [Next]_vars, Concluded' PROVE Lives' = {}
  BY DEF Quiet
<1>1. CASE Concluded
  <2>1. Lives = {} /\ phase # "open"
    BY <1>1 DEF IInv, Quiet, Concluded, Frozen
  <2> QED
    BY <2>1, OverStaysOver DEF IInv
<1>2. CASE ~Concluded
  <2>1. items' = {}
    BY <1>2, ConcludedWhenEmpty DEF IInv
  <2>2. TypeOK' /\ Held' /\ ParentsExact'
    BY TypeStep, HeldStep, ParentsStep DEF IInv
  <2>3. (TypeOK /\ Held /\ ParentsExact /\ items = {} => Lives = {})'
    BY EmptyMeansOver, PTL
  <2> QED
    BY <2>1, <2>2, <2>3
<1> QED
  BY <1>1, <1>2

-----------------------------------------------------------------------------
(* The theorems *)

LEMMA InitIInv == Init => IInv
<1> SUFFICES ASSUME Init PROVE IInv
  OBVIOUS
<1>1. TypeOK
  <2>1. parents \in Seq(Turns) /\ 0 \in 0..MaxEpoch
    BY HostAssumption DEF Init
  <2>2. /\ at \in [Work -> TurnStages \cup WorkStages] /\ pass \in [Callers -> PassStages]
        /\ phase \in Phases /\ rtPhase \in Phases
    BY DEF Init, Phases, TurnStages, WorkStages, PassStages
  <2>3. /\ owner \in [Work -> Turns \cup {Analysis, None}] /\ hook \in [Turns -> Turns \cup {None}]
        /\ scope \in [Cmds -> 0..MaxEpoch] /\ passScope \in [Callers -> 0..MaxEpoch]
        /\ todo \in [Callers -> SUBSET Work] /\ result \in [Callers -> {"none", "ok", "err"}]
    BY <2>1 DEF Init
  <2> QED
    BY <2>1, <2>2, <2>3 DEF Init, TypeOK
<1>2. \A w \in Work : at[w] = "idle"
  BY DEF Init
<1>3. Held
  BY <1>2 DEF Held, HoldsOwn, Work, Init
<1>4. Range(parents) = {} /\ Len(parents) = 0 /\ Once
  BY DEF Init, Range, Once
<1>5. Cardinality({}) = 0
  BY FS_EmptySet
<1>6. ParentsExact
  <2>1. {t \in Turns : at[t] \in {"begun", "running", "leaving"}} = {}
    BY <1>2 DEF Work
  <2> QED
    BY <1>4, <1>5, <2>1 DEF ParentsExact, Init
<1>7. Frozen /\ Exits
  BY DEF Init, Frozen, Exits, Enders
<1>8. Quiet
  BY DEF Init, Quiet, Concluded, Enders
<1> QED
  BY <1>1, <1>3, <1>4, <1>6, <1>7, <1>8 DEF IInv

\* The inductive invariant holds in every reachable state.
THEOREM Invariant == Spec => []IInv
<1>1. IInv /\ [Next]_vars => IInv'
  BY TypeStep, HeldStep, ParentsStep, FrozenStep, ExitsStep, QuietStep DEF IInv
<1> QED
  BY InitIInv, <1>1, PTL DEF Spec

\* Every reachable state of the end gate is well typed (endController, Runtime).
THEOREM TypeCorrect == Spec => []TypeOK
<1>1. IInv => TypeOK
  BY DEF IInv
<1> QED
  BY Invariant, <1>1, PTL

\* A settled end has left no ordinary work, whatever registered and retried beside
\* its passes (WaitForEnd).
THEOREM SettledIsOver == Spec => []SettledMeansOver
<1>1. IInv => SettledMeansOver
  BY DEF IInv, Quiet, Concluded, SettledMeansOver
<1> QED
  BY Invariant, <1>1, PTL

\* The FIFO of parents counts the unfinished turns (EndWork).
THEOREM ParentsAreExact == Spec => []ParentsExact
<1>1. IInv => ParentsExact
  BY DEF IInv
<1> QED
  BY Invariant, <1>1, PTL

\* Only an accepted exit is analysed (AcceptEnd, RunExitAnalysis).
THEOREM ReplacementIsNotAnalysed == Spec => []ReplacementSkipsPostmortem
<1>1. IInv => ReplacementSkipsPostmortem
  BY DEF IInv, Exits, ReplacementSkipsPostmortem, TypeOK
<1> QED
  BY Invariant, <1>1, PTL

-----------------------------------------------------------------------------
(* The refinement *)

\* The membership the refinement maps to, read off an operation's stage.
Inside(w, stage) ==
  IF w \in Turns THEN stage \in {"entered", "begun", "running", "leaving"}
  ELSE IF w \in Kids THEN stage \in {"created", "carded", "running"}
  ELSE stage = "running"
Gone(stage) == stage \in {"popped", "released", "over"}

LEMMA Mapped ==
  /\ {x \in Lives : Admitted(x)} = {x \in Work : Admitted(x) /\ Inside(x, at[x])}
  /\ {x \in Work : Admitted(x) /\ at[x] \in {"popped", "released", "over"}}
       = {x \in Work : Admitted(x) /\ Gone(at[x])}
<1>1. \A w \in Work : Admitted(w) => (w \in Lives <=> Inside(w, at[w]))
  BY WorkAssumption DEF Work, Admitted, ScopeOf, Lives, LiveTurns, LiveKids, LiveCards, LiveCmds, Inside
<1>2. Lives \subseteq Work
  BY DEF Lives, LiveTurns, LiveKids, LiveCards, LiveCmds, Work
<1> QED
  BY <1>1, <1>2 DEF Gone

LEMMA MembershipInit == Init => Gate!Init
<1> SUFFICES ASSUME Init PROVE Gate!Init
  OBVIOUS
<1>1. \A w \in Work : at[w] = "idle"
  BY DEF Init
<1>2. Lives = {}
  BY <1>1 DEF Lives, LiveTurns, LiveKids, LiveCards, LiveCmds, Work
<1> QED
  BY <1>1, <1>2 DEF Init, Gate!Init

\* What one operation's step does to the membership.
LEMMA MemberMoves ==
  ASSUME phase' = phase, scope' = scope, NEW S, at \in [Work -> S], NEW w \in Work, NEW v \in S,
         at' = [at EXCEPT ![w] = v]
  PROVE  /\ ~Admitted(w) => UNCHANGED Gate!vars
         /\ phase = "open" /\ ~Inside(w, at[w]) /\ ~Gone(at[w]) /\ Inside(w, v) /\ ~Gone(v)
              => [Gate!Admit(w)]_(Gate!vars)
         /\ Inside(w, at[w]) /\ ~Gone(at[w]) /\ ~Inside(w, v) /\ Gone(v) => [Gate!Settle(w)]_(Gate!vars)
         /\ (Inside(w, at[w]) <=> Inside(w, v)) /\ (Gone(at[w]) <=> Gone(v)) => UNCHANGED Gate!vars
<1> DEFINE M == {x \in Work : Admitted(x) /\ Inside(x, at[x])}
           G == {x \in Work : Admitted(x) /\ Gone(at[x])}
<1>1. \A x \in Work : at'[x] = IF x = w THEN v ELSE at[x]
  OBVIOUS
<1>2. \A x \in Work : Admitted(x)' <=> Admitted(x)
  BY DEF Admitted, ScopeOf
<1>3. M' = {x \in Work : Admitted(x) /\ Inside(x, IF x = w THEN v ELSE at[x])}
      /\ G' = {x \in Work : Admitted(x) /\ Gone(IF x = w THEN v ELSE at[x])}
  BY <1>1, <1>2 DEF Inside, Gone
<1>4. {x \in Lives : Admitted(x)} = M
      /\ {x \in Work : Admitted(x) /\ at[x] \in {"popped", "released", "over"}} = G
  BY Mapped
<1>5. (/\ {x \in Lives : Admitted(x)} = {x \in Work : Admitted(x) /\ Inside(x, at[x])}
      /\ {x \in Work : Admitted(x) /\ at[x] \in {"popped", "released", "over"}}
           = {x \in Work : Admitted(x) /\ Gone(at[x])})'
  BY Mapped, PTL
<1>5a. {x \in Lives : Admitted(x)}' = M'
       /\ {x \in Work : Admitted(x) /\ at[x] \in {"popped", "released", "over"}}' = G'
  BY <1>5
<1> HIDE DEF M, G
<1>6. ASSUME M' = M, G' = G PROVE UNCHANGED Gate!vars
  BY <1>4, <1>5a, <1>6 DEF Gate!vars
<1>7. ~Admitted(w) => M' = M /\ G' = G
  BY <1>3 DEF M, G
<1>8. (Inside(w, at[w]) <=> Inside(w, v)) /\ (Gone(at[w]) <=> Gone(v)) => M' = M /\ G' = G
  BY <1>3 DEF M, G
<1>9. ASSUME Admitted(w), phase = "open", ~Inside(w, at[w]), ~Gone(at[w]), Inside(w, v), ~Gone(v)
      PROVE  Gate!Admit(w)
  <2>1. M' = M \cup {w} /\ G' = G /\ w \notin M \cup G
    BY <1>3, <1>9 DEF M, G
  <2> QED
    BY <1>4, <1>5a, <1>9, <2>1 DEF Gate!Admit
<1>10. ASSUME Admitted(w), Inside(w, at[w]), ~Gone(at[w]), ~Inside(w, v), Gone(v)
      PROVE  Gate!Settle(w)
  <2>1. M' = M \ {w} /\ G' = G \cup {w} /\ w \in M
    BY <1>3, <1>10 DEF M, G
  <2> QED
    BY <1>4, <1>5a, <2>1 DEF Gate!Settle
<1> QED
  BY <1>6, <1>7, <1>8, <1>9, <1>10

LEMMA MembershipStep ==
  ASSUME TypeOK, [Next]_vars
  PROVE  [Gate!Next]_(Gate!vars)
<1> USE DEF gate, runtime, work, calls, Enter
<1> DEFINE S == TurnStages \cup WorkStages
           Step == [Gate!Next]_(Gate!vars)
<1>0. at \in [Work -> S]
  BY DEF TypeOK
<1>s. \A v \in {"idle", "slot", "refused", "entered", "begun", "running", "leaving", "popped", "over",
             "created", "carded", "released", "panicked"} : v \in S
  BY DEF TurnStages, WorkStages
<1> HIDE DEF S
<1>a. (at' = at /\ scope' = scope /\ (phase # "open" => phase' # "open")) => Step
  <2> SUFFICES ASSUME at' = at, scope' = scope, phase # "open" => phase' # "open" PROVE Step
    OBVIOUS
  <2>1. {x \in Lives : Admitted(x)}' = {x \in Lives : Admitted(x)}
    <3>1. {x \in Lives : Admitted(x)} = {x \in Work : Admitted(x) /\ Inside(x, at[x])}
      BY Mapped
    <3>2. ({x \in Lives : Admitted(x)} = {x \in Work : Admitted(x) /\ Inside(x, at[x])})'
      BY Mapped, PTL
    <3>3. \A x \in Work : Admitted(x)' <=> Admitted(x)
      BY DEF Admitted, ScopeOf
    <3>4. {x \in Work : Admitted(x) /\ Inside(x, at[x])}' = {x \in Work : Admitted(x) /\ Inside(x, at[x])}
      BY <3>3 DEF Inside
    <3> QED
      BY <3>1, <3>2, <3>4
  <2>2. {x \in Work : Admitted(x) /\ at[x] \in {"popped", "released", "over"}}'
          = {x \in Work : Admitted(x) /\ at[x] \in {"popped", "released", "over"}}
    BY DEF Admitted, ScopeOf
  <2> QED
    BY <2>1, <2>2 DEF Gate!Next, Gate!Accept, Gate!vars
<1>b. ASSUME NEW w \in Work, NEW v \in S, phase' = phase, scope' = scope, at' = [at EXCEPT ![w] = v],
             \/ ~Admitted(w)
             \/ phase = "open" /\ ~Inside(w, at[w]) /\ ~Gone(at[w]) /\ Inside(w, v) /\ ~Gone(v)
             \/ Inside(w, at[w]) /\ ~Gone(at[w]) /\ ~Inside(w, v) /\ Gone(v)
             \/ (Inside(w, at[w]) <=> Inside(w, v)) /\ (Gone(at[w]) <=> Gone(v))
      PROVE  Step
  BY <1>0, <1>b, MemberMoves DEF Gate!Next
<1> HIDE DEF Step
<1>1. ASSUME NEW t \in Turns, Turn(t) PROVE Step
  <2>0. t \in Work
    BY DEF Work
  <2>1. CASE TakeSlot(t)
    BY <1>b, <1>s, <2>0, <2>1 DEF TakeSlot, Inside, Gone
  <2>2. CASE BeginTurn(t)
    <3>1. CASE ~quiescing /\ Admits(0)
      BY <1>b, <1>s, <2>0, <2>2, <3>1 DEF BeginTurn, Admits, Inside, Gone
    <3>2. CASE ~(~quiescing /\ Admits(0))
      BY <1>b, <1>s, <2>0, <2>2, <3>2 DEF BeginTurn, Inside, Gone
    <3> QED
      BY <3>1, <3>2
  <2>3. CASE Remember(t)
    <3>1. CASE Transport = "acp"
      BY <1>b, <1>s, <2>0, <2>3, <3>1 DEF Remember, Inside, Gone
    <3>2. CASE Transport # "acp"
      BY <1>b, <1>s, <2>0, <2>3, <3>2 DEF Remember, Inside, Gone
    <3> QED
      BY <3>1, <3>2
  <2>4. CASE PublishCancel(t)
    BY <1>b, <1>s, <2>0, <2>4 DEF PublishCancel, Inside, Gone
  <2>5. CASE FinishTurn(t)
    BY <1>b, <1>s, <2>0, <2>5 DEF FinishTurn, Inside, Gone
  <2>6. CASE EndWork(t)
    BY <1>b, <1>s, <2>0, <2>6 DEF EndWork, Inside, Gone
  <2>7. CASE TurnDone(t)
    BY <1>b, <1>s, <2>0, <2>7 DEF TurnDone, Inside, Gone
  <2> QED
    BY <1>1, <2>1, <2>2, <2>3, <2>4, <2>5, <2>6, <2>7 DEF Turn
<1>2. ASSUME NEW k \in Kids, Kid(k) PROVE Step
  <2>0. k \in Work /\ k \notin Turns
    BY WorkAssumption DEF Work
  <2>1. CASE \E t \in Turns : EnterKid(k, t)
    BY <1>b, <1>s, <2>0, <2>1 DEF EnterKid, Admits, Inside, Gone
  <2>2. CASE RefuseKid(k)
    BY <1>b, <1>s, <2>0, <2>2 DEF RefuseKid, Inside, Gone
  <2>3. CASE RegisterKid(k)
    BY <1>b, <1>s, <2>0, <2>3 DEF RegisterKid, Inside, Gone
  <2>4. CASE StartKid(k)
    BY <1>b, <1>s, <2>0, <2>4 DEF StartKid, Inside, Gone
  <2>5. CASE ExitKid(k)
    BY <1>b, <1>s, <2>0, <2>5 DEF ExitKid, Inside, Gone
  <2>6. CASE FinishKid(k)
    BY <1>b, <1>s, <2>0, <2>6 DEF FinishKid, Inside, Gone
  <2> QED
    BY <1>2, <2>1, <2>2, <2>3, <2>4, <2>5, <2>6 DEF Kid
<1>3. ASSUME NEW c \in Cards, Card(c) PROVE Step
  <2>0. c \in Work /\ ~Admitted(c)
    BY DEF Work, Admitted
  <2> QED
    BY <1>3, <1>b, <1>s, <2>0 DEF Card, DispatchCard, StartCard, FinishCard, PanicCard
<1>4. ASSUME NEW c \in Cmds, Cmd(c) PROVE Step
  <2>0. c \in Work /\ c \notin Turns \cup Kids \cup Cards
    BY WorkAssumption DEF Work
  <2>1. ASSUME NEW s \in 0..MaxEpoch, AdmitCmd(c, s) PROVE Step
    <3> DEFINE M == {x \in Work : Admitted(x) /\ Inside(x, at[x])}
               G == {x \in Work : Admitted(x) /\ Gone(at[x])}
    <3>1. {x \in Lives : Admitted(x)} = M
          /\ {x \in Work : Admitted(x) /\ at[x] \in {"popped", "released", "over"}} = G
      BY Mapped
    <3>2. (/\ {x \in Lives : Admitted(x)} = {x \in Work : Admitted(x) /\ Inside(x, at[x])}
          /\ {x \in Work : Admitted(x) /\ at[x] \in {"popped", "released", "over"}}
               = {x \in Work : Admitted(x) /\ Gone(at[x])})'
      BY Mapped, PTL
    <3>2a. {x \in Lives : Admitted(x)}' = M'
           /\ {x \in Work : Admitted(x) /\ at[x] \in {"popped", "released", "over"}}' = G'
      BY <3>2
    <3>3. at[c] = "idle" /\ phase' = phase
          /\ \A x \in Work : at'[x] = IF x = c THEN "running" ELSE at[x]
      BY <1>0, <2>0, <2>1 DEF AdmitCmd
    <3>4. \A x \in Work : x # c => (Admitted(x)' <=> Admitted(x))
      BY <2>1 DEF AdmitCmd, Admitted, ScopeOf, TypeOK
    <3>5. Admitted(c)' <=> s = 0
      BY <2>0, <2>1 DEF AdmitCmd, Admitted, ScopeOf, TypeOK
    <3>6. c \notin M \cup G /\ G' = G
      BY <2>0, <3>3, <3>4 DEF Inside, Gone
    <3>7. CASE s = 0
      <4>1. M' = M \cup {c} /\ phase = "open"
        BY <2>0, <2>1, <3>3, <3>4, <3>5, <3>7 DEF Inside, AdmitCmd, Admits
      <4> HIDE DEF M, G
      <4> QED
        BY <2>0, <3>1, <3>2a, <3>3, <3>6, <4>1 DEF Step, Gate!Next, Gate!Admit
    <3>8. CASE s # 0
      <4>1. M' = M
        BY <2>0, <3>3, <3>4, <3>5, <3>8 DEF Inside
      <4> HIDE DEF M, G
      <4> QED
        BY <3>1, <3>2a, <3>3, <3>6, <4>1 DEF Step, Gate!vars
    <3> QED
      BY <3>7, <3>8
  <2>2. CASE FinishCmd(c)
    BY <1>b, <1>s, <2>0, <2>2 DEF FinishCmd, Inside, Gone
  <2> QED
    BY <1>4, <2>1, <2>2 DEF Cmd
<1>5. ASSUME NEW p \in Callers, WaitForEnd(p) \/ Join(p) \/ Settle(p) \/ Expire(p)
      PROVE  Step
  BY <1>a, <1>5 DEF Join, WaitForEnd, TakeTargets, StopTargets, JoinTurns, JoinScope, Drain, Settle,
     Advance, Expire
<1>6. ASSUME Ending PROVE Step
  BY <1>a, <1>6 DEF Ending, Show, AcceptEnd
<1>7. ASSUME Analysing PROVE Step
  BY <1>a, <1>7 DEF Analysing, OpenAnalysis, GrantAnalysis, CloseAnalysis, AnalysisReturns
<1>8. ASSUME Quiescing PROVE Step
  BY <1>a, <1>8 DEF Quiescing, BeginQuiesce, Freeze, Advance, Rank, CancelRoot, QuiescePass,
     ShutdownCommands, QuiesceReturns
<1>9. ASSUME UNCHANGED vars PROVE Step
  BY <1>a, <1>9 DEF vars
<1> QED
  BY <1>1, <1>2, <1>3, <1>4, <1>5, <1>6, <1>7, <1>8, <1>9 DEF Next, Step

\* The end gate implements the membership it promises for work that registers through
\* begin (begin, reserveLocked, release, accept).
THEOREM MembershipRefinement == Spec => ImplementsMembership
<1>1. TypeOK /\ [Next]_vars => [Gate!Next]_(Gate!vars)
  BY MembershipStep
<1> QED
  BY <1>1, MembershipInit, TypeCorrect, PTL DEF Spec, ImplementsMembership, Gate!Spec
=============================================================================
