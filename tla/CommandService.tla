--------------------------- MODULE CommandService ---------------------------
(***************************************************************************)
(* The conversation-owned command service, JobManager: one supervisor from *)
(* admission through settlement for every managed command.                 *)
(*                                                                         *)
(* A job is a command some operation may launch once.  Every action is one *)
(* critical section of the service (m.mu, then j.mu), or one step of the   *)
(* goroutine that runs the command, of the tool call that waits for it, or *)
(* of a caller that joins it.  The process itself is external: it starts,  *)
(* and its runner returns, whenever it likes.                              *)
(***************************************************************************)
EXTENDS Naturals, Sequences, FiniteSets, Functions

CONSTANTS
  Jobs,         \* the commands that may be launched
  Turns,        \* the turn groups a stop may name
  Ops,          \* the operations a Send now interruption may name
  OpOf,         \* the operation each command is launched under
  TurnOf,       \* the turn each operation belongs to
  MaxJobs,      \* LaunchPolicy.MaxJobs, the capacity across both attachments
  MaxStopped    \* maxStoppedTurns, how many stopped scopes are remembered

ASSUME JobsAssumption == IsFiniteSet(Jobs)
ASSUME ScopeAssumption == OpOf \in [Jobs -> Ops] /\ TurnOf \in [Ops -> Turns]
ASSUME BoundAssumption == MaxJobs \in Nat \ {0} /\ MaxStopped \in Nat \ {0}

VARIABLES
  \* the service
  closed,       \* Shutdown was called: launches are refused
  cancelled,    \* managerCtx is done: every command's context is
  shut,         \* the latest Shutdown call: "idle", "joining" or "joined"
  active,       \* admitted commands that hold a capacity slot
  turnStops,    \* the stopped turns, oldest first
  closedOps,    \* the interrupted operations, oldest first
  \* the conversation end gate
  frozen,       \* an end was accepted: no ordinary work is admitted
  leases,       \* the commands registered with the gate
  \* per command
  stage,        \* how far its goroutine has come
  started,      \* OnStart ran: there is a process
  exit,         \* what the runner returned
  att,          \* attachment: "fg" while the caller waits, "bg" after
  cause,        \* the cause of the accepted stop request, or "none"
  outcome,      \* the settled outcome, or "none"
  sink,         \* the durable record of a detached completion
  wait,         \* the tool call that waits for it
  receipt       \* what the interruption that selected it reports of it

service == <<closed, cancelled, shut, active, turnStops, closedOps>>
gate == <<frozen, leases>>
command == <<stage, started, exit, att, cause, outcome>>
callers == <<sink, wait, receipt>>
vars == <<service, gate, command, callers>>

Stages == {"new", "admitted", "exited", "settling", "settled", "drained", "done"}
Exits == {"clean", "error", "limit"}
Causes == {"turn", "steering", "request"}
Outcomes ==
  {"completed", "nonzero_exit", "startup_failure", "stopped", "resource_limit", "shutdown"}

TypeOK ==
  /\ closed \in BOOLEAN /\ cancelled \in BOOLEAN /\ frozen \in BOOLEAN
  /\ shut \in {"idle", "joining", "joined"}
  /\ active \in Nat
  /\ turnStops \in Seq(Turns) /\ closedOps \in Seq(Ops)
  /\ leases \subseteq Jobs
  /\ stage \in [Jobs -> Stages]
  /\ started \in [Jobs -> BOOLEAN]
  /\ exit \in [Jobs -> Exits \cup {"none"}]
  /\ att \in [Jobs -> {"fg", "bg"}]
  /\ cause \in [Jobs -> Causes \cup {"none"}]
  /\ outcome \in [Jobs -> Outcomes \cup {"none"}]
  /\ sink \in [Jobs -> {"none", "failed", "stored"}]
  /\ wait \in [Jobs -> {"none", "waiting", "joining", "terminal", "continues", "abandoned"}]
  /\ receipt \in [Jobs -> {"none", "pending", "unknown", "continues", "interrupted", "completed"}]

-----------------------------------------------------------------------------
Unsettled == {"admitted", "exited"}

\* j.terminal: the final snapshot is stored.
Terminal(j) == stage[j] \in {"settling", "settled", "drained", "done"}

\* In m.jobs, and not terminal: its process may be alive.
Live(j) == stage[j] \in Unsettled

\* j.stopPending, which the code sets together with stopIssued and StopCause.
StopPending(j) == cause[j] # "none"

\* The command's context is done.  (The mutants forget one of its two sources.)
ServiceCancelled(j) == cancelled
OwnStopOnly(j) == StopPending(j)
Cancelled(j) == cancelled \/ StopPending(j)

TurnOfJob(j) == TurnOf[OpOf[j]]

\* rememberStoppedTurnLocked, rememberClosedOperationLocked: a new scope goes
\* last, a known one stays where it is, and the oldest makes room.
Remember(seen, x) ==
  IF x \in Range(seen) THEN seen
  ELSE IF Len(seen) < MaxStopped THEN Append(seen, x)
  ELSE Append(Tail(seen), x)

\* classifySettlement, in its order.
Classify(j) ==
  IF StopPending(j) THEN "stopped"
  ELSE IF ~started[j] /\ Cancelled(j) THEN "shutdown"
  ELSE IF ~started[j] /\ exit[j] # "clean" THEN "startup_failure"
  ELSE IF exit[j] = "limit" THEN "resource_limit"
  ELSE IF exit[j] = "clean" THEN "completed"
  ELSE IF Cancelled(j) THEN "shutdown"
  ELSE "nonzero_exit"

\* requestStopLocked on every job of targets: a settled job and one whose stop
\* was already issued keep what they have.
StoppableLate(j) == stage[j] # "new" /\ ~StopPending(j)   \* mutant: no terminal check
Stoppable(j) == Live(j) /\ ~StopPending(j)
RequestStopLocked(targets, why) ==
  cause' = [j \in Jobs |-> IF j \in targets /\ Stoppable(j) THEN why ELSE cause[j]]

-----------------------------------------------------------------------------
Init ==
  /\ closed = FALSE /\ cancelled = FALSE /\ shut = "idle"
  /\ active = 0 /\ turnStops = <<>> /\ closedOps = <<>>
  /\ frozen = FALSE /\ leases = {}
  /\ stage = [j \in Jobs |-> "new"]
  /\ started = [j \in Jobs |-> FALSE]
  /\ exit = [j \in Jobs |-> "none"]
  /\ att = [j \in Jobs |-> "fg"]
  /\ cause = [j \in Jobs |-> "none"]
  /\ outcome = [j \in Jobs |-> "none"]
  /\ sink = [j \in Jobs |-> "none"]
  /\ wait = [j \in Jobs |-> "none"]
  /\ receipt = [j \in Jobs |-> "none"]

\* Launch admits a command: every refusal, the gate registration and the
\* insertion are decided in one m.mu section.  A detached launch has no caller
\* waiting; the caller of any other goes straight into WaitForeground.
ScopeOpenTurnOnly(j) == TurnOfJob(j) \notin Range(turnStops)   \* mutant: no closedOps check
ScopeOpen(j) ==
  TurnOfJob(j) \notin Range(turnStops) /\ OpOf[j] \notin Range(closedOps)

HasCapacityOffByOne == active <= MaxJobs                       \* mutant
HasCapacity == active < MaxJobs

AdmissibleUngated(j) == ~closed /\ ~cancelled /\ ScopeOpen(j) /\ HasCapacity   \* mutant: no AdmitWork
Admissible(j) == ~closed /\ ~cancelled /\ ScopeOpen(j) /\ HasCapacity /\ ~frozen

Launch(j, detached) ==
  /\ stage[j] = "new"
  /\ Admissible(j)
  /\ stage' = [stage EXCEPT ![j] = "admitted"]
  /\ att' = [att EXCEPT ![j] = IF detached THEN "bg" ELSE "fg"]
  /\ wait' = [wait EXCEPT ![j] = IF detached THEN "none" ELSE "waiting"]
  /\ active' = active + 1
  /\ leases' = leases \cup {j}
  /\ UNCHANGED <<closed, cancelled, shut, turnStops, closedOps, frozen>>
  /\ UNCHANGED <<started, exit, cause, outcome, sink, receipt>>

\* The runner calls OnStart: the process exists.
Start(j) ==
  /\ stage[j] = "admitted" /\ ~started[j]
  /\ started' = [started EXCEPT ![j] = TRUE]
  /\ UNCHANGED <<service, gate, callers, stage, exit, att, cause, outcome>>

\* runner.Run returns.  The process is gone, and the service does not know yet:
\* the goroutine has still to take j.mu.
ProcessExit(j, e) ==
  /\ stage[j] = "admitted"
  /\ e # "error" => started[j]
  /\ stage' = [stage EXCEPT ![j] = "exited"]
  /\ exit' = [exit EXCEPT ![j] = e]
  /\ UNCHANGED <<service, gate, callers, started, att, cause, outcome>>

Unconditionally(j) == TRUE   \* mutant: every completion goes to the sink
Detached(j) == att[j] = "bg"

\* Mutant: the lease is given back as soon as the process is gone.
SettleReleases(j) ==
  /\ stage[j] = "exited"
  /\ stage' = [stage EXCEPT ![j] = IF Detached(j) THEN "settling" ELSE "settled"]
  /\ outcome' = [outcome EXCEPT ![j] = Classify(j)]
  /\ leases' = leases \ {j}
  /\ UNCHANGED <<service, frozen, callers, started, exit, att, cause>>

\* runJob settles the command under j.mu: evidence, classification, the
\* settling mark of a detached completion and terminal, together.
Settle(j) ==
  /\ stage[j] = "exited"
  /\ stage' = [stage EXCEPT ![j] = IF Detached(j) THEN "settling" ELSE "settled"]
  /\ outcome' = [outcome EXCEPT ![j] = Classify(j)]
  /\ UNCHANGED <<service, gate, callers, started, exit, att, cause>>

\* reportSettlement: the exit sink is offered a detached completion.  A refusal
\* stays in the ledger (m.settlements).
Report(j, ok) ==
  /\ stage[j] = "settling"
  /\ stage' = [stage EXCEPT ![j] = "settled"]
  /\ sink' = [sink EXCEPT ![j] = IF ok THEN "stored" ELSE "failed"]
  /\ UNCHANGED <<service, gate, started, exit, att, cause, outcome, wait, receipt>>

\* Mutant: the entry leaves the ledger before it is offered again.
RetryForgets(j) ==
  /\ sink[j] = "failed"
  /\ \E accepts \in BOOLEAN : sink' = [sink EXCEPT ![j] = IF accepts THEN "stored" ELSE "none"]
  /\ UNCHANGED <<service, gate, command, wait, receipt>>

\* RetrySettlements offers a refused completion again.
Retry(j) ==
  /\ sink[j] = "failed"
  /\ sink' = [sink EXCEPT ![j] = "stored"]
  /\ UNCHANGED <<service, gate, command, wait, receipt>>

\* runJob gives the capacity slot back.
Drain(j) ==
  /\ stage[j] = "settled"
  /\ stage' = [stage EXCEPT ![j] = "drained"]
  /\ active' = active - 1
  /\ UNCHANGED <<closed, cancelled, shut, turnStops, closedOps, gate, callers>>
  /\ UNCHANGED <<started, exit, att, cause, outcome>>

\* runJob's end: the lease is released, done is closed, wg is told.
Finish(j) ==
  /\ stage[j] = "drained"
  /\ stage' = [stage EXCEPT ![j] = "done"]
  /\ leases' = leases \ {j}
  /\ UNCHANGED <<service, frozen, callers, started, exit, att, cause, outcome>>

-----------------------------------------------------------------------------
\* A running command is handed off unless its stop was accepted.
HandsOff(j) == ~Terminal(j) /\ ~StopPending(j)

\* endForegroundWait on an expired budget or an ended turn: arbitrateWait reads
\* completion, stop and attachment together.
WaitEnds(j) ==
  /\ wait[j] = "waiting"
  /\ \/ /\ Terminal(j)
        /\ wait' = [wait EXCEPT ![j] = "terminal"]
        /\ UNCHANGED att
     \/ /\ ~Terminal(j) /\ StopPending(j)
        /\ wait' = [wait EXCEPT ![j] = "joining"]
        /\ UNCHANGED att
     \/ /\ HandsOff(j)
        /\ att' = [att EXCEPT ![j] = "bg"]
        /\ wait' = [wait EXCEPT ![j] = "continues"]
  /\ UNCHANGED <<service, gate, stage, started, exit, cause, outcome, sink, receipt>>

\* The waiting call, or its join of a stopped command, sees done closed.
WaitSettled(j) ==
  /\ wait[j] \in {"waiting", "joining"} /\ stage[j] = "done"
  /\ wait' = [wait EXCEPT ![j] = "terminal"]
  /\ UNCHANGED <<service, gate, command, sink, receipt>>

\* awaitSettlement's timer fires (or the select takes it over a closed done):
\* the caller gets the continuation as it is, still attached.
JoinTimeout(j) ==
  /\ wait[j] = "joining"
  /\ wait' = [wait EXCEPT ![j] = "abandoned"]
  /\ UNCHANGED <<service, gate, command, sink, receipt>>

-----------------------------------------------------------------------------
\* RequestStop, and Kill before it joins: one execution, whatever its attachment.
RequestStop(j) ==
  /\ Stoppable(j)
  /\ RequestStopLocked({j}, "request")
  /\ UNCHANGED <<service, gate, callers, stage, started, exit, att, outcome>>

LaunchedIn(t) == {j \in Jobs : Live(j) /\ TurnOfJob(j) = t}   \* mutant: detached ones too
AttachedTo(t) == {j \in Jobs : Live(j) /\ att[j] = "fg" /\ TurnOfJob(j) = t}

\* StopAttached: the turn admits nothing more, and what is attached to it stops.
StopAttached(t) ==
  /\ ~closed
  /\ turnStops' = Remember(turnStops, t)
  /\ RequestStopLocked(AttachedTo(t), "turn")
  /\ UNCHANGED <<closed, cancelled, shut, active, closedOps, gate, callers>>
  /\ UNCHANGED <<stage, started, exit, att, outcome>>

Selected(o) ==
  {j \in Jobs : Stoppable(j) /\ att[j] = "fg" /\ OpOf[j] = o}

\* InterruptOperation: admission of the operation closes before anything is
\* selected, and the join it returns covers what this call stopped.
InterruptOperation(o) ==
  /\ ~closed
  /\ closedOps' = Remember(closedOps, o)
  /\ RequestStopLocked(Selected(o), "steering")
  /\ receipt' = [j \in Jobs |-> IF j \in Selected(o) THEN "pending" ELSE receipt[j]]
  /\ UNCHANGED <<closed, cancelled, shut, active, turnStops, gate, sink, wait>>
  /\ UNCHANGED <<stage, started, exit, att, outcome>>

\* settledCommandState.
SettledState(j) ==
  IF outcome[j] = "stopped" \/ cause[j] = "steering" THEN "interrupted" ELSE "completed"

\* operationStopWait reads one captured execution, at the latest when its bound
\* expires; the same join may be asked again after an unknown.
JoinReports(j) ==
  /\ receipt[j] \in {"pending", "unknown"}
  /\ receipt' = [receipt EXCEPT ![j] =
       IF Terminal(j) THEN SettledState(j)
       ELSE IF att[j] = "bg" THEN "continues"
       ELSE "unknown"]
  /\ UNCHANGED <<service, gate, command, sink, wait>>

-----------------------------------------------------------------------------
\* The conversation context the service was built on ends.
CancelParent ==
  /\ ~cancelled
  /\ cancelled' = TRUE
  /\ UNCHANGED <<closed, shut, active, turnStops, closedOps, gate, command, callers>>

\* Shutdown closes admission and cancels every command, then joins wg.
Shutdown ==
  /\ shut = "idle"
  /\ closed' = TRUE /\ cancelled' = TRUE /\ shut' = "joining"
  /\ UNCHANGED <<active, turnStops, closedOps, gate, command, callers>>

\* wg's count is zero.
AllFinished == \A j \in Jobs : stage[j] \in {"new", "done"}

ShutdownReturns ==
  /\ shut = "joining" /\ AllFinished
  /\ shut' = "joined"
  /\ UNCHANGED <<closed, cancelled, active, turnStops, closedOps, gate, command, callers>>

\* The caller's deadline ends the join only; Shutdown may be called again.
ShutdownDeadline ==
  /\ shut = "joining"
  /\ shut' = "idle"
  /\ UNCHANGED <<closed, cancelled, active, turnStops, closedOps, gate, command, callers>>

\* The end gate accepts an end: AdmitWork refuses from here on.
AcceptEnd ==
  /\ ~frozen
  /\ frozen' = TRUE
  /\ UNCHANGED <<service, leases, command, callers>>

-----------------------------------------------------------------------------
Run(j) ==
  \/ Start(j)
  \/ \E e \in Exits : ProcessExit(j, e)
  \/ Settle(j)
  \/ \E ok \in BOOLEAN : Report(j, ok)
  \/ Retry(j)
  \/ Drain(j)
  \/ Finish(j)

Next ==
  \/ \E j \in Jobs :
       \/ \E detached \in BOOLEAN : Launch(j, detached)
       \/ Run(j)
       \/ WaitEnds(j) \/ WaitSettled(j) \/ JoinTimeout(j)
       \/ RequestStop(j) \/ JoinReports(j)
  \/ \E t \in Turns : StopAttached(t)
  \/ \E o \in Ops : InterruptOperation(o)
  \/ CancelParent \/ Shutdown \/ ShutdownReturns \/ ShutdownDeadline
  \/ AcceptEnd

Spec == Init /\ [][Next]_vars

\* The goroutine of an admitted command runs on, and a runner whose context is
\* done returns (it escalates from its own grace period).
GoroutineFairness(j) ==
  /\ WF_vars(Cancelled(j) /\ \E e \in Exits : ProcessExit(j, e))
  /\ WF_vars(Settle(j))
  /\ WF_vars(\E ok \in BOOLEAN : Report(j, ok))
  /\ WF_vars(Drain(j))
  /\ WF_vars(Finish(j))

\* A wait has a timer, and so has every join.
CallerFairness(j) ==
  /\ WF_vars(WaitEnds(j))
  /\ WF_vars(WaitSettled(j) \/ JoinTimeout(j))
  /\ WF_vars(JoinReports(j))

FairSpec ==
  /\ Spec
  /\ \A j \in Jobs : GoroutineFairness(j) /\ CallerFairness(j)
  /\ WF_vars(ShutdownReturns)

-----------------------------------------------------------------------------
\* Safety.

\* No more than MaxJobs processes are ever alive: a command that is stopping, and
\* one whose runner has returned but which has not settled, keep their slots
\* (Launch's check against active, runJob's decrement).
CapacityHeld == Cardinality({j \in Jobs : Live(j)}) <= MaxJobs

\* Once a turn is stopped, or an operation interrupted, nothing attached to it
\* runs on unasked: neither a command that was admitted while the stop was being
\* taken, nor one that lost the race between its handoff and the stop
\* (StopAttached, InterruptOperation, Launch's two refusals, arbitrateWait).
StoppedScopesAreQuiet ==
  \A j \in Jobs :
    /\ Live(j) /\ att[j] = "fg"
    /\ TurnOfJob(j) \in Range(turnStops) \/ OpOf[j] \in Range(closedOps)
    => StopPending(j)

\* The handoff-versus-stop race has one winner: a command stopped with its turn
\* or its operation was attached and stays attached, so one that detached first
\* is never stopped with them (endForegroundWait's contract).
OneWinner ==
  \A j \in Jobs : cause[j] \in {"turn", "steering"} => att[j] = "fg"

\* A completion has one reader: what the waiting call received as its tool
\* result is never reported to the exit sink as well (runJob's settlement).
ReportedOnce ==
  \A j \in Jobs : wait[j] = "terminal" => sink[j] = "none"

\* A stop accepted before settlement owns the outcome, and one that comes later
\* relabels nothing (requestStopLocked's terminal check, classifySettlement).
StopOwnsOutcome ==
  \A j \in Jobs : Terminal(j) => (outcome[j] = "stopped" <=> StopPending(j))

\* A join on the gate's membership concludes nothing too early: when an accepted
\* end sees it empty no process is alive and every detached completion has been
\* offered to the sink (Launch's AdmitWork, runJob's late lease release).
EndJoinSound ==
  frozen /\ leases = {} =>
    \A j \in Jobs :
      /\ ~Live(j)
      /\ stage[j] # "new" /\ att[j] = "bg" => sink[j] # "none"

\* A Shutdown that returned without its deadline left nothing behind, whatever
\* launches raced it (Launch's wg.Add under m.mu).
ShutdownOwnsNothing ==
  shut = "joined" => active = 0 /\ leases = {} /\ \A j \in Jobs : ~Live(j)

\* A receipt claims only what happened: an execution reported interrupted has
\* settled as stopped, and no join bound turns a running one into that claim
\* (operationStopWait).
ReceiptHonest ==
  \A j \in Jobs :
    /\ receipt[j] = "interrupted" => outcome[j] = "stopped"
    /\ receipt[j] \notin {"continues", "completed"}

-----------------------------------------------------------------------------
\* What the commands promise the end gate.
Unaccounted == {j \in Jobs : Live(j) \/ stage[j] = "settling"}
Accounted == {j \in Jobs : stage[j] \in {"settled", "drained", "done"}}

Gate == INSTANCE WorkMembership
          WITH Work <- Jobs, members <- Unaccounted, settled <- Accounted

\* The service's commands are a membership the gate can freeze: launches stop at
\* the acceptance and each command leaves once (AdmitWork under m.mu).
ImplementsMembership == Gate!Spec

\* What it needs of the exit sink, and JobExits provides: a refused completion can
\* be offered again, and an accepted one stays accepted (reportSettlement and the
\* ledger it keeps).
SinkContract == INSTANCE ExitSink WITH Completions <- Jobs
ReliesOnExitSink == SinkContract!Spec

-----------------------------------------------------------------------------
\* Liveness, under FairSpec.

\* An accepted stop ends in a settled command, its lease released and its done
\* channel closed, whatever its attachment and whether or not the sink accepts
\* its completion.
StopSettles == \A j \in Jobs : StopPending(j) ~> stage[j] = "done"

\* A Shutdown is not left joining for ever.
ShutdownJoins == shut = "joining" ~> shut # "joining"

-----------------------------------------------------------------------------
\* What the code's own words promise and its steps do not.

\* feature-spec.md: a command that completes in the foreground produces its
\* normal tool result and a detached one a completion record.  A stopped command
\* whose join timed out produces neither.
OutcomeDelivered ==
  \A j \in Jobs : stage[j] = "done" => sink[j] # "none" \/ wait[j] # "abandoned"

\* RequestStop's comment: a request that arrives after the process exited does
\* not relabel the natural outcome.  Between the runner's return and j.mu it does.
LateStopIsEvidence ==
  [][\A j \in Jobs : stage[j] = "exited" /\ ~StopPending(j) => ~StopPending(j)']_vars

\* endForegroundWait's comment: a caller never receives "still running" metadata
\* for a command that has already settled.
NeverContinuesSettled ==
  [][\A j \in Jobs : Terminal(j) /\ wait[j] # wait[j]' => wait'[j] = "terminal"]_vars
=============================================================================
