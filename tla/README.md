# Marshal, verified: the conversation's work

Marshal is a terminal coding agent written in Go. A *conversation* owns a set of
running things: model turns, shell commands (foreground and detached), delegated
child agents, watches, plan runs. Each of them is started by one goroutine, ends
in another, may be stopped by a third, and has to be accounted for when the
conversation ends: nothing may be left running, and nothing that finished may be
forgotten. While they run, the user types ahead, interrupts, and answers what they
ask; and before they change a file, the workspace is captured in a store that has
to survive the death of the process. That ownership is the program's own logic,
and it is what this directory models: TLA+ modules translated from the Go source,
TLC runs on small instances, and TLAPS proofs for every instance.

Paths below are relative to the repository's root.

## 1. The system and its parts

| Component | State | Operations | What is hard about it |
|---|---|---|---|
| Command service, `internal/tools/native/jobs_manager.go` | admitted commands, the capacity count, stopped turns, closed operations, the ledger of refused completions; per command: attachment, stop, evidence, outcome | Launch, WaitForeground, RequestStop, Kill, StopAttached, InterruptOperation, RetrySettlements, CommitLaunchPolicy, Shutdown | every command lives in a goroutine of its own, is waited for in another, and is stopped from a third; handoff, stop and exit race |
| Job-exit record, `internal/app/session/jobexit.go`, `internal/db/jobexits.go` | the list of completions, the queue of announcements, the pending mark, the stored list | AddJobExit, RetryJobExitSaves, load on resume | whole-list writes by concurrent callers, failed writes, crashes, announcements outside the lock |
| End gate, `endController` in `internal/app/session/session.go` | phase, members, scopes, parents, child cards | begin, reserve, release, attachTurn, bindChildCard, accept, stopTargets, openAnalysis | acceptance must freeze exactly what it showed the user |
| Runtime end, `internal/app/runtime.go` | accepted end, phase, last error | AcceptEnd, WaitForEnd, RunExitAnalysis, Quiesce, Close | repeated and concurrent finalizations, each with its own deadline |
| Steering and Send now, `internal/app/session/steering.go`, `internal/agent/runner.go` | the queue, the in-flight ledger, the open operation and its token, interruption workers, the receipts of the turn, commit units | PushSteering, SubmitSendNow, pop, clear, drain, stage, submit, join, TryFinishSteeringTurn, the worker | a request arrives next to the answer it should precede; a worker outlives the operation, or the turn, it was started for |
| Prompts and pending decisions, `internal/app/session/prompts.go`, `pending.go`, `internal/agent/requests.go` | the registry of open requests, four pending slots, one channel per request | register, resolve, cancel, supersede, resolve for shutdown; the waiter's own return | an answer, an interruption, the waiter's context, a consent and a shutdown compete for one channel and one slot |
| Agent runner and children, `internal/agent` | conversation, delegated agents | run a turn, delegate, join, roll over | children outlive the turn that started them |
| ACP server, `internal/acp` | sessions, the turn slot | prompt, cancel, load | a cancel races the end of its turn |
| Snapshot store, `internal/snapshot` | per workspace: the manifest (generations, the active one, protection, the capture in flight), the generations' repositories, the old store | capture, reconcile, admit, rotate, reclaim, prune, clean up, migrate, reset, discard | a crash between any two writes; budgets that reclaim; questions asked without the lock |
| Plan pipeline, `internal/pipeline` | the phases of a plan run | start, verify, review, commit, stop | partial failure of a step |
| Watches, `internal/watch` | registered watches and their results | start, stop, deliver | delivery after a stop |
| Event broker, `internal/pubsub/broker.go` | subscribers and their buffers | subscribe, publish, close | slow subscribers |
| Worktrees, policy, registry, config, db, providers, MCP, LSP, TUI, web | | | I/O, conversion or presentation |

How they interact. A tool call launches a command; the launch registers with the
end gate while it still holds the service's lock (`AdmitWork` under `m.mu`), and
the command's goroutine gives the registration back last. A detached completion
goes to the exit sink, which `app.go` wires to `session.State.AddJobExit`; what
that refuses stays in the service's ledger, which `joinEndWork` offers again. An
accepted end freezes the gate, stops the turns, the commands and the children,
joins the membership, and retries the job-exit saves. A Send now request marks the
open operation; its worker closes that operation at the command service and joins
what it stopped, cancels the operation's prompts, then its context, and reports
what it found. A prompt is raised by a tool or by the runner inside an operation
and waits for whichever comes first: a client's answer, that worker, or its own
context. The snapshot store is called before a turn changes files and by the
operator's commands; it shares nothing with the others but the workspace.

What makes each of them correct:

* *Command service*: capacity counts processes, not snapshots; a stopped scope
  admits nothing and leaves nothing attached running; handoff and stop have one
  winner; a completion has one reader; a stop ends in a settlement.
* *Job exits*: what was accepted is stored and stays stored; what is not stored
  is owed by somebody; a join that reports success left nothing undurable; a
  completion is announced after it is durable, and once (the code falls short of
  the last two, section 5).
* *End gate*: after the acceptance the membership only shrinks, every member is
  stoppable, and its emptiness means that everything is over.
* *Steering*: what the user typed is used once, by the model, the marker of an
  interrupted turn, or the user who takes it back; no final answer is published
  over a request that was accepted; an interruption reaches the operation it
  captured and none other, and its receipt says no more than the worker saw.
* *Prompts*: a request is decided once and for good, and its effect, what its client
  is told and what its waiter returns agree with the decision; no waiter takes a
  cancellation for an answer; what nobody has answered is on the screen; and every
  waiter returns.
* *Snapshots*: a snapshot whose ref was written is found until retention or an
  admission gives its whole generation up; the history of the old store is found
  until an operator discards it; a capture writes into a whole, active,
  unprotected generation, and begins only after what was interrupted is resolved.
* The others: *turn slot*, one turn at a time, and a cancel stops the turn it
  named; *pipeline*, a failed step never commits; *broker*, no publisher waits for
  a slow reader.

## 2. Modules

| Module | Models |
|---|---|
| `CommandService` | the command service, from `Launch` to `Shutdown` |
| `WorkMembership` | the abstract promise of the end gate: admit until accepted, settle once |
| `ExitSink` | the abstract promise of the exit sink: refused completions can be offered again, accepted ones stay accepted |
| `JobExits` | the job-exit record, its writers, announcers and finalizing joiners, crash and resume |
| `EndGate` | the end gate's registry and phases, who registers with it, and the runtime that ends a conversation |
| `Feedback` | the abstract promise of Send now: typed text is used once, and an accepted request is owed |
| `SendNow` | the queue, the turn, operations, interruption workers, receipts, commit units and notes, and the runner that stages, submits, joins and closes |
| `Decisions` | the abstract promise of the prompts: each request is decided once, and everybody is told the same |
| `Prompts` | the requests put to the user, the parties that settle them, and the waiters |
| `SnapshotStore` | the snapshot store of one workspace, with a crash between any two durable writes |
| `MCCommandService`, `MCJobExits`, `MCEndGate`, `MCSendNow`, `MCPrompts`, `MCSnapshotStore` | the instances TLC checks |
| `CommandServiceProofs`, `JobExitsProofs`, `EndGateProofs`, `EndGateJoinProofs`, `SendNowProofs`, `PromptsProofs`, `SnapshotStoreProofs` | the theorems |

They compose by contract: `CommandService` implements `WorkMembership` (its
launches and settlements are a membership that an acceptance freezes) and relies
on `ExitSink`; `JobExits` implements `ExitSink`, with the completions the service
offers as its threads; `EndGate` implements `WorkMembership` for everything that
registers through the gate's `begin`; `SendNow` implements `Feedback`; `Prompts`
implements `Decisions`, where claim, effect, channel, settlement and receipt are one
step. The worker of
`SendNow` appears in `Prompts` as the thread that cancels an operation's requests
(`SubmitSendNow`, `Collect`, `Interrupt`, `CancelOperation`) and in `CommandService`
as `InterruptOperation`: `SendNow` keeps of both only what they return, and when.

### CommandService

A job is a command that some operation may launch once; `OpOf` and `TurnOf` give
its operation and turn. One action is one critical section (`m.mu`, then
`j.mu`), or one step outside of them.

| Action | Code |
|---|---|
| `Launch` | the locked part of `Launch`: the refusals in their order, `AdmitWork`, the insertion |
| `Start`, `ProcessExit` | `OnStart`; `runner.Run` returning, which the service has not seen yet |
| `Settle` | the settlement section of `runJob`: evidence, classification, terminal |
| `Report`, `Retry` | `reportSettlement`, `RetrySettlements` |
| `Drain`, `Finish` | the end of `runJob`: the slot, then the lease and `done` |
| `WaitEnds`, `WaitSettled`, `JoinTimeout` | `WaitForeground`, `endForegroundWait` and `arbitrateWait`, `awaitSettlement` |
| `RequestStop`, `StopAttached`, `InterruptOperation`, `JoinReports` | the stops, and the join an interruption returns |
| `CancelParent`, `Shutdown`, `ShutdownReturns`, `ShutdownDeadline` | the manager context and `Shutdown` |
| `AcceptEnd` | the gate's acceptance, from which `AdmitWork` refuses |

`stage[j]` is the goroutine's program counter; "settling" is the code's settling
mark. `cause[j]` stands for the three fields a stop sets together. The stopped
turns and closed operations are bounded sequences, evicted oldest first as in the
code. The contexts are abstracted to `Cancelled(j)`: the service's or the
command's own context is done; a stop and the `cancel` call that follows it are
one step, since nothing but the runner can tell them apart.

### JobExits

A thread is the goroutine of a settled execution, or a joiner. `AddJobExit` is
followed through its lock sections: `Record` (under `s.mu`), `Queue`,
`BeginSave` (lock and copy), `SaveSucceeds`/`SaveFails` (the write and unlock),
`Take`, then per completion `Announce` (outside the lock) and `Mark`. `Settle` is
the answer `reportSettlement` acts on. A joiner passes `RetrySaves`, waits until
the membership is drained, and offers the ledger again
(`CopyLedger`, `Offer`, the same add path, `JoinReports`). `Restart` ends the
process at any point and resumes the session from the stored list.
The order in which one publisher announces its batch (oldest first) is
abstracted: any order.

### EndGate

The gate is one mutex, so each of its operations is one action, taken by the
goroutine of a turn, a delegated child, a card worker (a pipeline or review
child) or a command, or by a call into the runtime. `at[w]` is how far an
operation has come, `pass[p]` how far a call has.

| Action | Code |
|---|---|
| `TakeSlot`, `BeginTurn`, `Remember`, `PublishCancel` | the turn slot, then `BeginWorkCancelable` in its two gate sections and the tail of `Runtime.BeginWork` |
| `FinishTurn`, `EndWork`, `TurnDone` | the run's return, `releaseOldestParent`, and `workWG.Done` with the slot |
| `EnterKid`, `RefuseKid`, `RegisterKid`, `StartKid`, `ExitKid`, `FinishKid` | `agent.run`: creation, refusal, card, handle and goroutine, `ExitSubagentWork`, `FinishSubagent` |
| `DispatchCard`, `StartCard`, `FinishCard`, `PanicCard` | `runExec` and `runSubagentTask` around `bindChildCard` and `releaseChildCard` |
| `AdmitCmd`, `FinishCmd` | `AdmitWork` and its lease; the rest of a command is `CommandService` |
| `Show`, `AcceptEnd` | the warning and the acceptance, which refuses what was not shown |
| `WaitForEnd`, `TakeTargets`, `StopTargets`, `JoinTurns`, `JoinScope`, `Drain`, `Expire`, `Settle` | the stop and join pass shared by `WaitForEnd`, `RunExitAnalysis` and `Quiesce`, and the phase it ends in |
| `OpenAnalysis`, `GrantAnalysis`, `CloseAnalysis`, `AnalysisReturns` | `RunExitAnalysis` |
| `BeginQuiesce` ... `QuiesceReturns` | `Quiesce`, in its order |

Items are named by the operation that reserved them. `TakeTargets` and
`StopTargets` are two steps because the targets are collected under the gate's
lock and called outside of it. A caller in stage "waiting" holds the channel that
`signalDrainedLocked` closes the next time the registry is empty. `Transport`
chooses who runs turns: the ACP manager, which publishes a cancel function and
frees its slot last, or the in-process service, which registers none and frees
its slot first. `cancelled` collects what was told to stop; until then work runs
as long as it likes. An item is only ever added by its own operation, so a drain
that was missed can be waited for again.

### SendNow

`steeringMu` is one lock, and each of its sections is one action, taken by the
user, a worker, the runner or a tool. `pc` is how far the runner's loop has come,
`worker[o]` how far the interruption worker of an operation has.

| Action | Code |
|---|---|
| `PushSteering`, `PopSteering`, `ClearSteering`, `SubmitSendNow`, `SetHold` | what the user does; the submission marks the current operation and remembers what it covers |
| `StartWorker` | `startSteeringInterrupt`, after the submission has released its locks |
| `WorkerBegin`, `WorkerStops`, `WorkerJoins`, `WorkerChecks`, `WorkerMarks`, `WorkerNotes` | `runSteeringInterrupt`: the receipt, the handler and the cancellation, the bounded join, the verdict, the receipt again, the note |
| `BeginMutation`, `EndMutation` | commit units of a tool |
| `BeginTurn`, `Checkpoint`, `OpenOperation`, `RefuseCall`, `Persist`, `MarkSteeringSubmitted`, `Resend`, `CallEnds`, `WorkEnds` | a turn, its checkpoint, an operation around a model call or a tool batch, the transcript and then the acknowledgement |
| `FinishReads`, `FinishSteeringOperation` | `FinishSteeringOperation` in its two sections: find the worker, wait for it, clear the token |
| `TryFinishSteeringTurn`, `PublishAnswer`, `FailTurn`, `EndSteeringTurn` | the final admission, the answer, the marker, the end |
| `DrainSteering`, `PlainRunFails` | a nested run or a swarm role, which shares the queue but not the ledger |
| `Quiesce`, `ResolvePendingForShutdown` | the end of the session |

An entry is a name; the order of the queue, texts and receipts asked for again are
abstracted. `told` counts how often the transcript gave an entry to the model:
it is what "used once" is about.

### Prompts

`accessMu` is one lock, and each of its sections is one action. A request is its
own waiter; a thread is a client that answers, the interruption worker of an
operation, or a waiter whose context is done. `at[t]` is how far it has come and
`on[t]` the request it works on.

| Action | Code |
|---|---|
| `Register` | the `Register*` calls of approvals, access requests, skill gates, questions and passwords |
| `Claim`, `Apply`, `SettleAnswer`, `ClearAnswer`, `JoinAnswer` | `claimForAnswer`, the effect outside of the lock and its delivery, `settlePrompt`, `clearPromptSlot`, `joinClaim` |
| `ResolveAccess` | the typed access request, settled in one section |
| `CancelClaim` with `CancelDeliver`, `CancelSettle`, `CancelClear`, `CancelAccess`, `CancelJoin` | `CancelPrompt`, whoever calls it |
| `SubmitSendNow`, `Collect`, `Interrupt`, `CancelOperation` | Send now: the intent, `CancelOperationPrompts`, the context |
| `Receive`, `GiveUp`, `AfterCancel`, `ClearPrompt` | the waiter in `agent/requests.go`, `tools/native/sudo.go` and `question.go` |
| `AskConsent`, `EndConsent`, `Supersede` | `SetPendingApproval` as `requestSubagentConsent` uses it, and `settleSupersededPrompt` |
| `BeginQuiesce`, `Shutdown`, `ResolvePendingForShutdown` | the end of the session |

### SnapshotStore

Whoever holds the store lock runs one operation, `job`, at point `pc`; an action is
the work up to one durable write, and `Crash` may come between any two (it also
stands for an error return, which leaves the same things on disk). `manifest` and
`capture` are the manifest file, replaced atomically; `repo`, `objs` and `refs` are
the directories of the generations, and `legacyAt` is the old store.

| Action | Code |
|---|---|
| `BeginReconcile`, `ResolveCapture`, `ClearCapture`, `SealInterrupted` | `reconcileWorkspace`, `reconcileCapture`: the ref decides about an interrupted capture |
| `ForgetMissing`, `SealUnfinished`, `FinishDeletion` | `reconcileGenerations`: its pass over the records, then over the directories |
| `RemoveSome`, `RemoveRest`, `ForgetGeneration` | the removal of a generation that is marked |
| `ReclaimForAdmission`, `RefuseCapture`, `Rotate`, `InitDirectory`, `InitMetadata`, `ActivateGeneration` | `AdmitCapture` |
| `ReserveStaging`, `WriteObjects`, `SetPublicationIntent`, `PublishRef`, `FinishCapture`, `FailCapture` | `AdmitAndCaptureWithCleanup` |
| `BeginPrune`, `Expire`, `SealExpired`, `ReclaimExpired`, `EndRetention` | retention, of `Prune` and of `Cleanup` |
| `AskDiscard`, `AskChange`, `Decline`, `ConfirmDiscard`, `MarkDiscarded`, `ConfirmReset`, `ConfirmMigrate` | the operator's commands, whose question is asked without the lock |
| `CopyObjects`, `PublishMigrated`, `SealArchive`, `RemoveDuplicate`, `DropDuplicate` | `MigrateWorkspace` after its answer |
| `StepFails`, `Crash` | an error an operation goes on after, and one it does not survive |

Sizes and times are abstracted to choices: any capture may or may not fit, any
generation may be over its rotation target, and a snapshot expires at some time
between two operations (a pass compares every age with one cutoff). An admission
may reclaim the candidates in any order, where the code takes the oldest first.
`published`, `givenUp` and `discarded` are history: what had its ref written, what
a budget or the retention gave up, and what an operator gave up.

## 3. Runs

| Run | Instance | Checks |
|---|---|---|
| `commands` | two interchangeable commands of one operation, one slot | capacity, one reader, one winner, who owns an outcome, what an accepted end may conclude, both contracts |
| `command_liveness` | one command, two operations, a scope memory of one | quiet scopes, a stop settles, Shutdown ends |
| `job_exits` | two executions, one joiner | durability, what is owed, finalization, the sink contract, a completion is answered |
| `end_gate` | two in-process turns, a child, a worker, a command, one end caller, Quiesce | what a settled end and a clean Quiesce conclude, the FIFO, the membership contract |
| `end_analysis` | two ACP turns, a worker that may panic, two commands, one end caller, two analysis epochs | stop hooks reach running turns, epochs are joined |
| `end_liveness` | an ACP turn, a child, a worker, one end caller, Quiesce | an accepted end settles, Quiesce returns |
| `send_now` | a queued text, a Send now request, two turns, two operations | where owed text is, what a final answer and a receipt may claim, where a note goes, the feedback contract, an accepted request settles |
| `prompts` | two approvals, access requests or questions of one operation, one client, a consent | the contract of `Decisions`, what is on the screen |
| `prompt_waiters` | one request of any of the six kinds, one client | no fabricated answer, a won answer is used, the waiter returns |
| `snapshot_store` | two generations, two captures' snapshots, one old snapshot, two crashes or failed writes | no snapshot and no history is lost, the capture target stands, admissions are clean, interruptions are resolved |
| `outcome_delivered`, `load_fails` | | disagreements of section 5 |

Why the bounds are enough. The command service's races are between one command's
goroutine, its waiter and a stop, or between two commands that compete for a slot:
two commands and one slot reach every such case, also a slot handed from one to the
other. A scope memory of one makes eviction, and a launch after an eviction, happen
next to a second operation. Liveness concerns each command alone. In
`JobExits`, two executions give concurrent writers and announcers next to a joiner
that retries what both left. The
event counter stops at 2, which is enough to tell "announced more than once".
In `EndGate`, two turns overlap in the registry (the service frees
its slot before `EndWork`, and any `EndWork` may release the other's item); one
operation of each other kind meets every stage of an acceptance and of a pass;
two epochs let a stale analysis command meet a newer one (`MaxEpoch` bounds how
many are opened). Two passes run beside each other where Quiesce or the analysis
joins next to the end caller. In `SendNow`, two turns let a worker outlive its own
(`MaxTurns`), and two operations let it outlive its operation inside a turn; a
request without a text covers the queued one, and requests that bring their own
text, or several of them, are left to the theorems. In `Prompts`, two requests are
one that leaves a slot and one that takes it, and the kinds that meet in one slot
are those of the run; what a waiter makes of its channel is a matter of one request.
In `SnapshotStore`, two generations are an active one and one that is created,
archived or reclaimed beside it (`MaxGens` bounds how many are ever created); the
second fault (`MaxFaults`) hits the recovery from the first. Every safety property
of the runs that is also a theorem holds for any number of all of these.
Symmetry is used only for safety runs. `CHECK_DEADLOCK FALSE` is set everywhere:
a conversation in which everything was launched and has settled really stops, and
so does a model whose bounds are used up.

Fairness. Goroutines run on, so the steps of `runJob` after the runner's return
are weakly fair. A runner whose context is done returns: the runners escalate
from a polite signal to a kill after a grace period of their own. A foreground
wait and every join have timers. Nothing is assumed of a process that nobody
stopped, of stops, of retries or of launches. In `JobExits`, `jobExitSaveMu` is
a `sync.Mutex`, which hands itself over to a waiter that has starved for a
millisecond, hence strong fairness for a thread's add steps; writes return (with
either result). A Shutdown that joins is weakly fair.
In `EndGate` the registrations, cleanups and runtime steps are weakly fair; an
operation is only assumed to end once it, or the turn that waits for it, was told
to stop. A join is woken while the registry is empty, hence strong fairness for
it. `EndSettles` is a promise to a caller that asks again: `WaitForEnd` has a
deadline, the terminal treats the next quit as a retry, and the fairness repeats
the call while the conversation is stopping. `QuiesceEnds` assumes no deadline of
Quiesce's own joins: `Close(context.Background())` has none.
In `SendNow`, workers, the runner and the submissions' own calls are weakly fair; a
tool batch is assumed to end only once its operation was cancelled or its turn
stopped (or when it runs outside of an operation), and a model call only with
strong fairness, because a failed attempt may be sent again in between but not for
ever. Nothing is assumed of the user; `AcceptedSettles` excepts a session the user
holds. In `Prompts`, whoever has claimed a request runs on, the effect of an answer
returns, workers and waiters run on; nobody has to answer, and the property is about
requests whose operation is interrupted or whose turn is cancelled. In
`SnapshotStore`, the operation that holds the lock runs on (weak fairness of
`Work`), and somebody captures or cleans up again and again (strong fairness of
`BeginReconcile`): every turn captures before it changes files. Crashes are finitely
many, by their bound.

## 4. Proofs

TLAPS checks, for every finite set of commands, any operations and turns and any
bounds:

* `CommandServiceProofs`: type correctness and every safety invariant the runs
  check, plus the refinement of `WorkMembership` and the use of `ExitSink`
  (`ReliesOnExitSink`: each step of the service is a step of that specification or
  leaves its variables alone, which needs that no completion is offered before its
  command's own report). Type correctness is not
  inductive by itself, since `active` could go below zero: the strengthening says
  that `active` is the number of commands that hold a slot, and the same fact
  gives capacity. The other invariants need what the goroutine's stage implies of
  the other fields: an unlaunched command is untouched, a command has an outcome
  exactly if it is terminal, holds a lease from admission to its last step, is
  reported exactly if it settled detached, and an attachment changes only before
  settlement. The proofs have one step per action.
* `JobExitsProofs`: type correctness; that an accepted completion stays stored
  (assuming `~LoadMayFail`, the only assumption that is not about the shape of the
  constants: run `load_fails` shows that it is needed); that a record that is not
  stored is owed; that a successful join left everything stored; that a completion
  that was stored and not announced has somebody who will; and the refinement of
  `ExitSink`. The inductive invariant says that a writer's copy contains all that is
  stored, that only the lock's holder has a copy, that what a thread's save returned
  success for is stored, and that a joiner between its retry and its report has seen
  every record that can still be missing.
* `EndGateProofs`, for any finite set of turns and any children, workers,
  commands, callers, transport and number of epochs: type correctness; that a
  settled end has left nothing (`SettledMeansOver`); that the FIFO counts the
  unfinished turns (`ParentsExact`); that only an exit is analysed; and the
  refinement of `WorkMembership`. Because `EndWork` releases the oldest parent,
  a running turn need not hold its own item, so "it is running, hence its item is
  there" is not an invariant. The inductive invariant counts instead: the FIFO is
  as long as there are begun turns, has no parent twice, and its elements are
  exactly the registered turns that have been remembered. An empty registry then
  means an empty FIFO and no begun turn; everything else holds its own item. The
  other half is stability: once an end was accepted nothing registers through
  `begin`, a worker needs a running turn, so what a pass found over stays over
  until it concludes.
* `EndGateJoinProofs` builds on that invariant, for the same constants: what a clean
  Quiesce (`QuiescedIsQuiet`) and a clean exit analysis (`AnalysisJoined`) leave
  behind, that a stop pass finds the hook of every running ACP turn
  (`HookReachesTurn`), and that Quiesce, where its root context reaches the turns (those `BeginWork`
  registers for ACP), waits for nothing that was not told to stop
  (`QuiesceTellsAll`). The strengthening has one part per argument. `Quitting`: past
  the freeze the conversation is closed, so what the pass found over stays over,
  through its report and after. `CmdStages` and `Joined`: a command has an epoch from
  its admission and is never admitted again, so an empty scope stays empty until an
  analysis opens the next one. `Hooked`: the manager's slot is held from before
  `BeginWork` until after `EndWork`, so the FIFO never holds two turns, and neither
  "the newest unset hook" nor "the oldest registration" is another turn's. `Owned`,
  `Reached` and `Ordered`: whatever runs is cancelled or owned by a turn that is,
  also what starts or publishes its cancel after the contexts were cancelled.
* `SendNowProofs`, for any entries, requests, operations and turns: type correctness,
  the refinement of `Feedback`, and the run's safety properties, with
  `InterruptsItsOwn` besides. The inductive invariant has five parts: an entry is in
  one place and counted once (`Flow`); only requests of the active turn are in
  flight (`Turn`); only a captured operation has a worker, and it keeps its turn
  (`Capture`); a commit unit belongs to the batch that runs and is counted (`Unit`);
  and whatever a worker stopped, it stopped for a batch that will join it (`Join`).
  The last one is why a note stays in its turn.
* `PromptsProofs`, for any requests, clients and operations: a request is delivered
  once, a canceled one had no effect, no waiter takes a sentinel for an answer, what
  nobody has taken is on the screen, an answer that won is what its waiter returns
  (`WonIsUsed`), and the refinement of `Decisions`. The inductive invariant is about
  who may deliver: an exclusive claimant, or the holder of the slot of an access
  request, which no claimant delivers (`Taken`); that a canceler leaves its cause
  before its sentinel (`Told`); that a displaced request is remembered until it is
  settled (`Shown`); and that an answer in flight finds its waiter (`Heard`): a waiter
  whose request is claimed by a client still waits or joins the claim, and nobody
  records a cause against an answer, so the registry tells the waiter what the channel
  told the client. The refinement rests on one observation (`DeliversOnce`): a step
  that leaves every channel closed at most once writes only channels that were empty,
  so each of the ways to settle is an irrevocable decision.
* `SnapshotStoreProofs`, for any number of generations, snapshots and failures: the
  run's four safety properties. The inductive invariant relates the manifest to the
  directories (`Records`: what is usable is whole, what is protected holds migrated
  history only), states what an operation relies on at each of its points (`Held`),
  and keeps the snapshots (`Kept`), the history (`Archived`) and the order of the
  reconciliation (`Resolved`). `Kept` needs no assumption about the crash: the ref is
  the only thing that makes a snapshot a rollback target.

Type correctness is not run: each of these theorems proves it.
That a reader of a Shutdown, an interruption's receipt or a replaced conversation
may conclude (`ShutdownOwnsNothing`, `ReceiptHonest`, `ReplacementSkipsPostmortem`,
`NothingForgotten`, `InterruptsItsOwn`, `DeliveredOnce`, `CanceledRanNothing`,
`QuiesceTellsAll`) is proved only.

Every safety invariant, action property and refinement that a passing run checks is
also proved. Only model-checked are the liveness properties, because fairness is out
of the prover's reach: `StopSettles`, `ShutdownJoins`, `AddReturns`, `EndSettles`,
`QuiesceEnds`, `AcceptedSettles`, `WaiterReturns` and `StoreRecovers`.
`EndGateJoinProofs` proves the safety half of `QuiesceEnds`: Quiesce waits only for
what was told to stop.

## 5. Where the code and its words disagree

Two runs find a statement of the sources violated:

* `outcome_delivered`: a foreground command whose stop outlasts the join delivers
  its outcome to nobody (`awaitSettlement`, `runJob`).
* `load_fails`: a resume whose load fails lets the next save erase the stored
  completions.

Other statements are written down next to the properties of their module and are
refuted by an instance of one of the module's runs that names them (where a change
of that instance is needed, the table says which):

| Statement | What happens |
|---|---|
| `CommandService!LateStopIsEvidence` | the test of `processExited` in `requestStopLocked` decides nothing, so a stop that arrives after the exit still relabels it (jobs_manager.go:1687, 1965) |
| `CommandService!NeverContinuesSettled` | the join of a stopped command may answer "still running" for a settled one (jobs_manager.go:1514, 1577) |
| `JobExits!AnnouncedIsStored`, `AnnouncedNeverLost` | a completion can be announced before it is stored, and then be shown as lost (jobexit.go:210, 300, 326) |
| `JobExits!AnnouncedOnce` with a second joiner | an end pass that retries a completion between its announcement by another pass and the mark announces it again (jobexit.go:241, 326); with one joiner it holds |
| `EndGate!AcceptedEndAdmitsNothing` | a pipeline or review worker registers after the acceptance without having been shown (`bindChildCard`, session.go:2465), although session.go:1918 says that work that registers after one can never be admitted; the join still waits for it |
| `EndGate!SecondAcceptanceIsNoOp` | a repeated `AcceptEnd` takes the runtime's phase back to stopping (runtime.go:460, against the comment at 418) |
| `EndGate!AnalysisLeavesNothing` | a cancelled `RunExitAnalysis` returns from its join with commands of its epoch running (runtime.go:725, 791) |
| `EndGate!QuiesceJoinsChildren` | a child leaves the registry before `FinishSubagent` saves the work index (agent/subagent.go:486) |
| `EndGate!StopReachesChildren` | a stop pass finds a child without card or handle, and joins it without having stopped it (runtime.go:588, subagents.go:386) |
| `EndGate!EndSettles` with `Transport = "inproc"` | no stop pass reaches a turn of the in-process service, which registers no cancel function (acp/service/turns.go:211) |
| `SendNow!SettledReceiptsStay` | the worker moves back a receipt that `ResolvePendingForShutdown` settled while the turn was active (steering.go:930: "A delivered or already-settled receipt is left alone") |
| `Prompts!AnswerIsUsed` | a question or skill gate whose answer won while its context ended is reported as cancelled (requests.go:170, 269), although `CancelPrompt` says that an answer that already won is never rolled back (prompts.go:478) |
| `SnapshotStore!StrandedIsSealed` | `ClearCapture` of a failed capture removes the record from which the next reconciliation counts the objects it left (admission.go:661), and a reconciliation that clears the record and then fails, or skips, the seal has nothing left to seal by (reconcile.go:874, 987); the generation stays the capture target |

Smaller ones, met while translating and visible in the actions: a panic that `callRun`
recovers skips `FinishSubagent`, and the worker's item is never released (`PanicCard`;
review.go:49, dispatch.go:113); `ClearSteering` keeps
the entries of an accepted request after its turn was closed, not only during it
(steering.go:255); an approval that a shutdown or a consent cancels is reported to its
waiter as an interruption by Send now (requests.go:80); `ResolvePendingForShutdown`
forgets the registry while an answer is being applied, whose waiter may then return
without it; `CancelPrompt` of an access request answers true even if a client settled
it in between; and a refused admission may have reclaimed or rotated generations
first, where admission.go:107 promises a byte-identical store. A prune that runs
between a crash and the next capture may remove the generation the interrupted capture
names; `Save` then refuses to drop its record until a reconciliation clears the
capture, which is why `ForgetGeneration` may leave a record behind.

## 6. Not modelled

In the command service: `CommitLaunchPolicy` and retained resources, the eviction
sweep of old completed jobs, notifications and snapshots, output and progress,
launches scoped to an exit analysis, a refused `admission.Commit`, a call context
that is done before the launch. In the job exits: sessions without persistence,
the work-view index, and the order of a batch of announcements.

In the end gate: the argument-less `EnterSubagent` pair (used by nothing but
tests), the stamping of turns on items, the snapshots shown to clients,
`NewSession`'s reset of the end with the terminal's own end stages, `Close` after
Quiesce, and the watch manager's shutdown inside Quiesce. A worker's own children
and nested turns are not distinguished from the turn's.

In steering: the order of the queue, the texts, the snapshots and versions a client
sees, and a session without an interruption handler. In the prompts: what an access
grant changes besides its answer, prompts written to a slot without a record other
than the delegation consent, Full Auto as anything but a client, active tool calls.

In the snapshot store: the store lock (an operation has it), sizes and times, the
staging scratch, a corrupt or unreadable manifest (which quarantines the workspace),
several identities of one workspace, an older program that still writes the old store,
`LastPublishedAt`, partly written objects, and the restoration of files.

Left aside as a whole: the model loop, the providers, MCP and language servers, the
database, the web bridge and the terminal are I/O or presentation; configuration,
policy and wire conversion are pure functions of data; worktrees are sequences of git
subprocesses; the plan pipeline and the watches decide by what a model or a command
said, and the turns and workers they start are in `EndGate`; the event broker may drop
what it carries, and no property here depends on it. The delivery of an asynchronous
child's report and the turn slot of the ACP server have a state of their own that is
small and would be the next to model.
