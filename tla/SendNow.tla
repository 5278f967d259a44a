------------------------------ MODULE SendNow ------------------------------
(***************************************************************************)
(* Steering and Send now (internal/app/session/steering.go) and the runner *)
(* that drives it (internal/agent/runner.go, chat.go).  Text the user      *)
(* types while a turn runs is queued; a Send now request makes the turn    *)
(* owe it to the model, and interrupts the operation in flight through a   *)
(* worker of its own.  steeringMu is one lock, so each of its sections is  *)
(* one action, taken by the runner, an interruption worker, the user or a  *)
(* tool of the running batch.                                              *)
(*                                                                         *)
(* An operation that no request captured leaves no trace, so its name may  *)
(* be used again; requests are submitted once each.  The order within the  *)
(* queue is abstracted.  A handler is always installed (app.go:1194).      *)
(* A runner without Send now (a swarm role, a nested run) shares the queue *)
(* but not the ledger: it runs between turns or inside a tool batch.       *)
(***************************************************************************)
EXTENDS Naturals, FiniteSets

CONSTANTS
  Texts,         \* entries the user queues without asking for anything
  Sends,         \* Send now requests with a text, which are entries as well
  Flushes,       \* Send now requests that carry no text
  Ops,           \* operation identities
  MaxTurns,      \* how many turns begin
  None

Requests == Sends \cup Flushes
Entries == Texts \cup Sends

ASSUME SendAssumption ==
  /\ Texts \cap Requests = {} /\ Sends \cap Flushes = {}
  /\ MaxTurns \in Nat /\ None \notin Ops

VARIABLES
  queue,         \* steeringQueue
  staged,        \* the in-flight ledger, entries that are neither submitted nor archived
  submitted,     \* IDs a model request carried, and
  archived,      \* IDs the interruption marker reported, in this turn
  told,          \* how often the transcript gave the entry to the model
  fate,          \* where an entry went that the model did not get
  turn, active, closing,
  current,       \* the open operation
  turnOf,        \* the turn an operation belongs to
  requested,     \* the token's cancellation intent
  cancelled,     \* what its context was cancelled with
  started,       \* interruptOnce
  registered,    \* the interrupts map
  worker,        \* how far an operation's interruption worker is
  verdict,       \* the status the worker will report, and
  outcome,       \* what it learned: nothing, stopped commands, or a failure
  notes,         \* the interruption note of an operation
  units,         \* the count of admitted commit units
  unit,          \* the operation whose tool holds one
  status, covered, ref, reqTurn,   \* the request ledger
  starting,      \* submissions that have yet to start their worker
  held, quiescing,
  pc,            \* the runner
  scope,         \* the operation its call runs under
  batch,         \* the entries it is submitting
  joining,       \* the worker it found to join
  next,          \* where it goes after the join
  stopped        \* the turn's context is done

entries == <<queue, staged, submitted, archived, told, fate>>
turns == <<turn, active, closing>>
operations == <<current, turnOf, requested, cancelled>>
workers == <<started, registered, worker, verdict, outcome>>
ledger == <<status, covered, ref, reqTurn, starting>>
commits == <<units, unit>>
session == <<held, quiescing>>
runner == <<pc, scope, batch, joining, next, stopped>>
vars == <<entries, turns, operations, workers, notes, ledger, commits, session, runner>>

TypeOK ==
  /\ queue \subseteq Entries /\ staged \subseteq Entries
  /\ submitted \subseteq Entries /\ archived \subseteq Entries
  /\ told \in [Entries -> 0..2]
  /\ fate \in [Entries -> {"none", "marker", "user", "dropped"}]
  /\ turn \in 0..MaxTurns /\ active \in BOOLEAN /\ closing \in BOOLEAN
  /\ current \in Ops \cup {None} /\ turnOf \in [Ops -> 0..MaxTurns]
  /\ requested \subseteq Ops
  /\ cancelled \in [Ops -> {"no", "steering", "joined"}]
  /\ started \subseteq Ops /\ registered \subseteq Ops
  /\ worker \in [Ops -> {"none", "begin", "stop", "wait", "check", "mark", "note", "done"}]
  /\ verdict \in [Ops -> {"interrupting", "waiting_safe", "waiting_resume"}]
  /\ outcome \in [Ops -> {"nothing", "stopped", "failed"}]
  /\ notes \in [Ops -> {"none", "pending", "staged", "submitted", "dropped"}]
  /\ units \in Nat /\ unit \in Ops \cup {None}
  /\ status \in [Requests -> {"none", "accepted", "interrupting", "waiting_safe",
                              "waiting_resume", "delivered", "undelivered"}]
  /\ covered \in [Requests -> SUBSET Entries]
  /\ ref \in [Requests -> Ops \cup {None}]
  /\ reqTurn \in [Requests -> 0..MaxTurns] /\ starting \subseteq Requests
  /\ held \in BOOLEAN /\ quiescing \in BOOLEAN
  /\ pc \in {"idle", "checkpoint", "model", "call", "mark", "answer", "join", "wait",
             "tools", "work", "final", "publish", "failing", "ending"}
  /\ scope \in Ops \cup {None} /\ batch \subseteq Entries /\ joining \in BOOLEAN
  /\ next \in {"checkpoint", "tools", "final", "failing", "ending"}
  /\ stopped \in BOOLEAN

Init ==
  /\ queue = {} /\ staged = {} /\ submitted = {} /\ archived = {}
  /\ told = [e \in Entries |-> 0] /\ fate = [e \in Entries |-> "none"]
  /\ turn = 0 /\ active = FALSE /\ closing = FALSE
  /\ current = None /\ turnOf = [o \in Ops |-> 0]
  /\ requested = {} /\ cancelled = [o \in Ops |-> "no"]
  /\ started = {} /\ registered = {}
  /\ worker = [o \in Ops |-> "none"]
  /\ verdict = [o \in Ops |-> "interrupting"] /\ outcome = [o \in Ops |-> "nothing"]
  /\ notes = [o \in Ops |-> "none"]
  /\ units = 0 /\ unit = None
  /\ status = [r \in Requests |-> "none"] /\ covered = [r \in Requests |-> {}]
  /\ ref = [r \in Requests |-> None] /\ reqTurn = [r \in Requests |-> 0]
  /\ starting = {}
  /\ held = FALSE /\ quiescing = FALSE
  /\ pc = "idle" /\ scope = None /\ batch = {} /\ joining = FALSE
  /\ next = "checkpoint" /\ stopped = FALSE
-----------------------------------------------------------------------------
\* A request of the current turn that was not delivered (the ledger is replaced
\* when a turn begins).
Live(r) == status[r] \notin {"none", "delivered"} /\ reqTurn[r] = turn
Satisfied(r) == covered[r] \subseteq submitted \cup archived
Pending == \E r \in Requests : Live(r) /\ ~Satisfied(r)
ProtectedQueued ==                                            \* mutant
  UNION {covered[r] : r \in {r \in Requests : Live(r) /\ status[r] = "accepted"}}
Protected == UNION {covered[r] : r \in {r \in Requests : Live(r)}}
DrainProtectedNothing == {}                                   \* mutant
DrainProtected == IF active THEN Protected ELSE {}

AdmitsClosing == active                                       \* mutant
Admits == active /\ ~closing

\* A context keeps its first cause.
Cancel(o, cause) ==
  cancelled' = [p \in Ops |-> IF p = o /\ cancelled[p] = "no" THEN cause ELSE cancelled[p]]

AdvanceLate(o, s, full) ==                                    \* mutant
  status' = [r \in Requests |-> IF Live(r) /\ ref[r] = o THEN s ELSE status[r]]

\* markSteeringInterruptState: every request that captured the operation.
Advance(o, s, full) ==
  status' = [r \in Requests |->
    IF /\ active /\ turn = turnOf[o]
       /\ Live(r) /\ ref[r] = o
       /\ status[r] # s \/ full
    THEN s ELSE status[r]]
-----------------------------------------------------------------------------
\* The user.
PushSteering(e) ==
  /\ e \in Texts /\ told[e] = 0 /\ fate[e] = "none" /\ e \notin queue \cup staged
  /\ queue' = queue \cup {e}
  /\ UNCHANGED <<staged, submitted, archived, told, fate, turns, operations, workers, notes,
                 ledger, commits, session, runner>>

PopSteering(e) ==
  /\ e \in queue \ DrainProtected
  /\ queue' = queue \ {e}
  /\ fate' = [fate EXCEPT ![e] = "user"]
  /\ UNCHANGED <<staged, submitted, archived, told, turns, operations, workers, notes,
                 ledger, commits, session, runner>>

ClearSteering ==
  /\ queue \ Protected # {}
  /\ queue' = queue \cap Protected
  /\ fate' = [e \in Entries |-> IF e \in queue \ Protected THEN "dropped" ELSE fate[e]]
  /\ UNCHANGED <<staged, submitted, archived, told, turns, operations, workers, notes,
                 ledger, commits, session, runner>>

SubmitSendNow(r) ==
  /\ status[r] = "none" /\ Admits
  /\ r \in Flushes => queue \cup staged # {}
  /\ queue' = IF r \in Sends THEN queue \cup {r} ELSE queue
  /\ covered' = [covered EXCEPT ![r] = queue' \cup staged]
  /\ status' = [status EXCEPT ![r] = "accepted"]
  /\ reqTurn' = [reqTurn EXCEPT ![r] = turn]
  /\ ref' = [ref EXCEPT ![r] = current]
  /\ requested' = IF current = None THEN requested ELSE requested \cup {current}
  /\ starting' = IF current = None \/ current \in registered THEN starting
                 ELSE starting \cup {r}
  /\ UNCHANGED <<staged, submitted, archived, told, fate, turns, current, turnOf, cancelled,
                 workers, notes, commits, session, runner>>

\* startSteeringInterrupt, after the submission has released its locks.
StartWorker(r) ==
  /\ r \in starting
  /\ starting' = starting \ {r}
  /\ LET o == ref[r] IN
       IF o \in started THEN UNCHANGED <<started, registered, worker>>
       ELSE /\ started' = started \cup {o} /\ registered' = registered \cup {o}
            /\ worker' = [worker EXCEPT ![o] = "begin"]
  /\ UNCHANGED <<entries, turns, operations, verdict, outcome, notes, status, covered, ref,
                 reqTurn, commits, session, runner>>

SetHold ==
  /\ held' = ~held
  /\ UNCHANGED <<entries, turns, operations, workers, notes, ledger, commits, quiescing,
                 runner>>

CancelTurn ==
  /\ pc # "idle" /\ ~stopped
  /\ stopped' = TRUE
  /\ UNCHANGED <<entries, turns, operations, workers, notes, ledger, commits, session, pc,
                 scope, batch, joining, next>>

\* Quiesce: BeginQuiesce, and Shutdown, which cancels the session's context;
\* ResolvePendingForShutdown between them is an action of its own.
Quiesce ==
  /\ ~quiescing
  /\ quiescing' = TRUE
  /\ UNCHANGED <<entries, turns, operations, workers, notes, ledger, commits, held, runner>>

\* By an accepted end, a shutdown or a replaced session, and more than once.
ResolvePendingForShutdown ==
  /\ status' = [r \in Requests |-> IF Live(r) THEN "undelivered" ELSE status[r]]
  /\ queue' = queue \cap Protected
  /\ fate' = [e \in Entries |-> IF e \in queue \ Protected THEN "dropped" ELSE fate[e]]
  /\ UNCHANGED <<staged, submitted, archived, told, turns, operations, workers, notes,
                 covered, ref, reqTurn, starting, commits, session, runner>>
-----------------------------------------------------------------------------
\* The interruption worker.
WorkerBegin(o) ==
  /\ worker[o] = "begin"
  /\ Advance(o, "interrupting", FALSE)
  /\ worker' = [worker EXCEPT ![o] = "stop"]
  /\ UNCHANGED <<entries, turns, operations, started, registered, verdict, outcome, notes,
                 covered, ref, reqTurn, starting, commits, session, runner>>

\* The handler has returned; the operation's prompts and context are cancelled.
\* It finds commands to stop only while the operation's batch is running.
WorkerStops(o, found) ==
  /\ worker[o] = "stop"
  /\ found = "stopped" => pc = "work" /\ scope = o
  /\ outcome' = [outcome EXCEPT ![o] = found]
  /\ verdict' = [verdict EXCEPT ![o] = IF found = "failed" THEN "waiting_safe" ELSE @]
  /\ Cancel(o, "steering")
  /\ worker' = [worker EXCEPT ![o] = IF found = "failed" THEN "check" ELSE "wait"]
  /\ UNCHANGED <<entries, turns, current, turnOf, requested, started, registered, notes,
                 ledger, commits, session, runner>>

WorkerJoins(o, confirmed) ==
  /\ worker[o] = "wait"
  /\ verdict' = [verdict EXCEPT ![o] = IF confirmed THEN @ ELSE "waiting_safe"]
  /\ outcome' = [outcome EXCEPT ![o] = IF confirmed \/ @ = "stopped" THEN @ ELSE "failed"]
  /\ worker' = [worker EXCEPT ![o] = "check"]
  /\ UNCHANGED <<entries, turns, operations, started, registered, notes, ledger, commits,
                 session, runner>>

VerdictUnits(o) ==                                            \* mutant
  IF held /\ verdict[o] # "waiting_safe" THEN "waiting_resume" ELSE verdict[o]
Verdict(o) ==
  IF units > 0 \/ verdict[o] = "waiting_safe" THEN "waiting_safe"
  ELSE IF held THEN "waiting_resume" ELSE verdict[o]

WorkerChecks(o) ==
  /\ worker[o] = "check"
  /\ verdict' = [verdict EXCEPT ![o] = Verdict(o)]
  /\ worker' = [worker EXCEPT ![o] = "mark"]
  /\ UNCHANGED <<entries, turns, operations, started, registered, outcome, notes, ledger,
                 commits, session, runner>>

WorkerMarks(o) ==
  /\ worker[o] = "mark"
  /\ Advance(o, verdict[o], outcome[o] # "nothing")
  /\ worker' = [worker EXCEPT ![o] = "note"]
  /\ UNCHANGED <<entries, turns, operations, started, registered, verdict, outcome, notes,
                 covered, ref, reqTurn, starting, commits, session, runner>>

DoneUnlessFailed(o) ==                                        \* mutant
  worker' = IF outcome[o] = "failed" THEN worker ELSE [worker EXCEPT ![o] = "done"]
Done(o) == worker' = [worker EXCEPT ![o] = "done"]

\* queueSteeringNote, which names stopped executions only; then the worker is done.
WorkerNotes(o) ==
  /\ worker[o] = "note"
  /\ notes' = [notes EXCEPT ![o] = IF active /\ outcome[o] = "stopped" THEN "pending" ELSE @]
  /\ Done(o)
  /\ UNCHANGED <<entries, turns, operations, started, registered, verdict, outcome, ledger,
                 commits, session, runner>>
-----------------------------------------------------------------------------
\* A tool of the running batch enters and leaves a commit unit.
BeginMutation(o) ==
  /\ pc = "work" /\ scope = o /\ unit = None
  /\ Admits /\ turn = turnOf[o] /\ o \notin requested
  /\ unit' = o /\ units' = units + 1
  /\ UNCHANGED <<entries, turns, operations, workers, notes, ledger, session, runner>>

EndMutation ==
  /\ unit # None
  /\ unit' = None
  /\ units' = IF turn = turnOf[unit] /\ units > 0 THEN units - 1 ELSE units
  /\ UNCHANGED <<entries, turns, operations, workers, notes, ledger, session, runner>>
-----------------------------------------------------------------------------
\* The runner.
BeginTurn ==
  /\ pc = "idle" /\ turn < MaxTurns /\ ~quiescing /\ ~active
  /\ turn' = turn + 1 /\ active' = TRUE /\ closing' = FALSE
  /\ current' = None /\ registered' = {} /\ staged' = {}
  /\ notes' = [o \in Ops |-> IF notes[o] \in {"pending", "staged"} THEN "dropped" ELSE notes[o]]
  /\ submitted' = {} /\ archived' = {} /\ units' = 0
  /\ pc' = "checkpoint" /\ stopped' = FALSE
  /\ UNCHANGED <<queue, told, fate, turnOf, requested, cancelled, started, worker, verdict,
                 outcome, ledger, unit, session, scope, batch, joining, next>>

\* A runner without Send now drains the queue at its loop top, and reports what
\* is left in a marker of its own when it is cancelled.
PlainRun == pc \in {"idle", "work"}

DrainSteering ==
  /\ PlainRun /\ ~held /\ queue \ DrainProtected # {}
  /\ told' = [e \in Entries |->
       IF e \in queue \ DrainProtected THEN told[e] + 1 ELSE told[e]]
  /\ queue' = queue \cap DrainProtected
  /\ UNCHANGED <<staged, submitted, archived, fate, turns, operations, workers, notes,
                 ledger, commits, session, runner>>

DrainSteeringForInterrupt ==
  /\ archived' = archived \cup queue \cup staged
  /\ fate' = [e \in Entries |-> IF e \in queue \cup staged THEN "marker" ELSE fate[e]]
  /\ queue' = {} /\ staged' = {}
  /\ UNCHANGED <<submitted, told, turns, operations, workers, notes, ledger, commits, session>>

PlainRunFails ==
  /\ PlainRun
  /\ DrainSteeringForInterrupt
  /\ UNCHANGED runner

\* steeringCheckpoint and StageSteering.
Checkpoint ==
  /\ pc = "checkpoint" /\ ~held /\ ~stopped
  /\ staged' = staged \cup queue /\ queue' = {}
  /\ notes' = [o \in Ops |-> IF notes[o] = "pending" THEN "staged" ELSE notes[o]]
  /\ pc' = "model"
  /\ UNCHANGED <<submitted, archived, told, fate, turns, operations, workers, ledger,
                 commits, session, scope, batch, joining, next, stopped>>

CheckpointCancelled ==
  /\ pc = "checkpoint" /\ stopped
  /\ pc' = "failing"
  /\ UNCHANGED <<entries, turns, operations, workers, notes, ledger, commits, session,
                 scope, batch, joining, next, stopped>>

\* BeginSteeringOperation; a refused call runs without an operation.
OpenOperation(o) ==
  /\ pc \in {"model", "tools"}
  /\ o \notin requested
  /\ IF Admits /\ ~Pending /\ current = None
     THEN /\ current' = o /\ scope' = o
          /\ turnOf' = [turnOf EXCEPT ![o] = turn]
          /\ cancelled' = [cancelled EXCEPT ![o] = "no"]
     ELSE /\ scope' = None
          /\ UNCHANGED <<current, turnOf, cancelled>>
  /\ pc' = IF pc = "model" THEN "call" ELSE "work"
  /\ UNCHANGED <<entries, turns, requested, workers, notes, ledger, commits, session,
                 batch, joining, next, stopped>>

Interrupted == scope # None /\ scope \in requested

\* The admission check before a request goes out.
RefuseCall ==
  /\ pc = "call" /\ Interrupted
  /\ pc' = "join" /\ next' = "checkpoint"
  /\ UNCHANGED <<entries, turns, operations, workers, notes, ledger, commits, session,
                 scope, batch, joining, stopped>>

\* commitSteeringSubmission: SteeringToSubmit and the transcript, then
\* MarkSteeringSubmitted in a lock section of its own.
Persist ==
  /\ pc = "call" /\ ~Interrupted
  /\ batch' = staged
  /\ told' = [e \in Entries |-> IF e \in staged THEN told[e] + 1 ELSE told[e]]
  /\ pc' = "mark"
  /\ UNCHANGED <<queue, staged, submitted, archived, fate, turns, operations, workers, notes,
                 ledger, commits, session, scope, joining, next, stopped>>

Acknowledge == submitted' = submitted \cup batch /\ staged' = staged \ batch

MarkSteeringSubmitted ==
  /\ pc = "mark"
  /\ Acknowledge
  /\ notes' = [o \in Ops |-> IF notes[o] = "staged" THEN "submitted" ELSE notes[o]]
  /\ status' = [r \in Requests |->
       IF active /\ Live(r) /\ covered[r] \subseteq submitted' \cup archived
       THEN "delivered" ELSE status[r]]
  /\ batch' = {} /\ pc' = "answer"
  /\ UNCHANGED <<queue, archived, told, fate, turns, operations, workers, covered, ref,
                 reqTurn, starting, commits, session, scope, joining, next, stopped>>

\* The attempt failed and is sent again, under the same operation.
Resend ==
  /\ pc = "answer" /\ ~stopped
  /\ pc' = "call"
  /\ UNCHANGED <<entries, turns, operations, workers, notes, ledger, commits, session,
                 scope, batch, joining, next, stopped>>

\* The call is over: an answer nobody interrupted is used, an interrupted one is
\* discarded, a cancelled or failed turn stops.
CallEnds(where) ==
  /\ pc = "answer"
  /\ where \in {"tools", "final"} => ~Interrupted /\ ~stopped
  /\ where = "checkpoint" => Interrupted
  /\ where = "failing" => stopped
  /\ pc' = "join" /\ next' = where
  /\ UNCHANGED <<entries, turns, operations, workers, notes, ledger, commits, session,
                 scope, batch, joining, stopped>>

WorkEnds(where) ==
  /\ pc = "work" /\ unit = None
  /\ where \in {"checkpoint", "failing", "ending"} /\ (where = "failing" => stopped)
  /\ pc' = "join" /\ next' = where
  /\ UNCHANGED <<entries, turns, operations, workers, notes, ledger, commits, session,
                 scope, batch, joining, stopped>>

\* FinishSteeringOperation reads the worker, waits for it, and clears its token.
FinishReads ==
  /\ pc = "join"
  /\ joining' = (scope \in registered)
  /\ pc' = "wait"
  /\ UNCHANGED <<entries, turns, operations, workers, notes, ledger, commits, session,
                 scope, batch, next, stopped>>

JoinedAtOnce == TRUE                                          \* mutant
Joined == joining => worker[scope] = "done" \/ quiescing

FinishSteeringOperation ==
  /\ pc = "wait"
  /\ Joined
  /\ current' = IF current = scope THEN None ELSE current
  /\ Cancel(scope, "joined")
  /\ scope' = None /\ joining' = FALSE
  /\ pc' = next /\ next' = "checkpoint"
  /\ UNCHANGED <<entries, turns, turnOf, requested, workers, notes, ledger, commits,
                 session, batch, stopped>>

\* TryFinishSteeringTurn, the final-admission check; refused, the runner goes
\* back to the checkpoint, or gives up when its budget is spent.
TryFinishSteeringTurn ==
  /\ pc = "final"
  /\ IF ~Pending
     THEN closing' = TRUE /\ pc' = "publish"
     ELSE UNCHANGED closing /\ pc' \in {"checkpoint", "ending"}
  /\ UNCHANGED <<entries, turn, active, operations, workers, notes, ledger, commits,
                 session, scope, batch, joining, next, stopped>>

PublishAnswer ==
  /\ pc = "publish"
  /\ pc' = "ending"
  /\ UNCHANGED <<entries, turns, operations, workers, notes, ledger, commits, session,
                 scope, batch, joining, next, stopped>>

\* failTurn and recordInterruptMarker.
FailTurn ==
  /\ pc = "failing"
  /\ DrainSteeringForInterrupt
  /\ pc' = "ending"
  /\ UNCHANGED <<scope, batch, joining, next, stopped>>

EndSteeringTurn ==
  /\ pc = "ending"
  /\ active' = FALSE /\ closing' = FALSE
  /\ Cancel(current, "joined")
  /\ current' = None
  /\ status' = [r \in Requests |-> IF Live(r) THEN "undelivered" ELSE status[r]]
  /\ queue' = queue \cup staged /\ staged' = {}
  /\ notes' = [o \in Ops |-> IF notes[o] \in {"pending", "staged"} THEN "dropped" ELSE notes[o]]
  /\ units' = 0
  /\ pc' = "idle"
  /\ UNCHANGED <<submitted, archived, told, fate, turn, turnOf, requested, workers, covered,
                 ref, reqTurn, starting, unit, session, scope, batch, joining, next, stopped>>
-----------------------------------------------------------------------------
User ==
  \/ \E e \in Texts : PushSteering(e)
  \/ \E e \in Entries : PopSteering(e)
  \/ ClearSteering
  \/ \E r \in Requests : SubmitSendNow(r)
  \/ SetHold \/ CancelTurn \/ Quiesce \/ ResolvePendingForShutdown

Found == {"nothing", "stopped", "failed"}
Worker(o) ==
  \/ WorkerBegin(o) \/ WorkerChecks(o) \/ WorkerMarks(o) \/ WorkerNotes(o)
  \/ \E found \in Found : WorkerStops(o, found)
  \/ \E confirmed \in BOOLEAN : WorkerJoins(o, confirmed)

Open == \E o \in Ops : OpenOperation(o)
Ends == {"tools", "final", "checkpoint", "failing", "ending"}

Runner ==
  \/ Checkpoint \/ CheckpointCancelled \/ Open \/ RefuseCall \/ Persist
  \/ MarkSteeringSubmitted \/ FinishReads \/ FinishSteeringOperation
  \/ TryFinishSteeringTurn \/ PublishAnswer \/ FailTurn \/ EndSteeringTurn

Next ==
  \/ User
  \/ \E r \in Requests : StartWorker(r)
  \/ \E o \in Ops : Worker(o) \/ BeginMutation(o)
  \/ EndMutation
  \/ BeginTurn \/ DrainSteering \/ PlainRunFails
  \/ Runner \/ Resend
  \/ \E where \in Ends : CallEnds(where) \/ WorkEnds(where)

Spec == Init /\ [][Next]_vars

\* Goroutines run on, provider calls are bounded by their timeouts, and a batch
\* ends once its operation was cancelled or, when it could not open one, because
\* its prompts are answered and its waits expire.
FairSpec ==
  /\ Spec
  /\ \A r \in Requests : WF_vars(StartWorker(r))
  /\ \A o \in Ops : WF_vars(Worker(o))
  /\ WF_vars(Runner) /\ WF_vars(EndMutation)
  /\ SF_vars(\E where \in Ends : CallEnds(where))
  /\ WF_vars((stopped \/ (IF scope = None THEN TRUE ELSE cancelled[scope] = "steering"))
              /\ \E where \in Ends : WorkEnds(where))
-----------------------------------------------------------------------------
Where(e) ==
  IF e \in queue THEN "waiting"
  ELSE IF told[e] = 0
  THEN IF fate[e] # "none" THEN fate[e] ELSE IF e \in staged THEN "waiting" ELSE "new"
  ELSE IF told[e] = 1 /\ fate[e] = "none" THEN "model" ELSE "twice"

Receipt(r) ==
  IF status[r] \in {"none", "delivered", "undelivered"} THEN status[r] ELSE "owed"

Text == INSTANCE Feedback WITH
  place <- [e \in Entries |-> Where(e)],
  receipt <- [r \in Requests |-> Receipt(r)],
  promise <- covered

\* What the user typed is used once, whoever takes it, and a request counts as
\* delivered only after everything it covers was read; an entry it still owes is
\* neither popped, drained nor cleared (steering.go, DrainSteering to
\* DrainSteeringForInterrupt).
ImplementsFeedback == Text!Spec

\* Steering an active turn owes the model is where the next checkpoint finds it;
\* an entry that is in neither place would block every new operation and the
\* final answer for good (steeringDrainProtectedLocked).
OwedIsReachable ==
  active => \A r \in Requests :
    Live(r) => covered[r] \ (submitted \cup archived) \subseteq queue \cup staged

\* No final answer is published over accepted text the model has not read, not
\* even when the request arrives next to the publication (TryFinishSteeringTurn).
FinalAnswerOwesNothing == closing => ~Pending

\* Only an operation that a request captured is ever interrupted: a worker that
\* is late does not cancel the operation that replaced its own
\* (runSteeringInterrupt).
InterruptsItsOwn == \A o \in Ops : cancelled[o] = "steering" => o \in requested

\* A receipt that claims an interruption without reservation leaves no commit
\* unit of the operation running (runSteeringInterrupt, beginSteeringMutation).
ClaimsSafeBoundary ==
  \A r \in Requests :
    /\ Live(r) /\ ref[r] # None
    /\ worker[ref[r]] \in {"note", "done"}
    /\ status[r] \in {"interrupting", "waiting_resume"}
    => unit # ref[r]

\* The note about stopped commands reaches the turn that launched them, and no
\* later one (FinishSteeringOperation joins the worker, queueSteeringNote).
NoteStaysInTurn ==
  \A o \in Ops : notes[o] \in {"pending", "staged"} => turnOf[o] = turn /\ active

\* When a turn has closed, its receipts have their last word: a worker that is
\* still stopping something changes none of them (markSteeringInterruptState).
ClosedTurnHasLastWord ==
  [][~active => \A r \in Requests :
       status[r] \in {"delivered", "undelivered"} => status'[r] = status[r]]_vars

\* The comment of markSteeringInterruptState: "A delivered or already-settled
\* receipt is left alone."  A shutdown settles receipts while their turn is
\* active, and the worker of one of them moves it back.
SettledReceiptsStay ==
  [][\A o \in Ops : WorkerBegin(o) \/ WorkerMarks(o) =>
       \A r \in Requests :
         status[r] \in {"delivered", "undelivered"} => status'[r] = status[r]]_vars

\* An accepted request is settled: the text reaches the model, or the turn ends
\* and says that it did not.  Only a session the user holds may keep it waiting.
AcceptedSettles ==
  \A r \in Requests :
    status[r] \notin {"none", "delivered", "undelivered"}
      ~> status[r] \in {"delivered", "undelivered"} \/ held
=============================================================================
