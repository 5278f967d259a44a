--------------------------- MODULE SendNowProofs ---------------------------
(***************************************************************************)
(* Theorems about SendNow, for any number of entries, requests, operations *)
(* and turns: what the user typed is used once, a request is told          *)
(* "delivered" only when it was, and an interruption reaches nothing but   *)
(* the operation it captured.                                              *)
(***************************************************************************)
EXTENDS SendNow, TLAPS

InFlight == {"accepted", "interrupting", "waiting_safe", "waiting_resume"}

\* An entry is in one place, and the transcript and the marker each take it out
\* of the queue for good.
Flow ==
  /\ queue \cap staged = {}
  /\ \A e \in queue : told[e] = 0 /\ fate[e] = "none"
  /\ \A e \in staged : fate[e] = "none" /\ told[e] = IF pc = "mark" THEN 1 ELSE 0
  /\ \A e \in submitted : told[e] = 1 /\ fate[e] = "none" /\ e \notin queue \cup staged
  /\ \A e \in archived : told[e] = 0 /\ fate[e] = "marker" /\ e \notin queue \cup staged
  /\ \A e \in Entries : told[e] <= 1 /\ (told[e] = 1 => fate[e] = "none")
  /\ batch = IF pc = "mark" THEN staged ELSE {}
  /\ \A r \in Sends : status[r] = "none" =>
       r \notin queue \cup staged /\ told[r] = 0 /\ fate[r] = "none"

\* A turn is active while its runner runs, and only its requests are in flight.
Turn ==
  /\ active <=> pc # "idle"
  /\ pc = "idle" => staged = {}
  /\ \A r \in Requests : reqTurn[r] <= turn
  /\ \A r \in Requests : status[r] \in InFlight => active /\ reqTurn[r] = turn

Calling == {"call", "mark", "answer", "work", "join", "wait"}

\* Only what a request captured gets a worker, a note or a steering cause, and a
\* captured operation keeps its turn.
Capture ==
  /\ current # None => turnOf[current] = turn
  /\ \A o \in Ops : worker[o] # "none" => o \in requested
  /\ \A o \in Ops : notes[o] # "none" => o \in requested
  /\ \A o \in Ops : turnOf[o] <= turn
  /\ scope # None => turnOf[scope] = turn /\ pc \in Calling
  /\ \A o \in Ops : worker[o] # "none" /\ turnOf[o] = turn => o \in registered
  /\ \A r \in starting : ref[r] # None /\ status[r] # "none"
  /\ \A r \in Requests : ref[r] # None => ref[r] \in requested /\ turnOf[ref[r]] = reqTurn[r]

\* A unit belongs to the batch that runs, and is counted.
Unit ==
  /\ unit # None => pc = "work" /\ turnOf[unit] = turn /\ units > 0
  /\ \A o \in Ops :
       worker[o] = "mark" /\ verdict[o] # "waiting_safe" => unit # o

\* What a worker stopped, it stopped for a batch that joins it, unless the
\* session shuts down, and then no turn follows.
Stopping == {"wait", "check", "mark", "note"}
Joining(o) ==
  /\ scope = o /\ o \in registered
  /\ pc = "work" \/ pc = "join" \/ (pc = "wait" /\ joining)
Join ==
  \A o \in Ops : worker[o] \in Stopping /\ outcome[o] = "stopped" =>
    turnOf[o] = turn /\ (quiescing \/ Joining(o))
-----------------------------------------------------------------------------
\* Steps that move the runner, or a flag of the session, and nothing else.
Quiet ==
  \/ SetHold \/ CancelTurn \/ Quiesce \/ CheckpointCancelled \/ RefuseCall
  \/ FinishReads \/ PublishAnswer \/ Resend
  \/ \E where \in Ends : CallEnds(where) \/ WorkEnds(where)

LEMMA QuietFrame ==
  ASSUME TypeOK, Quiet
  PROVE  /\ UNCHANGED <<entries, turns, operations, workers, notes, ledger, commits>>
         /\ UNCHANGED <<scope, batch>>
         /\ pc' = "mark" <=> pc = "mark"
         /\ pc' = "idle" <=> pc = "idle"
         /\ pc = "work" /\ unit # None => pc' = "work"
         /\ pc = "work" => pc' \in {"work", "join"}
         /\ pc \in Calling => pc' \in Calling
         /\ pc = "join" => \/ pc' = "join"
                           \/ pc' = "wait" /\ joining' = (scope \in registered)
         /\ pc = "wait" => pc' = "wait" /\ joining' = joining
         /\ quiescing => quiescing'
         /\ TypeOK'
<1>1. CASE SetHold
  BY <1>1 DEF SetHold, TypeOK, Calling, entries, turns, operations, workers, ledger,
       commits, session, runner
<1>2. CASE CancelTurn
  BY <1>2 DEF CancelTurn, TypeOK, Calling, entries, turns, operations, workers, ledger,
       commits, session, runner
<1>3. CASE Quiesce
  BY <1>3 DEF Quiesce, TypeOK, Calling, entries, turns, operations, workers, ledger,
       commits, session, runner
<1>4. CASE CheckpointCancelled
  BY <1>4 DEF CheckpointCancelled, TypeOK, Calling, entries, turns, operations, workers,
       ledger, commits, session, runner
<1>5. CASE RefuseCall
  BY <1>5 DEF RefuseCall, TypeOK, Calling, entries, turns, operations, workers, ledger,
       commits, session, runner
<1>6. CASE FinishReads
  BY <1>6 DEF FinishReads, TypeOK, Calling, entries, turns, operations, workers, ledger,
       commits, session, runner
<1>7. CASE PublishAnswer
  BY <1>7 DEF PublishAnswer, TypeOK, Calling, entries, turns, operations, workers,
       ledger, commits, session, runner
<1>8. CASE Resend
  BY <1>8 DEF Resend, TypeOK, Calling, entries, turns, operations, workers, ledger,
       commits, session, runner
<1>9. CASE \E where \in Ends : CallEnds(where)
  BY <1>9 DEF CallEnds, Ends, TypeOK, Calling, entries, turns, operations, workers,
       ledger, commits, session, runner
<1>10. CASE \E where \in Ends : WorkEnds(where)
  BY <1>10 DEF WorkEnds, Ends, TypeOK, Calling, entries, turns, operations, workers,
       ledger, commits, session, runner
<1> QED
  BY <1>1, <1>2, <1>3, <1>4, <1>5, <1>6, <1>7, <1>8, <1>9, <1>10 DEF Quiet

\* What a worker does to the ledger: it moves open receipts of its operation.
LEMMA AdvanceMoves ==
  ASSUME TypeOK, NEW o \in Ops, NEW s \in InFlight, NEW full, Advance(o, s, full)
  PROVE  /\ \A r \in Requests :
              \/ status'[r] = status[r]
              \/ active /\ turn = turnOf[o] /\ Live(r) /\ ref[r] = o /\ status'[r] = s
         /\ active /\ turn = turnOf[o] =>
              \A r \in Requests : Live(r) /\ ref[r] = o => status'[r] = s
         /\ status' \in [Requests -> {"none", "accepted", "interrupting", "waiting_safe",
                                     "waiting_resume", "delivered", "undelivered"}]
  BY DEF TypeOK, Advance, InFlight

LEMMA WorkerFrame ==
  ASSUME TypeOK, NEW o \in Ops, Worker(o)
  PROVE  /\ UNCHANGED <<entries, turns, current, turnOf, requested, started, registered>>
         /\ UNCHANGED <<covered, ref, reqTurn, starting, commits, session, runner>>
         /\ \A r \in Requests :
              \/ status'[r] = status[r]
              \/ active /\ Live(r) /\ status'[r] \in InFlight
         /\ TypeOK'
<1>1. CASE WorkerBegin(o)
  <2>1. "interrupting" \in InFlight /\ Advance(o, "interrupting", FALSE)
    BY <1>1 DEF WorkerBegin, TypeOK, InFlight
  <2>2. \A r \in Requests : status'[r] = status[r] \/ (active /\ Live(r) /\ status'[r] \in InFlight)
    BY <2>1, AdvanceMoves
  <2>3. status' \in [Requests -> {"none", "accepted", "interrupting", "waiting_safe",
                            "waiting_resume", "delivered", "undelivered"}]
    BY <2>1, AdvanceMoves
  <2> QED
    BY <1>1, <2>2, <2>3 DEF WorkerBegin, TypeOK, entries, turns, operations, workers,
         ledger, commits, session, runner
<1>2. CASE \E found \in Found : WorkerStops(o, found)
  BY <1>2 DEF WorkerStops, Cancel, Found, TypeOK, InFlight, entries, turns, operations,
       workers, ledger, commits, session, runner
<1>3. CASE \E confirmed \in BOOLEAN : WorkerJoins(o, confirmed)
  BY <1>3 DEF WorkerJoins, TypeOK, InFlight, entries, turns, operations, workers,
       ledger, commits, session, runner
<1>4. CASE WorkerChecks(o)
  BY <1>4 DEF WorkerChecks, Verdict, TypeOK, InFlight, entries, turns, operations,
       workers, ledger, commits, session, runner
<1>5. CASE WorkerMarks(o)
  <2>1. verdict[o] \in InFlight /\ Advance(o, verdict[o], outcome[o] # "nothing")
    BY <1>5 DEF WorkerMarks, TypeOK, InFlight
  <2>2. \A r \in Requests : status'[r] = status[r] \/ (active /\ Live(r) /\ status'[r] \in InFlight)
    BY <2>1, AdvanceMoves
  <2>3. status' \in [Requests -> {"none", "accepted", "interrupting", "waiting_safe",
                            "waiting_resume", "delivered", "undelivered"}]
    BY <2>1, AdvanceMoves
  <2> QED
    BY <1>5, <2>2, <2>3 DEF WorkerMarks, TypeOK, entries, turns, operations, workers,
         ledger, commits, session, runner
<1>6. CASE WorkerNotes(o)
  BY <1>6 DEF WorkerNotes, Done, TypeOK, InFlight, entries, turns, operations, workers,
       ledger, commits, session, runner
<1> QED
  BY <1>1, <1>2, <1>3, <1>4, <1>5, <1>6 DEF Worker

LEMMA ProtectedMember ==
  \A e : e \in Protected <=> \E r \in Requests : Live(r) /\ e \in covered[r]
  BY DEF Protected
-----------------------------------------------------------------------------
LEMMA TypeInit == Init => TypeOK
<1> SUFFICES ASSUME Init PROVE TypeOK
  OBVIOUS
<1>1. 0 \in 0..MaxTurns
  BY SendAssumption
<1>2. /\ told \in [Entries -> 0..2] /\ turnOf \in [Ops -> 0..MaxTurns]
      /\ reqTurn \in [Requests -> 0..MaxTurns]
  BY <1>1 DEF Init
<1> QED
  BY <1>1, <1>2 DEF Init, TypeOK

LEMMA TypeStep ==
  ASSUME TypeOK, Flow, Turn, Capture, Unit, [Next]_vars
  PROVE  TypeOK'
<1>1. ASSUME NEW e \in Texts, PushSteering(e) PROVE TypeOK'
  BY <1>1, SendAssumption DEF TypeOK, Flow, Turn, Capture, Unit, Requests, Entries,
       PushSteering, entries, turns, operations, workers, ledger, commits, session,
       runner
<1>2. ASSUME NEW e \in Entries, PopSteering(e) PROVE TypeOK'
  BY <1>2, SendAssumption DEF TypeOK, Flow, Turn, Capture, Unit, Requests, Entries,
       PopSteering, entries, turns, operations, workers, ledger, commits, session,
       runner
<1>3. CASE ClearSteering
  BY <1>3, SendAssumption DEF TypeOK, Flow, Turn, Capture, Unit, Requests, Entries,
       ClearSteering, entries, turns, operations, workers, ledger, commits, session,
       runner
<1>4. ASSUME NEW r \in Requests, SubmitSendNow(r) PROVE TypeOK'
  BY <1>4, SendAssumption DEF TypeOK, Flow, Turn, Capture, Unit, Requests, Entries,
       SubmitSendNow, entries, turns, operations, workers, ledger, commits, session,
       runner
<1>5. CASE ResolvePendingForShutdown
  BY <1>5, SendAssumption DEF TypeOK, Flow, Turn, Capture, Unit, Requests, Entries,
       ResolvePendingForShutdown, entries, turns, operations, workers, ledger, commits,
       session, runner
<1>6. ASSUME NEW r \in Requests, StartWorker(r) PROVE TypeOK'
  BY <1>6, SendAssumption DEF TypeOK, Flow, Turn, Capture, Unit, Requests, Entries,
       StartWorker, entries, turns, operations, workers, ledger, commits, session,
       runner
<1>7. ASSUME NEW o \in Ops, BeginMutation(o) PROVE TypeOK'
  BY <1>7, SendAssumption DEF TypeOK, Flow, Turn, Capture, Unit, Requests, Entries,
       BeginMutation, entries, turns, operations, workers, ledger, commits, session,
       runner
<1>8. CASE EndMutation
  BY <1>8, SendAssumption DEF TypeOK, Flow, Turn, Capture, Unit, Requests, Entries,
       EndMutation, entries, turns, operations, workers, ledger, commits, session,
       runner
<1>9. CASE BeginTurn
  <2>1. turn' \in 0..MaxTurns
    BY <1>9, SendAssumption DEF TypeOK, BeginTurn
  <2>2. notes' \in [Ops -> {"none", "pending", "staged", "submitted", "dropped"}]
    BY <1>9 DEF TypeOK, BeginTurn
  <2> QED
    BY <1>9, <2>1, <2>2 DEF TypeOK, BeginTurn, ledger, session
<1>10. CASE DrainSteering
  BY <1>10, SendAssumption DEF TypeOK, Flow, Turn, Capture, Unit, Requests, Entries,
       DrainSteering, PlainRun, entries, turns, operations, workers, ledger, commits,
       session, runner
<1>11. CASE PlainRunFails
  BY <1>11, SendAssumption DEF TypeOK, Flow, Turn, Capture, Unit, Requests, Entries,
       PlainRunFails, PlainRun, DrainSteeringForInterrupt, entries, turns, operations,
       workers, ledger, commits, session, runner
<1>12. CASE Checkpoint
  BY <1>12, SendAssumption DEF TypeOK, Flow, Turn, Capture, Unit, Requests, Entries,
       Checkpoint, entries, turns, operations, workers, ledger, commits, session, runner
<1>13. ASSUME NEW o \in Ops, OpenOperation(o) PROVE TypeOK'
  BY <1>13, SendAssumption DEF TypeOK, Flow, Turn, Capture, Unit, Requests, Entries,
       OpenOperation, Cancel, entries, turns, operations, workers, ledger, commits,
       session, runner
<1>14. CASE Persist
  BY <1>14, SendAssumption DEF TypeOK, Flow, Turn, Capture, Unit, Requests, Entries,
       Persist, entries, turns, operations, workers, ledger, commits, session, runner
<1>15. CASE MarkSteeringSubmitted
  BY <1>15, SendAssumption DEF TypeOK, Flow, Turn, Capture, Unit, Requests, Entries,
       MarkSteeringSubmitted, Acknowledge, entries, turns, operations, workers, ledger,
       commits, session, runner
<1>16. CASE FinishSteeringOperation
  BY <1>16, SendAssumption DEF TypeOK, Flow, Turn, Capture, Unit, Requests, Entries,
       FinishSteeringOperation, Joined, Cancel, entries, turns, operations, workers,
       ledger, commits, session, runner
<1>17. CASE TryFinishSteeringTurn
  <2>1. closing' \in BOOLEAN /\ pc' \in {"publish", "checkpoint", "ending"}
    BY <1>17 DEF TypeOK, TryFinishSteeringTurn
  <2>2. /\ UNCHANGED <<entries, turn, active, operations, workers, notes, ledger, commits>>
        /\ UNCHANGED <<session, scope, batch, joining, next, stopped>>
    BY <1>17 DEF TryFinishSteeringTurn
  <2> QED
    BY <2>1, <2>2 DEF TypeOK, entries, operations, workers, ledger, commits, session
<1>18. CASE FailTurn
  BY <1>18, SendAssumption DEF TypeOK, Flow, Turn, Capture, Unit, Requests, Entries,
       FailTurn, DrainSteeringForInterrupt, entries, turns, operations, workers, ledger,
       commits, session, runner
<1>19. CASE EndSteeringTurn
  BY <1>19, SendAssumption DEF TypeOK, Flow, Turn, Capture, Unit, Requests, Entries,
       EndSteeringTurn, Cancel, entries, turns, operations, workers, ledger, commits,
       session, runner
<1>20. ASSUME NEW o \in Ops, Worker(o) PROVE TypeOK'
  BY <1>20, WorkerFrame, SendAssumption DEF TypeOK, Flow, Turn, Capture, Unit, Requests,
       Entries, entries, turns, operations, workers, ledger, commits, session, runner
<1>21. CASE Quiet
  BY <1>21, QuietFrame, SendAssumption DEF TypeOK, Flow, Turn, Capture, Unit, Requests,
       Entries, entries, turns, operations, workers, ledger, commits, session, runner
<1>22. CASE UNCHANGED vars
  BY <1>22, SendAssumption DEF TypeOK, Flow, Turn, Capture, Unit, Requests, Entries,
       vars, entries, turns, operations, workers, ledger, commits, session, runner
<1> QED
  BY <1>1, <1>2, <1>3, <1>4, <1>5, <1>6, <1>7, <1>8, <1>9, <1>10, <1>11, <1>12, <1>13,
       <1>14, <1>15, <1>16, <1>17, <1>18, <1>19, <1>20, <1>21, <1>22 DEF Next, User,
       Worker, Runner, Open, Quiet

LEMMA FlowInit == Init => Flow
  BY SendAssumption DEF Init, Flow, Entries, Requests

LEMMA FlowStep ==
  ASSUME TypeOK, Flow, Turn, [Next]_vars
  PROVE  Flow'
<1>1. ASSUME NEW e \in Texts, PushSteering(e) PROVE Flow'
  BY <1>1, SendAssumption DEF TypeOK, Flow, Turn, InFlight, Requests, Entries,
       PushSteering, entries, turns, operations, workers, ledger, commits, session,
       runner
<1>2. ASSUME NEW e \in Entries, PopSteering(e) PROVE Flow'
  BY <1>2, SendAssumption DEF TypeOK, Flow, Turn, InFlight, Requests, Entries,
       PopSteering, entries, turns, operations, workers, ledger, commits, session,
       runner
<1>3. CASE ClearSteering
  BY <1>3, SendAssumption DEF TypeOK, Flow, Turn, InFlight, Requests, Entries,
       ClearSteering, entries, turns, operations, workers, ledger, commits, session,
       runner
<1>4. ASSUME NEW r \in Requests, SubmitSendNow(r) PROVE Flow'
  BY <1>4, SendAssumption DEF TypeOK, Flow, Turn, InFlight, Requests, Entries,
       SubmitSendNow, entries, turns, operations, workers, ledger, commits, session,
       runner
<1>5. CASE ResolvePendingForShutdown
  BY <1>5, SendAssumption DEF TypeOK, Flow, Turn, InFlight, Requests, Entries,
       ResolvePendingForShutdown, entries, turns, operations, workers, ledger, commits,
       session, runner
<1>6. ASSUME NEW r \in Requests, StartWorker(r) PROVE Flow'
  BY <1>6, SendAssumption DEF TypeOK, Flow, Turn, InFlight, Requests, Entries,
       StartWorker, entries, turns, operations, workers, ledger, commits, session,
       runner
<1>7. ASSUME NEW o \in Ops, BeginMutation(o) PROVE Flow'
  BY <1>7, SendAssumption DEF TypeOK, Flow, Turn, InFlight, Requests, Entries,
       BeginMutation, entries, turns, operations, workers, ledger, commits, session,
       runner
<1>8. CASE EndMutation
  BY <1>8, SendAssumption DEF TypeOK, Flow, Turn, InFlight, Requests, Entries,
       EndMutation, entries, turns, operations, workers, ledger, commits, session,
       runner
<1>9. CASE BeginTurn
  BY <1>9, SendAssumption DEF TypeOK, Flow, Turn, InFlight, Requests, Entries,
       BeginTurn, entries, turns, operations, workers, ledger, commits, session, runner
<1>10. CASE DrainSteering
  BY <1>10, SendAssumption DEF TypeOK, Flow, Turn, InFlight, Requests, Entries,
       DrainSteering, PlainRun, entries, turns, operations, workers, ledger, commits,
       session, runner
<1>11. CASE PlainRunFails
  BY <1>11, SendAssumption DEF TypeOK, Flow, Turn, InFlight, Requests, Entries,
       PlainRunFails, PlainRun, DrainSteeringForInterrupt, entries, turns, operations,
       workers, ledger, commits, session, runner
<1>12. CASE Checkpoint
  BY <1>12, SendAssumption DEF TypeOK, Flow, Turn, InFlight, Requests, Entries,
       Checkpoint, entries, turns, operations, workers, ledger, commits, session, runner
<1>13. ASSUME NEW o \in Ops, OpenOperation(o) PROVE Flow'
  BY <1>13, SendAssumption DEF TypeOK, Flow, Turn, InFlight, Requests, Entries,
       OpenOperation, entries, turns, operations, workers, ledger, commits, session,
       runner
<1>14. CASE Persist
  BY <1>14, SendAssumption DEF TypeOK, Flow, Turn, InFlight, Requests, Entries, Persist,
       entries, turns, operations, workers, ledger, commits, session, runner
<1>15. CASE MarkSteeringSubmitted
  BY <1>15, SendAssumption DEF TypeOK, Flow, Turn, InFlight, Requests, Entries,
       MarkSteeringSubmitted, Acknowledge, entries, turns, operations, workers, ledger,
       commits, session, runner
<1>16. CASE FinishSteeringOperation
  BY <1>16, SendAssumption DEF TypeOK, Flow, Turn, InFlight, Requests, Entries,
       FinishSteeringOperation, Joined, entries, turns, operations, workers, ledger,
       commits, session, runner
<1>17. CASE TryFinishSteeringTurn
  BY <1>17, SendAssumption DEF TypeOK, Flow, Turn, InFlight, Requests, Entries,
       TryFinishSteeringTurn, entries, turns, operations, workers, ledger, commits,
       session, runner
<1>18. CASE FailTurn
  BY <1>18, SendAssumption DEF TypeOK, Flow, Turn, InFlight, Requests, Entries,
       FailTurn, DrainSteeringForInterrupt, entries, turns, operations, workers, ledger,
       commits, session, runner
<1>19. CASE EndSteeringTurn
  BY <1>19, SendAssumption DEF TypeOK, Flow, Turn, InFlight, Requests, Entries,
       EndSteeringTurn, entries, turns, operations, workers, ledger, commits, session,
       runner
<1>20. ASSUME NEW o \in Ops, Worker(o) PROVE Flow'
  BY <1>20, WorkerFrame, SendAssumption DEF TypeOK, Flow, Turn, InFlight, Requests,
       Entries, entries, turns, operations, workers, ledger, commits, session, runner
<1>21. CASE Quiet
  BY <1>21, QuietFrame, SendAssumption DEF TypeOK, Flow, Turn, InFlight, Requests,
       Entries, entries, turns, operations, workers, ledger, commits, session, runner
<1>22. CASE UNCHANGED vars
  BY <1>22, SendAssumption DEF TypeOK, Flow, Turn, InFlight, Requests, Entries, vars,
       entries, turns, operations, workers, ledger, commits, session, runner
<1> QED
  BY <1>1, <1>2, <1>3, <1>4, <1>5, <1>6, <1>7, <1>8, <1>9, <1>10, <1>11, <1>12, <1>13,
       <1>14, <1>15, <1>16, <1>17, <1>18, <1>19, <1>20, <1>21, <1>22 DEF Next, User,
       Worker, Runner, Open, Quiet

LEMMA TurnInit == Init => Turn
  BY DEF Init, Turn, InFlight

LEMMA TurnStep ==
  ASSUME TypeOK, Turn, Flow, [Next]_vars
  PROVE  Turn'
<1>1. ASSUME NEW e \in Texts, PushSteering(e) PROVE Turn'
  BY <1>1, SendAssumption DEF TypeOK, Turn, InFlight, Live, Admits, PushSteering,
       entries, turns, operations, workers, ledger, commits, session, runner
<1>2. ASSUME NEW e \in Entries, PopSteering(e) PROVE Turn'
  BY <1>2, SendAssumption DEF TypeOK, Turn, InFlight, Live, Admits, PopSteering,
       entries, turns, operations, workers, ledger, commits, session, runner
<1>3. CASE ClearSteering
  BY <1>3, SendAssumption DEF TypeOK, Turn, InFlight, Live, Admits, ClearSteering,
       entries, turns, operations, workers, ledger, commits, session, runner
<1>4. ASSUME NEW r \in Requests, SubmitSendNow(r) PROVE Turn'
  BY <1>4, SendAssumption DEF TypeOK, Turn, InFlight, Live, Admits, SubmitSendNow,
       entries, turns, operations, workers, ledger, commits, session, runner
<1>5. CASE ResolvePendingForShutdown
  BY <1>5, SendAssumption DEF TypeOK, Turn, InFlight, Live, Admits,
       ResolvePendingForShutdown, entries, turns, operations, workers, ledger, commits,
       session, runner
<1>6. ASSUME NEW r \in Requests, StartWorker(r) PROVE Turn'
  BY <1>6, SendAssumption DEF TypeOK, Turn, InFlight, Live, Admits, StartWorker,
       entries, turns, operations, workers, ledger, commits, session, runner
<1>7. ASSUME NEW o \in Ops, BeginMutation(o) PROVE Turn'
  BY <1>7, SendAssumption DEF TypeOK, Turn, InFlight, Live, Admits, BeginMutation,
       entries, turns, operations, workers, ledger, commits, session, runner
<1>8. CASE EndMutation
  BY <1>8, SendAssumption DEF TypeOK, Turn, InFlight, Live, Admits, EndMutation,
       entries, turns, operations, workers, ledger, commits, session, runner
<1>9. CASE BeginTurn
  BY <1>9, SendAssumption DEF TypeOK, Turn, InFlight, Live, Admits, BeginTurn, entries,
       turns, operations, workers, ledger, commits, session, runner
<1>10. CASE DrainSteering
  BY <1>10, SendAssumption DEF TypeOK, Turn, InFlight, Live, Admits, DrainSteering,
       PlainRun, entries, turns, operations, workers, ledger, commits, session, runner
<1>11. CASE PlainRunFails
  BY <1>11, SendAssumption DEF TypeOK, Turn, InFlight, Live, Admits, PlainRunFails,
       PlainRun, DrainSteeringForInterrupt, entries, turns, operations, workers, ledger,
       commits, session, runner
<1>12. CASE Checkpoint
  BY <1>12, SendAssumption DEF TypeOK, Turn, InFlight, Live, Admits, Checkpoint,
       entries, turns, operations, workers, ledger, commits, session, runner
<1>13. ASSUME NEW o \in Ops, OpenOperation(o) PROVE Turn'
  BY <1>13, SendAssumption DEF TypeOK, Turn, InFlight, Live, Admits, OpenOperation,
       entries, turns, operations, workers, ledger, commits, session, runner
<1>14. CASE Persist
  BY <1>14, SendAssumption DEF TypeOK, Turn, InFlight, Live, Admits, Persist, entries,
       turns, operations, workers, ledger, commits, session, runner
<1>15. CASE MarkSteeringSubmitted
  BY <1>15, SendAssumption DEF TypeOK, Turn, InFlight, Live, Admits,
       MarkSteeringSubmitted, Acknowledge, entries, turns, operations, workers, ledger,
       commits, session, runner
<1>16. CASE FinishSteeringOperation
  BY <1>16, SendAssumption DEF TypeOK, Turn, InFlight, Live, Admits,
       FinishSteeringOperation, Joined, entries, turns, operations, workers, ledger,
       commits, session, runner
<1>17. CASE TryFinishSteeringTurn
  BY <1>17, SendAssumption DEF TypeOK, Turn, InFlight, Live, Admits,
       TryFinishSteeringTurn, entries, turns, operations, workers, ledger, commits,
       session, runner
<1>18. CASE FailTurn
  BY <1>18, SendAssumption DEF TypeOK, Turn, InFlight, Live, Admits, FailTurn,
       DrainSteeringForInterrupt, entries, turns, operations, workers, ledger, commits,
       session, runner
<1>19. CASE EndSteeringTurn
  BY <1>19, SendAssumption DEF TypeOK, Turn, InFlight, Live, Admits, EndSteeringTurn,
       entries, turns, operations, workers, ledger, commits, session, runner
<1>20. ASSUME NEW o \in Ops, Worker(o) PROVE Turn'
  BY <1>20, WorkerFrame, SendAssumption DEF TypeOK, Turn, InFlight, Live, Admits,
       entries, turns, operations, workers, ledger, commits, session, runner
<1>21. CASE Quiet
  BY <1>21, QuietFrame, SendAssumption DEF TypeOK, Turn, InFlight, Live, Admits,
       entries, turns, operations, workers, ledger, commits, session, runner
<1>22. CASE UNCHANGED vars
  BY <1>22, SendAssumption DEF TypeOK, Turn, InFlight, Live, Admits, vars, entries,
       turns, operations, workers, ledger, commits, session, runner
<1> QED
  BY <1>1, <1>2, <1>3, <1>4, <1>5, <1>6, <1>7, <1>8, <1>9, <1>10, <1>11, <1>12, <1>13,
       <1>14, <1>15, <1>16, <1>17, <1>18, <1>19, <1>20, <1>21, <1>22 DEF Next, User,
       Worker, Runner, Open, Quiet

LEMMA CaptureInit == Init => Capture
  BY DEF Init, Capture

LEMMA CaptureStep ==
  ASSUME TypeOK, Turn, Capture, Unit, [Next]_vars
  PROVE  Capture'
<1>1. ASSUME NEW e \in Texts, PushSteering(e) PROVE Capture'
  BY <1>1, SendAssumption DEF TypeOK, Turn, Capture, Calling, Admits, Live,
       PushSteering, entries, turns, operations, workers, ledger, commits, session,
       runner
<1>2. ASSUME NEW e \in Entries, PopSteering(e) PROVE Capture'
  BY <1>2, SendAssumption DEF TypeOK, Turn, Capture, Calling, Admits, Live, PopSteering,
       entries, turns, operations, workers, ledger, commits, session, runner
<1>3. CASE ClearSteering
  BY <1>3, SendAssumption DEF TypeOK, Turn, Capture, Calling, Admits, Live,
       ClearSteering, entries, turns, operations, workers, ledger, commits, session,
       runner
<1>4. ASSUME NEW r \in Requests, SubmitSendNow(r) PROVE Capture'
  <2>1. CASE current = None
    BY <1>4, <2>1 DEF TypeOK, Turn, Capture, Calling, Admits, SubmitSendNow, turns, workers,
         commits, session, runner
  <2>2. CASE current # None
    <3>1. current \in Ops /\ turnOf[current] = turn
      BY <2>2 DEF TypeOK, Capture
    <3>2. /\ ref' = [ref EXCEPT ![r] = current] /\ reqTurn' = [reqTurn EXCEPT ![r] = turn]
          /\ requested' = requested \cup {current} /\ starting' \subseteq starting \cup {r}
          /\ UNCHANGED <<current, turnOf, turn, worker, notes, scope, pc, registered>>
      BY <1>4, <2>2 DEF SubmitSendNow, turns, workers, runner
    <3>3. \A q \in Requests : ref'[q] # None =>
            ref'[q] \in requested' /\ turnOf[ref'[q]] = reqTurn'[q]
      BY <3>1, <3>2 DEF TypeOK, Capture
    <3>4. \A q \in starting' : ref'[q] # None /\ status'[q] # "none"
      BY <1>4, <2>2, <3>2 DEF TypeOK, Capture, SubmitSendNow
    <3> QED
      BY <3>2, <3>3, <3>4 DEF Capture
  <2> QED
    BY <2>1, <2>2
<1>5. CASE ResolvePendingForShutdown
  BY <1>5, SendAssumption DEF TypeOK, Turn, Capture, Calling, Admits, Live,
       ResolvePendingForShutdown, entries, turns, operations, workers, ledger, commits,
       session, runner
<1>6. ASSUME NEW r \in Requests, StartWorker(r) PROVE Capture'
  BY <1>6, SendAssumption DEF TypeOK, Turn, Capture, Calling, Admits, Live, StartWorker,
       entries, turns, operations, workers, ledger, commits, session, runner
<1>7. ASSUME NEW o \in Ops, BeginMutation(o) PROVE Capture'
  BY <1>7, SendAssumption DEF TypeOK, Turn, Capture, Calling, Admits, Live,
       BeginMutation, entries, turns, operations, workers, ledger, commits, session,
       runner
<1>8. CASE EndMutation
  BY <1>8, SendAssumption DEF TypeOK, Turn, Capture, Calling, Admits, Live, EndMutation,
       entries, turns, operations, workers, ledger, commits, session, runner
<1>9. CASE BeginTurn
  BY <1>9, SendAssumption DEF TypeOK, Turn, Capture, Calling, Admits, Live, BeginTurn,
       entries, turns, operations, workers, ledger, commits, session, runner
<1>10. CASE DrainSteering
  BY <1>10, SendAssumption DEF TypeOK, Turn, Capture, Calling, Admits, Live,
       DrainSteering, PlainRun, entries, turns, operations, workers, ledger, commits,
       session, runner
<1>11. CASE PlainRunFails
  BY <1>11, SendAssumption DEF TypeOK, Turn, Capture, Calling, Admits, Live,
       PlainRunFails, PlainRun, DrainSteeringForInterrupt, entries, turns, operations,
       workers, ledger, commits, session, runner
<1>12. CASE Checkpoint
  BY <1>12, SendAssumption DEF TypeOK, Turn, Capture, Calling, Admits, Live, Checkpoint,
       entries, turns, operations, workers, ledger, commits, session, runner
<1>13. ASSUME NEW o \in Ops, OpenOperation(o) PROVE Capture'
  BY <1>13, SendAssumption DEF TypeOK, Turn, Capture, Calling, Admits, Live,
       OpenOperation, entries, turns, operations, workers, ledger, commits, session,
       runner
<1>14. CASE Persist
  BY <1>14, SendAssumption DEF TypeOK, Turn, Capture, Calling, Admits, Live, Persist,
       entries, turns, operations, workers, ledger, commits, session, runner
<1>15. CASE MarkSteeringSubmitted
  BY <1>15, SendAssumption DEF TypeOK, Turn, Capture, Calling, Admits, Live,
       MarkSteeringSubmitted, Acknowledge, entries, turns, operations, workers, ledger,
       commits, session, runner
<1>16. CASE FinishSteeringOperation
  BY <1>16, SendAssumption DEF TypeOK, Turn, Capture, Calling, Admits, Live,
       FinishSteeringOperation, Joined, entries, turns, operations, workers, ledger,
       commits, session, runner
<1>17. CASE TryFinishSteeringTurn
  BY <1>17, SendAssumption DEF TypeOK, Turn, Capture, Calling, Admits, Live,
       TryFinishSteeringTurn, entries, turns, operations, workers, ledger, commits,
       session, runner
<1>18. CASE FailTurn
  BY <1>18, SendAssumption DEF TypeOK, Turn, Capture, Calling, Admits, Live, FailTurn,
       DrainSteeringForInterrupt, entries, turns, operations, workers, ledger, commits,
       session, runner
<1>19. CASE EndSteeringTurn
  BY <1>19, SendAssumption DEF TypeOK, Turn, Capture, Calling, Admits, Live,
       EndSteeringTurn, entries, turns, operations, workers, ledger, commits, session,
       runner
<1>20. ASSUME NEW o \in Ops, WorkerBegin(o) PROVE Capture'
  BY <1>20, SendAssumption DEF TypeOK, Turn, Capture, Calling, Admits, Live,
       WorkerBegin, Done, Advance, entries, turns, operations, workers, ledger, commits,
       session, runner
<1>21. ASSUME NEW o \in Ops, NEW found \in Found, WorkerStops(o, found) PROVE Capture'
  BY <1>21, SendAssumption DEF TypeOK, Turn, Capture, Calling, Admits, Live,
       WorkerStops, Done, Advance, entries, turns, operations, workers, ledger, commits,
       session, runner
<1>22. ASSUME NEW o \in Ops, NEW confirmed \in BOOLEAN, WorkerJoins(o, confirmed) PROVE Capture'
  BY <1>22, SendAssumption DEF TypeOK, Turn, Capture, Calling, Admits, Live,
       WorkerJoins, Done, Advance, entries, turns, operations, workers, ledger, commits,
       session, runner
<1>23. ASSUME NEW o \in Ops, WorkerChecks(o) PROVE Capture'
  BY <1>23, SendAssumption DEF TypeOK, Turn, Capture, Calling, Admits, Live,
       WorkerChecks, Done, Advance, entries, turns, operations, workers, ledger,
       commits, session, runner
<1>24. ASSUME NEW o \in Ops, WorkerMarks(o) PROVE Capture'
  BY <1>24, SendAssumption DEF TypeOK, Turn, Capture, Calling, Admits, Live,
       WorkerMarks, Done, Advance, entries, turns, operations, workers, ledger, commits,
       session, runner
<1>25. ASSUME NEW o \in Ops, WorkerNotes(o) PROVE Capture'
  BY <1>25, SendAssumption DEF TypeOK, Turn, Capture, Calling, Admits, Live,
       WorkerNotes, Done, Advance, entries, turns, operations, workers, ledger, commits,
       session, runner
<1>26. CASE Quiet
  BY <1>26, QuietFrame, SendAssumption DEF TypeOK, Turn, Capture, Calling, Admits, Live,
       entries, turns, operations, workers, ledger, commits, session, runner
<1>27. CASE UNCHANGED vars
  BY <1>27, SendAssumption DEF TypeOK, Turn, Capture, Calling, Admits, Live, vars,
       entries, turns, operations, workers, ledger, commits, session, runner
<1> QED
  BY <1>1, <1>2, <1>3, <1>4, <1>5, <1>6, <1>7, <1>8, <1>9, <1>10, <1>11, <1>12, <1>13,
       <1>14, <1>15, <1>16, <1>17, <1>18, <1>19, <1>20, <1>21, <1>22, <1>23, <1>24,
       <1>25, <1>26, <1>27 DEF Next, User, Worker, Runner, Open, Quiet

LEMMA UnitInit == Init => Unit
  BY DEF Init, Unit

LEMMA UnitStep ==
  ASSUME TypeOK, Turn, Capture, Unit, [Next]_vars
  PROVE  Unit'
<1>1. ASSUME NEW e \in Texts, PushSteering(e) PROVE Unit'
  BY <1>1, SendAssumption DEF TypeOK, Turn, Capture, Unit, Calling, Admits,
       PushSteering, entries, turns, operations, workers, ledger, commits, session,
       runner
<1>2. ASSUME NEW e \in Entries, PopSteering(e) PROVE Unit'
  BY <1>2, SendAssumption DEF TypeOK, Turn, Capture, Unit, Calling, Admits, PopSteering,
       entries, turns, operations, workers, ledger, commits, session, runner
<1>3. CASE ClearSteering
  BY <1>3, SendAssumption DEF TypeOK, Turn, Capture, Unit, Calling, Admits,
       ClearSteering, entries, turns, operations, workers, ledger, commits, session,
       runner
<1>4. ASSUME NEW r \in Requests, SubmitSendNow(r) PROVE Unit'
  BY <1>4, SendAssumption DEF TypeOK, Turn, Capture, Unit, Calling, Admits,
       SubmitSendNow, entries, turns, operations, workers, ledger, commits, session,
       runner
<1>5. CASE ResolvePendingForShutdown
  BY <1>5, SendAssumption DEF TypeOK, Turn, Capture, Unit, Calling, Admits,
       ResolvePendingForShutdown, entries, turns, operations, workers, ledger, commits,
       session, runner
<1>6. ASSUME NEW r \in Requests, StartWorker(r) PROVE Unit'
  BY <1>6, SendAssumption DEF TypeOK, Turn, Capture, Unit, Calling, Admits, StartWorker,
       entries, turns, operations, workers, ledger, commits, session, runner
<1>7. ASSUME NEW o \in Ops, BeginMutation(o) PROVE Unit'
  BY <1>7, SendAssumption DEF TypeOK, Turn, Capture, Unit, Calling, Admits,
       BeginMutation, entries, turns, operations, workers, ledger, commits, session,
       runner
<1>8. CASE EndMutation
  BY <1>8, SendAssumption DEF TypeOK, Turn, Capture, Unit, Calling, Admits, EndMutation,
       entries, turns, operations, workers, ledger, commits, session, runner
<1>9. CASE BeginTurn
  BY <1>9, SendAssumption DEF TypeOK, Turn, Capture, Unit, Calling, Admits, BeginTurn,
       entries, turns, operations, workers, ledger, commits, session, runner
<1>10. CASE DrainSteering
  BY <1>10, SendAssumption DEF TypeOK, Turn, Capture, Unit, Calling, Admits,
       DrainSteering, PlainRun, entries, turns, operations, workers, ledger, commits,
       session, runner
<1>11. CASE PlainRunFails
  BY <1>11, SendAssumption DEF TypeOK, Turn, Capture, Unit, Calling, Admits,
       PlainRunFails, PlainRun, DrainSteeringForInterrupt, entries, turns, operations,
       workers, ledger, commits, session, runner
<1>12. CASE Checkpoint
  BY <1>12, SendAssumption DEF TypeOK, Turn, Capture, Unit, Calling, Admits, Checkpoint,
       entries, turns, operations, workers, ledger, commits, session, runner
<1>13. ASSUME NEW o \in Ops, OpenOperation(o) PROVE Unit'
  BY <1>13, SendAssumption DEF TypeOK, Turn, Capture, Unit, Calling, Admits,
       OpenOperation, entries, turns, operations, workers, ledger, commits, session,
       runner
<1>14. CASE Persist
  BY <1>14, SendAssumption DEF TypeOK, Turn, Capture, Unit, Calling, Admits, Persist,
       entries, turns, operations, workers, ledger, commits, session, runner
<1>15. CASE MarkSteeringSubmitted
  BY <1>15, SendAssumption DEF TypeOK, Turn, Capture, Unit, Calling, Admits,
       MarkSteeringSubmitted, Acknowledge, entries, turns, operations, workers, ledger,
       commits, session, runner
<1>16. CASE FinishSteeringOperation
  BY <1>16, SendAssumption DEF TypeOK, Turn, Capture, Unit, Calling, Admits,
       FinishSteeringOperation, Joined, entries, turns, operations, workers, ledger,
       commits, session, runner
<1>17. CASE TryFinishSteeringTurn
  BY <1>17, SendAssumption DEF TypeOK, Turn, Capture, Unit, Calling, Admits,
       TryFinishSteeringTurn, entries, turns, operations, workers, ledger, commits,
       session, runner
<1>18. CASE FailTurn
  BY <1>18, SendAssumption DEF TypeOK, Turn, Capture, Unit, Calling, Admits, FailTurn,
       DrainSteeringForInterrupt, entries, turns, operations, workers, ledger, commits,
       session, runner
<1>19. CASE EndSteeringTurn
  BY <1>19, SendAssumption DEF TypeOK, Turn, Capture, Unit, Calling, Admits,
       EndSteeringTurn, entries, turns, operations, workers, ledger, commits, session,
       runner
<1>20. ASSUME NEW o \in Ops, WorkerBegin(o) PROVE Unit'
  BY <1>20, SendAssumption DEF TypeOK, Turn, Capture, Unit, Calling, Admits,
       WorkerBegin, Verdict, Done, entries, turns, operations, workers, ledger, commits,
       session, runner
<1>21. ASSUME NEW o \in Ops, NEW found \in Found, WorkerStops(o, found) PROVE Unit'
  BY <1>21, SendAssumption DEF TypeOK, Turn, Capture, Unit, Calling, Admits,
       WorkerStops, Verdict, Done, entries, turns, operations, workers, ledger, commits,
       session, runner
<1>22. ASSUME NEW o \in Ops, NEW confirmed \in BOOLEAN, WorkerJoins(o, confirmed) PROVE Unit'
  BY <1>22, SendAssumption DEF TypeOK, Turn, Capture, Unit, Calling, Admits,
       WorkerJoins, Verdict, Done, entries, turns, operations, workers, ledger, commits,
       session, runner
<1>23. ASSUME NEW o \in Ops, WorkerChecks(o) PROVE Unit'
  BY <1>23, SendAssumption DEF TypeOK, Turn, Capture, Unit, Calling, Admits,
       WorkerChecks, Verdict, Done, entries, turns, operations, workers, ledger,
       commits, session, runner
<1>24. ASSUME NEW o \in Ops, WorkerMarks(o) PROVE Unit'
  BY <1>24, SendAssumption DEF TypeOK, Turn, Capture, Unit, Calling, Admits,
       WorkerMarks, Verdict, Done, entries, turns, operations, workers, ledger, commits,
       session, runner
<1>25. ASSUME NEW o \in Ops, WorkerNotes(o) PROVE Unit'
  BY <1>25, SendAssumption DEF TypeOK, Turn, Capture, Unit, Calling, Admits,
       WorkerNotes, Verdict, Done, entries, turns, operations, workers, ledger, commits,
       session, runner
<1>26. CASE Quiet
  BY <1>26, QuietFrame, SendAssumption DEF TypeOK, Turn, Capture, Unit, Calling, Admits,
       entries, turns, operations, workers, ledger, commits, session, runner
<1>27. CASE UNCHANGED vars
  BY <1>27, SendAssumption DEF TypeOK, Turn, Capture, Unit, Calling, Admits, vars,
       entries, turns, operations, workers, ledger, commits, session, runner
<1> QED
  BY <1>1, <1>2, <1>3, <1>4, <1>5, <1>6, <1>7, <1>8, <1>9, <1>10, <1>11, <1>12, <1>13,
       <1>14, <1>15, <1>16, <1>17, <1>18, <1>19, <1>20, <1>21, <1>22, <1>23, <1>24,
       <1>25, <1>26, <1>27 DEF Next, User, Worker, Runner, Open, Quiet

LEMMA JoinInit == Init => Join
  BY DEF Init, Join, Stopping

LEMMA JoinStep ==
  ASSUME TypeOK, Turn, Capture, Unit, Join, [Next]_vars
  PROVE  Join'
<1>1. ASSUME NEW e \in Texts, PushSteering(e) PROVE Join'
  BY <1>1, SendAssumption DEF TypeOK, Turn, Capture, Calling, Join, Joining, Stopping,
       Admits, PushSteering, entries, turns, operations, workers, ledger, commits,
       session, runner
<1>2. ASSUME NEW e \in Entries, PopSteering(e) PROVE Join'
  BY <1>2, SendAssumption DEF TypeOK, Turn, Capture, Calling, Join, Joining, Stopping,
       Admits, PopSteering, entries, turns, operations, workers, ledger, commits,
       session, runner
<1>3. CASE ClearSteering
  BY <1>3, SendAssumption DEF TypeOK, Turn, Capture, Calling, Join, Joining, Stopping,
       Admits, ClearSteering, entries, turns, operations, workers, ledger, commits,
       session, runner
<1>4. ASSUME NEW r \in Requests, SubmitSendNow(r) PROVE Join'
  BY <1>4, SendAssumption DEF TypeOK, Turn, Capture, Calling, Join, Joining, Stopping,
       Admits, SubmitSendNow, entries, turns, operations, workers, ledger, commits,
       session, runner
<1>5. CASE ResolvePendingForShutdown
  BY <1>5, SendAssumption DEF TypeOK, Turn, Capture, Calling, Join, Joining, Stopping,
       Admits, ResolvePendingForShutdown, entries, turns, operations, workers, ledger,
       commits, session, runner
<1>6. ASSUME NEW r \in Requests, StartWorker(r) PROVE Join'
  BY <1>6, SendAssumption DEF TypeOK, Turn, Capture, Calling, Join, Joining, Stopping,
       Admits, StartWorker, entries, turns, operations, workers, ledger, commits,
       session, runner
<1>7. ASSUME NEW o \in Ops, BeginMutation(o) PROVE Join'
  BY <1>7, SendAssumption DEF TypeOK, Turn, Capture, Calling, Join, Joining, Stopping,
       Admits, BeginMutation, entries, turns, operations, workers, ledger, commits,
       session, runner
<1>8. CASE EndMutation
  BY <1>8, SendAssumption DEF TypeOK, Turn, Capture, Calling, Join, Joining, Stopping,
       Admits, EndMutation, entries, turns, operations, workers, ledger, commits,
       session, runner
<1>9. CASE BeginTurn
  BY <1>9, SendAssumption DEF TypeOK, Turn, Capture, Calling, Join, Joining, Stopping,
       Admits, BeginTurn, entries, turns, operations, workers, ledger, commits, session,
       runner
<1>10. CASE DrainSteering
  BY <1>10, SendAssumption DEF TypeOK, Turn, Capture, Calling, Join, Joining, Stopping,
       Admits, DrainSteering, PlainRun, entries, turns, operations, workers, ledger,
       commits, session, runner
<1>11. CASE PlainRunFails
  BY <1>11, SendAssumption DEF TypeOK, Turn, Capture, Calling, Join, Joining, Stopping,
       Admits, PlainRunFails, PlainRun, DrainSteeringForInterrupt, entries, turns,
       operations, workers, ledger, commits, session, runner
<1>12. CASE Checkpoint
  BY <1>12, SendAssumption DEF TypeOK, Turn, Capture, Calling, Join, Joining, Stopping,
       Admits, Checkpoint, entries, turns, operations, workers, ledger, commits,
       session, runner
<1>13. ASSUME NEW o \in Ops, OpenOperation(o) PROVE Join'
  BY <1>13, SendAssumption DEF TypeOK, Turn, Capture, Calling, Join, Joining, Stopping,
       Admits, OpenOperation, entries, turns, operations, workers, ledger, commits,
       session, runner
<1>14. CASE Persist
  BY <1>14, SendAssumption DEF TypeOK, Turn, Capture, Calling, Join, Joining, Stopping,
       Admits, Persist, entries, turns, operations, workers, ledger, commits, session,
       runner
<1>15. CASE MarkSteeringSubmitted
  BY <1>15, SendAssumption DEF TypeOK, Turn, Capture, Calling, Join, Joining, Stopping,
       Admits, MarkSteeringSubmitted, Acknowledge, entries, turns, operations, workers,
       ledger, commits, session, runner
<1>16. CASE FinishSteeringOperation
  BY <1>16, SendAssumption DEF TypeOK, Turn, Capture, Calling, Join, Joining, Stopping,
       Admits, FinishSteeringOperation, Joined, entries, turns, operations, workers,
       ledger, commits, session, runner
<1>17. CASE TryFinishSteeringTurn
  BY <1>17, SendAssumption DEF TypeOK, Turn, Capture, Calling, Join, Joining, Stopping,
       Admits, TryFinishSteeringTurn, entries, turns, operations, workers, ledger,
       commits, session, runner
<1>18. CASE FailTurn
  BY <1>18, SendAssumption DEF TypeOK, Turn, Capture, Calling, Join, Joining, Stopping,
       Admits, FailTurn, DrainSteeringForInterrupt, entries, turns, operations, workers,
       ledger, commits, session, runner
<1>19. CASE EndSteeringTurn
  BY <1>19, SendAssumption DEF TypeOK, Turn, Capture, Calling, Join, Joining, Stopping,
       Admits, EndSteeringTurn, entries, turns, operations, workers, ledger, commits,
       session, runner
<1>20. ASSUME NEW o \in Ops, WorkerBegin(o) PROVE Join'
  BY <1>20, SendAssumption DEF TypeOK, Turn, Capture, Calling, Join, Joining, Stopping,
       Admits, WorkerBegin, Verdict, Done, entries, turns, operations, workers, ledger,
       commits, session, runner
<1>21. ASSUME NEW o \in Ops, NEW found \in Found, WorkerStops(o, found) PROVE Join'
  BY <1>21, SendAssumption DEF TypeOK, Turn, Capture, Calling, Join, Joining, Stopping,
       Admits, WorkerStops, Verdict, Done, entries, turns, operations, workers, ledger,
       commits, session, runner
<1>22. ASSUME NEW o \in Ops, NEW confirmed \in BOOLEAN, WorkerJoins(o, confirmed) PROVE Join'
  BY <1>22, SendAssumption DEF TypeOK, Turn, Capture, Calling, Join, Joining, Stopping,
       Admits, WorkerJoins, Verdict, Done, entries, turns, operations, workers, ledger,
       commits, session, runner
<1>23. ASSUME NEW o \in Ops, WorkerChecks(o) PROVE Join'
  BY <1>23, SendAssumption DEF TypeOK, Turn, Capture, Calling, Join, Joining, Stopping,
       Admits, WorkerChecks, Verdict, Done, entries, turns, operations, workers, ledger,
       commits, session, runner
<1>24. ASSUME NEW o \in Ops, WorkerMarks(o) PROVE Join'
  BY <1>24, SendAssumption DEF TypeOK, Turn, Capture, Calling, Join, Joining, Stopping,
       Admits, WorkerMarks, Verdict, Done, entries, turns, operations, workers, ledger,
       commits, session, runner
<1>25. ASSUME NEW o \in Ops, WorkerNotes(o) PROVE Join'
  BY <1>25, SendAssumption DEF TypeOK, Turn, Capture, Calling, Join, Joining, Stopping,
       Admits, WorkerNotes, Verdict, Done, entries, turns, operations, workers, ledger,
       commits, session, runner
<1>26. CASE Quiet
  BY <1>26, QuietFrame, SendAssumption DEF TypeOK, Turn, Capture, Calling, Join,
       Joining, Stopping, Admits, entries, turns, operations, workers, ledger, commits,
       session, runner
<1>27. CASE UNCHANGED vars
  BY <1>27, SendAssumption DEF TypeOK, Turn, Capture, Calling, Join, Joining, Stopping,
       Admits, vars, entries, turns, operations, workers, ledger, commits, session,
       runner
<1> QED
  BY <1>1, <1>2, <1>3, <1>4, <1>5, <1>6, <1>7, <1>8, <1>9, <1>10, <1>11, <1>12, <1>13,
       <1>14, <1>15, <1>16, <1>17, <1>18, <1>19, <1>20, <1>21, <1>22, <1>23, <1>24,
       <1>25, <1>26, <1>27 DEF Next, User, Worker, Runner, Open, Quiet

IInv == TypeOK /\ Flow /\ Turn /\ Capture /\ Unit /\ Join

LEMMA Inductive == Spec => []IInv
<1>1. Init => IInv
  BY TypeInit, FlowInit, TurnInit, CaptureInit, UnitInit, JoinInit DEF IInv
<1>2. IInv /\ [Next]_vars => IInv'
  BY TypeStep, FlowStep, TurnStep, CaptureStep, UnitStep, JoinStep DEF IInv
<1> QED
  BY <1>1, <1>2, PTL DEF Spec

\* Every variable keeps its type.
THEOREM TypeCorrect == Spec => []TypeOK
<1>1. IInv => TypeOK
  BY DEF IInv
<1> QED
  BY <1>1, Inductive, PTL
-----------------------------------------------------------------------------
LEMMA OwedReachableStep ==
  ASSUME TypeOK, Flow, Turn, OwedIsReachable, [Next]_vars
  PROVE  OwedIsReachable'
<1>1. ASSUME NEW e \in Texts, PushSteering(e) PROVE OwedIsReachable'
  BY <1>1, ProtectedMember DEF TypeOK, Flow, Turn, OwedIsReachable, InFlight, Live,
       PushSteering, entries, turns, operations, workers, ledger, commits, session,
       runner
<1>2. ASSUME NEW e \in Entries, PopSteering(e) PROVE OwedIsReachable'
  BY <1>2, ProtectedMember DEF TypeOK, Flow, Turn, OwedIsReachable, InFlight, Live,
       PopSteering, DrainProtected, entries, turns, operations, workers, ledger,
       commits, session, runner
<1>3. CASE ClearSteering
  BY <1>3, ProtectedMember DEF TypeOK, Flow, Turn, OwedIsReachable, InFlight, Live,
       ClearSteering, entries, turns, operations, workers, ledger, commits, session,
       runner
<1>4. ASSUME NEW r \in Requests, SubmitSendNow(r) PROVE OwedIsReachable'
  BY <1>4, ProtectedMember DEF TypeOK, Flow, Turn, OwedIsReachable, InFlight, Live,
       SubmitSendNow, entries, turns, operations, workers, ledger, commits, session,
       runner
<1>5. CASE ResolvePendingForShutdown
  BY <1>5, ProtectedMember DEF TypeOK, Flow, Turn, OwedIsReachable, InFlight, Live,
       ResolvePendingForShutdown, entries, turns, operations, workers, ledger, commits,
       session, runner
<1>6. ASSUME NEW r \in Requests, StartWorker(r) PROVE OwedIsReachable'
  BY <1>6, ProtectedMember DEF TypeOK, Flow, Turn, OwedIsReachable, InFlight, Live,
       StartWorker, entries, turns, operations, workers, ledger, commits, session,
       runner
<1>7. ASSUME NEW o \in Ops, BeginMutation(o) PROVE OwedIsReachable'
  BY <1>7, ProtectedMember DEF TypeOK, Flow, Turn, OwedIsReachable, InFlight, Live,
       BeginMutation, entries, turns, operations, workers, ledger, commits, session,
       runner
<1>8. CASE EndMutation
  BY <1>8, ProtectedMember DEF TypeOK, Flow, Turn, OwedIsReachable, InFlight, Live,
       EndMutation, entries, turns, operations, workers, ledger, commits, session,
       runner
<1>9. CASE BeginTurn
  BY <1>9, ProtectedMember DEF TypeOK, Flow, Turn, OwedIsReachable, InFlight, Live,
       BeginTurn, entries, turns, operations, workers, ledger, commits, session, runner
<1>10. CASE DrainSteering
  BY <1>10, ProtectedMember DEF TypeOK, Flow, Turn, OwedIsReachable, InFlight, Live,
       DrainSteering, PlainRun, DrainProtected, entries, turns, operations, workers,
       ledger, commits, session, runner
<1>11. CASE PlainRunFails
  BY <1>11, ProtectedMember DEF TypeOK, Flow, Turn, OwedIsReachable, InFlight, Live,
       PlainRunFails, PlainRun, DrainSteeringForInterrupt, entries, turns, operations,
       workers, ledger, commits, session, runner
<1>12. CASE Checkpoint
  BY <1>12, ProtectedMember DEF TypeOK, Flow, Turn, OwedIsReachable, InFlight, Live,
       Checkpoint, entries, turns, operations, workers, ledger, commits, session, runner
<1>13. ASSUME NEW o \in Ops, OpenOperation(o) PROVE OwedIsReachable'
  BY <1>13, ProtectedMember DEF TypeOK, Flow, Turn, OwedIsReachable, InFlight, Live,
       OpenOperation, entries, turns, operations, workers, ledger, commits, session,
       runner
<1>14. CASE Persist
  BY <1>14, ProtectedMember DEF TypeOK, Flow, Turn, OwedIsReachable, InFlight, Live,
       Persist, entries, turns, operations, workers, ledger, commits, session, runner
<1>15. CASE MarkSteeringSubmitted
  BY <1>15, ProtectedMember DEF TypeOK, Flow, Turn, OwedIsReachable, InFlight, Live,
       MarkSteeringSubmitted, Acknowledge, entries, turns, operations, workers, ledger,
       commits, session, runner
<1>16. CASE FinishSteeringOperation
  BY <1>16, ProtectedMember DEF TypeOK, Flow, Turn, OwedIsReachable, InFlight, Live,
       FinishSteeringOperation, Joined, entries, turns, operations, workers, ledger,
       commits, session, runner
<1>17. CASE TryFinishSteeringTurn
  BY <1>17, ProtectedMember DEF TypeOK, Flow, Turn, OwedIsReachable, InFlight, Live,
       TryFinishSteeringTurn, entries, turns, operations, workers, ledger, commits,
       session, runner
<1>18. CASE FailTurn
  BY <1>18, ProtectedMember DEF TypeOK, Flow, Turn, OwedIsReachable, InFlight, Live,
       FailTurn, DrainSteeringForInterrupt, entries, turns, operations, workers, ledger,
       commits, session, runner
<1>19. CASE EndSteeringTurn
  BY <1>19, ProtectedMember DEF TypeOK, Flow, Turn, OwedIsReachable, InFlight, Live,
       EndSteeringTurn, entries, turns, operations, workers, ledger, commits, session,
       runner
<1>20. ASSUME NEW o \in Ops, Worker(o) PROVE OwedIsReachable'
  BY <1>20, WorkerFrame, ProtectedMember DEF TypeOK, Flow, Turn, OwedIsReachable,
       InFlight, Live, entries, turns, operations, workers, ledger, commits, session,
       runner
<1>21. CASE Quiet
  BY <1>21, QuietFrame, ProtectedMember DEF TypeOK, Flow, Turn, OwedIsReachable,
       InFlight, Live, entries, turns, operations, workers, ledger, commits, session,
       runner
<1>22. CASE UNCHANGED vars
  BY <1>22, ProtectedMember DEF TypeOK, Flow, Turn, OwedIsReachable, InFlight, Live,
       vars, entries, turns, operations, workers, ledger, commits, session, runner
<1> QED
  BY <1>1, <1>2, <1>3, <1>4, <1>5, <1>6, <1>7, <1>8, <1>9, <1>10, <1>11, <1>12, <1>13,
       <1>14, <1>15, <1>16, <1>17, <1>18, <1>19, <1>20, <1>21, <1>22 DEF Next, User,
       Worker, Runner, Open, Quiet

\* Text that an active turn owes the model stays where its checkpoint finds it.
THEOREM OwedReachable == Spec => []OwedIsReachable
<1>1. Init => OwedIsReachable
  BY DEF Init, OwedIsReachable
<1>2. IInv /\ OwedIsReachable /\ [Next]_vars => OwedIsReachable'
  BY OwedReachableStep DEF IInv
<1> QED
  BY <1>1, <1>2, Inductive, PTL DEF Spec

LEMMA FinalAnswerStep ==
  ASSUME TypeOK, Flow, Turn, FinalAnswerOwesNothing, [Next]_vars
  PROVE  FinalAnswerOwesNothing'
<1>1. ASSUME NEW e \in Texts, PushSteering(e) PROVE FinalAnswerOwesNothing'
  BY <1>1, SendAssumption DEF TypeOK, Flow, Turn, FinalAnswerOwesNothing, Pending,
       Satisfied, InFlight, Live, Admits, PushSteering, entries, turns, operations,
       workers, ledger, commits, session, runner
<1>2. ASSUME NEW e \in Entries, PopSteering(e) PROVE FinalAnswerOwesNothing'
  BY <1>2, SendAssumption DEF TypeOK, Flow, Turn, FinalAnswerOwesNothing, Pending,
       Satisfied, InFlight, Live, Admits, PopSteering, entries, turns, operations,
       workers, ledger, commits, session, runner
<1>3. CASE ClearSteering
  BY <1>3, SendAssumption DEF TypeOK, Flow, Turn, FinalAnswerOwesNothing, Pending,
       Satisfied, InFlight, Live, Admits, ClearSteering, entries, turns, operations,
       workers, ledger, commits, session, runner
<1>4. ASSUME NEW r \in Requests, SubmitSendNow(r) PROVE FinalAnswerOwesNothing'
  BY <1>4, SendAssumption DEF TypeOK, Flow, Turn, FinalAnswerOwesNothing, Pending,
       Satisfied, InFlight, Live, Admits, SubmitSendNow, entries, turns, operations,
       workers, ledger, commits, session, runner
<1>5. CASE ResolvePendingForShutdown
  BY <1>5, SendAssumption DEF TypeOK, Flow, Turn, FinalAnswerOwesNothing, Pending,
       Satisfied, InFlight, Live, Admits, ResolvePendingForShutdown, entries, turns,
       operations, workers, ledger, commits, session, runner
<1>6. ASSUME NEW r \in Requests, StartWorker(r) PROVE FinalAnswerOwesNothing'
  BY <1>6, SendAssumption DEF TypeOK, Flow, Turn, FinalAnswerOwesNothing, Pending,
       Satisfied, InFlight, Live, Admits, StartWorker, entries, turns, operations,
       workers, ledger, commits, session, runner
<1>7. ASSUME NEW o \in Ops, BeginMutation(o) PROVE FinalAnswerOwesNothing'
  BY <1>7, SendAssumption DEF TypeOK, Flow, Turn, FinalAnswerOwesNothing, Pending,
       Satisfied, InFlight, Live, Admits, BeginMutation, entries, turns, operations,
       workers, ledger, commits, session, runner
<1>8. CASE EndMutation
  BY <1>8, SendAssumption DEF TypeOK, Flow, Turn, FinalAnswerOwesNothing, Pending,
       Satisfied, InFlight, Live, Admits, EndMutation, entries, turns, operations,
       workers, ledger, commits, session, runner
<1>9. CASE BeginTurn
  BY <1>9, SendAssumption DEF TypeOK, Flow, Turn, FinalAnswerOwesNothing, Pending,
       Satisfied, InFlight, Live, Admits, BeginTurn, entries, turns, operations,
       workers, ledger, commits, session, runner
<1>10. CASE DrainSteering
  BY <1>10, SendAssumption DEF TypeOK, Flow, Turn, FinalAnswerOwesNothing, Pending,
       Satisfied, InFlight, Live, Admits, DrainSteering, PlainRun, entries, turns,
       operations, workers, ledger, commits, session, runner
<1>11. CASE PlainRunFails
  BY <1>11, SendAssumption DEF TypeOK, Flow, Turn, FinalAnswerOwesNothing, Pending,
       Satisfied, InFlight, Live, Admits, PlainRunFails, PlainRun,
       DrainSteeringForInterrupt, entries, turns, operations, workers, ledger, commits,
       session, runner
<1>12. CASE Checkpoint
  BY <1>12, SendAssumption DEF TypeOK, Flow, Turn, FinalAnswerOwesNothing, Pending,
       Satisfied, InFlight, Live, Admits, Checkpoint, entries, turns, operations,
       workers, ledger, commits, session, runner
<1>13. ASSUME NEW o \in Ops, OpenOperation(o) PROVE FinalAnswerOwesNothing'
  BY <1>13, SendAssumption DEF TypeOK, Flow, Turn, FinalAnswerOwesNothing, Pending,
       Satisfied, InFlight, Live, Admits, OpenOperation, entries, turns, operations,
       workers, ledger, commits, session, runner
<1>14. CASE Persist
  BY <1>14, SendAssumption DEF TypeOK, Flow, Turn, FinalAnswerOwesNothing, Pending,
       Satisfied, InFlight, Live, Admits, Persist, entries, turns, operations, workers,
       ledger, commits, session, runner
<1>15. CASE MarkSteeringSubmitted
  BY <1>15, SendAssumption DEF TypeOK, Flow, Turn, FinalAnswerOwesNothing, Pending,
       Satisfied, InFlight, Live, Admits, MarkSteeringSubmitted, Acknowledge, entries,
       turns, operations, workers, ledger, commits, session, runner
<1>16. CASE FinishSteeringOperation
  BY <1>16, SendAssumption DEF TypeOK, Flow, Turn, FinalAnswerOwesNothing, Pending,
       Satisfied, InFlight, Live, Admits, FinishSteeringOperation, Joined, entries,
       turns, operations, workers, ledger, commits, session, runner
<1>17. CASE TryFinishSteeringTurn
  BY <1>17, SendAssumption DEF TypeOK, Flow, Turn, FinalAnswerOwesNothing, Pending,
       Satisfied, InFlight, Live, Admits, TryFinishSteeringTurn, entries, turns,
       operations, workers, ledger, commits, session, runner
<1>18. CASE FailTurn
  BY <1>18, SendAssumption DEF TypeOK, Flow, Turn, FinalAnswerOwesNothing, Pending,
       Satisfied, InFlight, Live, Admits, FailTurn, DrainSteeringForInterrupt, entries,
       turns, operations, workers, ledger, commits, session, runner
<1>19. CASE EndSteeringTurn
  BY <1>19, SendAssumption DEF TypeOK, Flow, Turn, FinalAnswerOwesNothing, Pending,
       Satisfied, InFlight, Live, Admits, EndSteeringTurn, entries, turns, operations,
       workers, ledger, commits, session, runner
<1>20. ASSUME NEW o \in Ops, Worker(o) PROVE FinalAnswerOwesNothing'
  <2>1. UNCHANGED <<submitted, archived, covered, closing, turn, reqTurn>>
    BY <1>20, WorkerFrame DEF entries, turns
  <2>2. \A r \in Requests : Live(r)' => Live(r)
    BY <1>20, <2>1, WorkerFrame DEF Live
  <2> QED
    BY <2>1, <2>2 DEF FinalAnswerOwesNothing, Pending, Satisfied
<1>21. CASE Quiet
  <2>1. UNCHANGED <<submitted, archived, status, covered, closing, turn, reqTurn>>
    BY <1>21, QuietFrame DEF entries, turns, ledger
  <2> QED
    BY <2>1 DEF FinalAnswerOwesNothing, Pending, Satisfied, Live
<1>22. CASE UNCHANGED vars
  BY <1>22, SendAssumption DEF TypeOK, Flow, Turn, FinalAnswerOwesNothing, Pending,
       Satisfied, InFlight, Live, Admits, vars, entries, turns, operations, workers,
       ledger, commits, session, runner
<1> QED
  BY <1>1, <1>2, <1>3, <1>4, <1>5, <1>6, <1>7, <1>8, <1>9, <1>10, <1>11, <1>12, <1>13,
       <1>14, <1>15, <1>16, <1>17, <1>18, <1>19, <1>20, <1>21, <1>22 DEF Next, User,
       Worker, Runner, Open, Quiet

\* No final answer is published over text the model was promised.
THEOREM FinalAnswer == Spec => []FinalAnswerOwesNothing
<1>1. Init => FinalAnswerOwesNothing
  BY DEF Init, FinalAnswerOwesNothing
<1>2. IInv /\ FinalAnswerOwesNothing /\ [Next]_vars => FinalAnswerOwesNothing'
  BY FinalAnswerStep DEF IInv
<1> QED
  BY <1>1, <1>2, Inductive, PTL DEF Spec

LEMMA OwnOperationStep ==
  ASSUME TypeOK, Capture, InterruptsItsOwn, [Next]_vars
  PROVE  InterruptsItsOwn'
<1>1. ASSUME NEW e \in Texts, PushSteering(e) PROVE InterruptsItsOwn'
  BY <1>1, SendAssumption DEF TypeOK, Capture, InterruptsItsOwn, Cancel, PushSteering,
       entries, turns, operations, workers, ledger, commits, session, runner
<1>2. ASSUME NEW e \in Entries, PopSteering(e) PROVE InterruptsItsOwn'
  BY <1>2, SendAssumption DEF TypeOK, Capture, InterruptsItsOwn, Cancel, PopSteering,
       entries, turns, operations, workers, ledger, commits, session, runner
<1>3. CASE ClearSteering
  BY <1>3, SendAssumption DEF TypeOK, Capture, InterruptsItsOwn, Cancel, ClearSteering,
       entries, turns, operations, workers, ledger, commits, session, runner
<1>4. ASSUME NEW r \in Requests, SubmitSendNow(r) PROVE InterruptsItsOwn'
  BY <1>4, SendAssumption DEF TypeOK, Capture, InterruptsItsOwn, Cancel, SubmitSendNow,
       entries, turns, operations, workers, ledger, commits, session, runner
<1>5. CASE ResolvePendingForShutdown
  BY <1>5, SendAssumption DEF TypeOK, Capture, InterruptsItsOwn, Cancel,
       ResolvePendingForShutdown, entries, turns, operations, workers, ledger, commits,
       session, runner
<1>6. ASSUME NEW r \in Requests, StartWorker(r) PROVE InterruptsItsOwn'
  BY <1>6, SendAssumption DEF TypeOK, Capture, InterruptsItsOwn, Cancel, StartWorker,
       entries, turns, operations, workers, ledger, commits, session, runner
<1>7. ASSUME NEW o \in Ops, BeginMutation(o) PROVE InterruptsItsOwn'
  BY <1>7, SendAssumption DEF TypeOK, Capture, InterruptsItsOwn, Cancel, BeginMutation,
       entries, turns, operations, workers, ledger, commits, session, runner
<1>8. CASE EndMutation
  BY <1>8, SendAssumption DEF TypeOK, Capture, InterruptsItsOwn, Cancel, EndMutation,
       entries, turns, operations, workers, ledger, commits, session, runner
<1>9. CASE BeginTurn
  BY <1>9, SendAssumption DEF TypeOK, Capture, InterruptsItsOwn, Cancel, BeginTurn,
       entries, turns, operations, workers, ledger, commits, session, runner
<1>10. CASE DrainSteering
  BY <1>10, SendAssumption DEF TypeOK, Capture, InterruptsItsOwn, Cancel, DrainSteering,
       PlainRun, entries, turns, operations, workers, ledger, commits, session, runner
<1>11. CASE PlainRunFails
  BY <1>11, SendAssumption DEF TypeOK, Capture, InterruptsItsOwn, Cancel, PlainRunFails,
       PlainRun, DrainSteeringForInterrupt, entries, turns, operations, workers, ledger,
       commits, session, runner
<1>12. CASE Checkpoint
  BY <1>12, SendAssumption DEF TypeOK, Capture, InterruptsItsOwn, Cancel, Checkpoint,
       entries, turns, operations, workers, ledger, commits, session, runner
<1>13. ASSUME NEW o \in Ops, OpenOperation(o) PROVE InterruptsItsOwn'
  BY <1>13, SendAssumption DEF TypeOK, Capture, InterruptsItsOwn, Cancel, OpenOperation,
       entries, turns, operations, workers, ledger, commits, session, runner
<1>14. CASE Persist
  BY <1>14, SendAssumption DEF TypeOK, Capture, InterruptsItsOwn, Cancel, Persist,
       entries, turns, operations, workers, ledger, commits, session, runner
<1>15. CASE MarkSteeringSubmitted
  BY <1>15, SendAssumption DEF TypeOK, Capture, InterruptsItsOwn, Cancel,
       MarkSteeringSubmitted, Acknowledge, entries, turns, operations, workers, ledger,
       commits, session, runner
<1>16. CASE FinishSteeringOperation
  BY <1>16, SendAssumption DEF TypeOK, Capture, InterruptsItsOwn, Cancel,
       FinishSteeringOperation, Joined, entries, turns, operations, workers, ledger,
       commits, session, runner
<1>17. CASE TryFinishSteeringTurn
  BY <1>17, SendAssumption DEF TypeOK, Capture, InterruptsItsOwn, Cancel,
       TryFinishSteeringTurn, entries, turns, operations, workers, ledger, commits,
       session, runner
<1>18. CASE FailTurn
  BY <1>18, SendAssumption DEF TypeOK, Capture, InterruptsItsOwn, Cancel, FailTurn,
       DrainSteeringForInterrupt, entries, turns, operations, workers, ledger, commits,
       session, runner
<1>19. CASE EndSteeringTurn
  BY <1>19, SendAssumption DEF TypeOK, Capture, InterruptsItsOwn, Cancel,
       EndSteeringTurn, entries, turns, operations, workers, ledger, commits, session,
       runner
<1>20. ASSUME NEW o \in Ops, WorkerBegin(o) PROVE InterruptsItsOwn'
  BY <1>20, SendAssumption DEF TypeOK, Capture, InterruptsItsOwn, Cancel, WorkerBegin,
       entries, turns, operations, workers, ledger, commits, session, runner
<1>21. ASSUME NEW o \in Ops, NEW found \in Found, WorkerStops(o, found) PROVE InterruptsItsOwn'
  BY <1>21, SendAssumption DEF TypeOK, Capture, InterruptsItsOwn, Cancel, WorkerStops,
       entries, turns, operations, workers, ledger, commits, session, runner
<1>22. ASSUME NEW o \in Ops, NEW confirmed \in BOOLEAN, WorkerJoins(o, confirmed) PROVE InterruptsItsOwn'
  BY <1>22, SendAssumption DEF TypeOK, Capture, InterruptsItsOwn, Cancel, WorkerJoins,
       entries, turns, operations, workers, ledger, commits, session, runner
<1>23. ASSUME NEW o \in Ops, WorkerChecks(o) PROVE InterruptsItsOwn'
  BY <1>23, SendAssumption DEF TypeOK, Capture, InterruptsItsOwn, Cancel, WorkerChecks,
       entries, turns, operations, workers, ledger, commits, session, runner
<1>24. ASSUME NEW o \in Ops, WorkerMarks(o) PROVE InterruptsItsOwn'
  BY <1>24, SendAssumption DEF TypeOK, Capture, InterruptsItsOwn, Cancel, WorkerMarks,
       entries, turns, operations, workers, ledger, commits, session, runner
<1>25. ASSUME NEW o \in Ops, WorkerNotes(o) PROVE InterruptsItsOwn'
  BY <1>25, SendAssumption DEF TypeOK, Capture, InterruptsItsOwn, Cancel, WorkerNotes,
       entries, turns, operations, workers, ledger, commits, session, runner
<1>26. CASE Quiet
  BY <1>26, QuietFrame, SendAssumption DEF TypeOK, Capture, InterruptsItsOwn, Cancel,
       entries, turns, operations, workers, ledger, commits, session, runner
<1>27. CASE UNCHANGED vars
  BY <1>27, SendAssumption DEF TypeOK, Capture, InterruptsItsOwn, Cancel, vars, entries,
       turns, operations, workers, ledger, commits, session, runner
<1> QED
  BY <1>1, <1>2, <1>3, <1>4, <1>5, <1>6, <1>7, <1>8, <1>9, <1>10, <1>11, <1>12, <1>13,
       <1>14, <1>15, <1>16, <1>17, <1>18, <1>19, <1>20, <1>21, <1>22, <1>23, <1>24,
       <1>25, <1>26, <1>27 DEF Next, User, Worker, Runner, Open, Quiet

\* A steering cause reaches only operations that a request captured.
THEOREM OwnOperation == Spec => []InterruptsItsOwn
<1>1. Init => InterruptsItsOwn
  BY DEF Init, InterruptsItsOwn
<1>2. IInv /\ InterruptsItsOwn /\ [Next]_vars => InterruptsItsOwn'
  BY OwnOperationStep DEF IInv
<1> QED
  BY <1>1, <1>2, Inductive, PTL DEF Spec

LEMMA SafeBoundaryStep ==
  ASSUME TypeOK, Turn, Capture, Unit, ClaimsSafeBoundary, [Next]_vars
  PROVE  ClaimsSafeBoundary'
<1>1. ASSUME NEW e \in Texts, PushSteering(e) PROVE ClaimsSafeBoundary'
  BY <1>1, SendAssumption DEF TypeOK, Turn, Capture, Unit, ClaimsSafeBoundary, InFlight,
       Live, Admits, PushSteering, entries, turns, operations, workers, ledger, commits,
       session, runner
<1>2. ASSUME NEW e \in Entries, PopSteering(e) PROVE ClaimsSafeBoundary'
  BY <1>2, SendAssumption DEF TypeOK, Turn, Capture, Unit, ClaimsSafeBoundary, InFlight,
       Live, Admits, PopSteering, entries, turns, operations, workers, ledger, commits,
       session, runner
<1>3. CASE ClearSteering
  BY <1>3, SendAssumption DEF TypeOK, Turn, Capture, Unit, ClaimsSafeBoundary, InFlight,
       Live, Admits, ClearSteering, entries, turns, operations, workers, ledger,
       commits, session, runner
<1>4. ASSUME NEW r \in Requests, SubmitSendNow(r) PROVE ClaimsSafeBoundary'
  BY <1>4, SendAssumption DEF TypeOK, Turn, Capture, Unit, ClaimsSafeBoundary, InFlight,
       Live, Admits, SubmitSendNow, entries, turns, operations, workers, ledger,
       commits, session, runner
<1>5. CASE ResolvePendingForShutdown
  BY <1>5, SendAssumption DEF TypeOK, Turn, Capture, Unit, ClaimsSafeBoundary, InFlight,
       Live, Admits, ResolvePendingForShutdown, entries, turns, operations, workers,
       ledger, commits, session, runner
<1>6. ASSUME NEW r \in Requests, StartWorker(r) PROVE ClaimsSafeBoundary'
  BY <1>6, SendAssumption DEF TypeOK, Turn, Capture, Unit, ClaimsSafeBoundary, InFlight,
       Live, Admits, StartWorker, entries, turns, operations, workers, ledger, commits,
       session, runner
<1>7. ASSUME NEW o \in Ops, BeginMutation(o) PROVE ClaimsSafeBoundary'
  BY <1>7, SendAssumption DEF TypeOK, Turn, Capture, Unit, ClaimsSafeBoundary, InFlight,
       Live, Admits, BeginMutation, entries, turns, operations, workers, ledger,
       commits, session, runner
<1>8. CASE EndMutation
  BY <1>8, SendAssumption DEF TypeOK, Turn, Capture, Unit, ClaimsSafeBoundary, InFlight,
       Live, Admits, EndMutation, entries, turns, operations, workers, ledger, commits,
       session, runner
<1>9. CASE BeginTurn
  BY <1>9, SendAssumption DEF TypeOK, Turn, Capture, Unit, ClaimsSafeBoundary, InFlight,
       Live, Admits, BeginTurn, entries, turns, operations, workers, ledger, commits,
       session, runner
<1>10. CASE DrainSteering
  BY <1>10, SendAssumption DEF TypeOK, Turn, Capture, Unit, ClaimsSafeBoundary,
       InFlight, Live, Admits, DrainSteering, PlainRun, entries, turns, operations,
       workers, ledger, commits, session, runner
<1>11. CASE PlainRunFails
  BY <1>11, SendAssumption DEF TypeOK, Turn, Capture, Unit, ClaimsSafeBoundary,
       InFlight, Live, Admits, PlainRunFails, PlainRun, DrainSteeringForInterrupt,
       entries, turns, operations, workers, ledger, commits, session, runner
<1>12. CASE Checkpoint
  BY <1>12, SendAssumption DEF TypeOK, Turn, Capture, Unit, ClaimsSafeBoundary,
       InFlight, Live, Admits, Checkpoint, entries, turns, operations, workers, ledger,
       commits, session, runner
<1>13. ASSUME NEW o \in Ops, OpenOperation(o) PROVE ClaimsSafeBoundary'
  BY <1>13, SendAssumption DEF TypeOK, Turn, Capture, Unit, ClaimsSafeBoundary,
       InFlight, Live, Admits, OpenOperation, entries, turns, operations, workers,
       ledger, commits, session, runner
<1>14. CASE Persist
  BY <1>14, SendAssumption DEF TypeOK, Turn, Capture, Unit, ClaimsSafeBoundary,
       InFlight, Live, Admits, Persist, entries, turns, operations, workers, ledger,
       commits, session, runner
<1>15. CASE MarkSteeringSubmitted
  BY <1>15, SendAssumption DEF TypeOK, Turn, Capture, Unit, ClaimsSafeBoundary,
       InFlight, Live, Admits, MarkSteeringSubmitted, Acknowledge, entries, turns,
       operations, workers, ledger, commits, session, runner
<1>16. CASE FinishSteeringOperation
  BY <1>16, SendAssumption DEF TypeOK, Turn, Capture, Unit, ClaimsSafeBoundary,
       InFlight, Live, Admits, FinishSteeringOperation, Joined, entries, turns,
       operations, workers, ledger, commits, session, runner
<1>17. CASE TryFinishSteeringTurn
  BY <1>17, SendAssumption DEF TypeOK, Turn, Capture, Unit, ClaimsSafeBoundary,
       InFlight, Live, Admits, TryFinishSteeringTurn, entries, turns, operations,
       workers, ledger, commits, session, runner
<1>18. CASE FailTurn
  BY <1>18, SendAssumption DEF TypeOK, Turn, Capture, Unit, ClaimsSafeBoundary,
       InFlight, Live, Admits, FailTurn, DrainSteeringForInterrupt, entries, turns,
       operations, workers, ledger, commits, session, runner
<1>19. CASE EndSteeringTurn
  BY <1>19, SendAssumption DEF TypeOK, Turn, Capture, Unit, ClaimsSafeBoundary,
       InFlight, Live, Admits, EndSteeringTurn, entries, turns, operations, workers,
       ledger, commits, session, runner
<1>20. ASSUME NEW o \in Ops, WorkerBegin(o) PROVE ClaimsSafeBoundary'
  BY <1>20, SendAssumption DEF TypeOK, Turn, Capture, Unit, ClaimsSafeBoundary,
       InFlight, Live, Admits, WorkerBegin, Done, Advance, entries, turns, operations,
       workers, ledger, commits, session, runner
<1>21. ASSUME NEW o \in Ops, NEW found \in Found, WorkerStops(o, found) PROVE ClaimsSafeBoundary'
  BY <1>21, SendAssumption DEF TypeOK, Turn, Capture, Unit, ClaimsSafeBoundary,
       InFlight, Live, Admits, WorkerStops, Done, Advance, entries, turns, operations,
       workers, ledger, commits, session, runner
<1>22. ASSUME NEW o \in Ops, NEW confirmed \in BOOLEAN, WorkerJoins(o, confirmed) PROVE ClaimsSafeBoundary'
  BY <1>22, SendAssumption DEF TypeOK, Turn, Capture, Unit, ClaimsSafeBoundary,
       InFlight, Live, Admits, WorkerJoins, Done, Advance, entries, turns, operations,
       workers, ledger, commits, session, runner
<1>23. ASSUME NEW o \in Ops, WorkerChecks(o) PROVE ClaimsSafeBoundary'
  BY <1>23, SendAssumption DEF TypeOK, Turn, Capture, Unit, ClaimsSafeBoundary,
       InFlight, Live, Admits, WorkerChecks, Done, Advance, entries, turns, operations,
       workers, ledger, commits, session, runner
<1>24. ASSUME NEW o \in Ops, WorkerMarks(o) PROVE ClaimsSafeBoundary'
  BY <1>24, SendAssumption DEF TypeOK, Turn, Capture, Unit, ClaimsSafeBoundary,
       InFlight, Live, Admits, WorkerMarks, Done, Advance, entries, turns, operations,
       workers, ledger, commits, session, runner
<1>25. ASSUME NEW o \in Ops, WorkerNotes(o) PROVE ClaimsSafeBoundary'
  BY <1>25, SendAssumption DEF TypeOK, Turn, Capture, Unit, ClaimsSafeBoundary,
       InFlight, Live, Admits, WorkerNotes, Done, Advance, entries, turns, operations,
       workers, ledger, commits, session, runner
<1>26. CASE Quiet
  BY <1>26, QuietFrame, SendAssumption DEF TypeOK, Turn, Capture, Unit,
       ClaimsSafeBoundary, InFlight, Live, Admits, entries, turns, operations, workers,
       ledger, commits, session, runner
<1>27. CASE UNCHANGED vars
  BY <1>27, SendAssumption DEF TypeOK, Turn, Capture, Unit, ClaimsSafeBoundary,
       InFlight, Live, Admits, vars, entries, turns, operations, workers, ledger,
       commits, session, runner
<1> QED
  BY <1>1, <1>2, <1>3, <1>4, <1>5, <1>6, <1>7, <1>8, <1>9, <1>10, <1>11, <1>12, <1>13,
       <1>14, <1>15, <1>16, <1>17, <1>18, <1>19, <1>20, <1>21, <1>22, <1>23, <1>24,
       <1>25, <1>26, <1>27 DEF Next, User, Worker, Runner, Open, Quiet

\* A receipt that claims a finished interruption leaves no unit committing.
THEOREM SafeBoundary == Spec => []ClaimsSafeBoundary
<1>1. Init => ClaimsSafeBoundary
  BY DEF Init, ClaimsSafeBoundary, Live
<1>2. IInv /\ ClaimsSafeBoundary /\ [Next]_vars => ClaimsSafeBoundary'
  BY SafeBoundaryStep DEF IInv
<1> QED
  BY <1>1, <1>2, Inductive, PTL DEF Spec

LEMMA NoteInTurnStep ==
  ASSUME TypeOK, Turn, Capture, Join, NoteStaysInTurn, [Next]_vars
  PROVE  NoteStaysInTurn'
<1>1. ASSUME NEW e \in Texts, PushSteering(e) PROVE NoteStaysInTurn'
  BY <1>1, SendAssumption DEF TypeOK, Turn, Capture, Join, Stopping, NoteStaysInTurn,
       PushSteering, entries, turns, operations, workers, ledger, commits, session,
       runner
<1>2. ASSUME NEW e \in Entries, PopSteering(e) PROVE NoteStaysInTurn'
  BY <1>2, SendAssumption DEF TypeOK, Turn, Capture, Join, Stopping, NoteStaysInTurn,
       PopSteering, entries, turns, operations, workers, ledger, commits, session,
       runner
<1>3. CASE ClearSteering
  BY <1>3, SendAssumption DEF TypeOK, Turn, Capture, Join, Stopping, NoteStaysInTurn,
       ClearSteering, entries, turns, operations, workers, ledger, commits, session,
       runner
<1>4. ASSUME NEW r \in Requests, SubmitSendNow(r) PROVE NoteStaysInTurn'
  BY <1>4, SendAssumption DEF TypeOK, Turn, Capture, Join, Stopping, NoteStaysInTurn,
       SubmitSendNow, entries, turns, operations, workers, ledger, commits, session,
       runner
<1>5. CASE ResolvePendingForShutdown
  BY <1>5, SendAssumption DEF TypeOK, Turn, Capture, Join, Stopping, NoteStaysInTurn,
       ResolvePendingForShutdown, entries, turns, operations, workers, ledger, commits,
       session, runner
<1>6. ASSUME NEW r \in Requests, StartWorker(r) PROVE NoteStaysInTurn'
  BY <1>6, SendAssumption DEF TypeOK, Turn, Capture, Join, Stopping, NoteStaysInTurn,
       StartWorker, entries, turns, operations, workers, ledger, commits, session,
       runner
<1>7. ASSUME NEW o \in Ops, BeginMutation(o) PROVE NoteStaysInTurn'
  BY <1>7, SendAssumption DEF TypeOK, Turn, Capture, Join, Stopping, NoteStaysInTurn,
       BeginMutation, entries, turns, operations, workers, ledger, commits, session,
       runner
<1>8. CASE EndMutation
  BY <1>8, SendAssumption DEF TypeOK, Turn, Capture, Join, Stopping, NoteStaysInTurn,
       EndMutation, entries, turns, operations, workers, ledger, commits, session,
       runner
<1>9. CASE BeginTurn
  BY <1>9, SendAssumption DEF TypeOK, Turn, Capture, Join, Stopping, NoteStaysInTurn,
       BeginTurn, entries, turns, operations, workers, ledger, commits, session, runner
<1>10. CASE DrainSteering
  BY <1>10, SendAssumption DEF TypeOK, Turn, Capture, Join, Stopping, NoteStaysInTurn,
       DrainSteering, PlainRun, entries, turns, operations, workers, ledger, commits,
       session, runner
<1>11. CASE PlainRunFails
  BY <1>11, SendAssumption DEF TypeOK, Turn, Capture, Join, Stopping, NoteStaysInTurn,
       PlainRunFails, PlainRun, DrainSteeringForInterrupt, entries, turns, operations,
       workers, ledger, commits, session, runner
<1>12. CASE Checkpoint
  BY <1>12, SendAssumption DEF TypeOK, Turn, Capture, Join, Stopping, NoteStaysInTurn,
       Checkpoint, entries, turns, operations, workers, ledger, commits, session, runner
<1>13. ASSUME NEW o \in Ops, OpenOperation(o) PROVE NoteStaysInTurn'
  BY <1>13, SendAssumption DEF TypeOK, Turn, Capture, Join, Stopping, NoteStaysInTurn,
       OpenOperation, entries, turns, operations, workers, ledger, commits, session,
       runner
<1>14. CASE Persist
  BY <1>14, SendAssumption DEF TypeOK, Turn, Capture, Join, Stopping, NoteStaysInTurn,
       Persist, entries, turns, operations, workers, ledger, commits, session, runner
<1>15. CASE MarkSteeringSubmitted
  BY <1>15, SendAssumption DEF TypeOK, Turn, Capture, Join, Stopping, NoteStaysInTurn,
       MarkSteeringSubmitted, Acknowledge, entries, turns, operations, workers, ledger,
       commits, session, runner
<1>16. CASE FinishSteeringOperation
  BY <1>16, SendAssumption DEF TypeOK, Turn, Capture, Join, Stopping, NoteStaysInTurn,
       FinishSteeringOperation, Joined, entries, turns, operations, workers, ledger,
       commits, session, runner
<1>17. CASE TryFinishSteeringTurn
  BY <1>17, SendAssumption DEF TypeOK, Turn, Capture, Join, Stopping, NoteStaysInTurn,
       TryFinishSteeringTurn, entries, turns, operations, workers, ledger, commits,
       session, runner
<1>18. CASE FailTurn
  BY <1>18, SendAssumption DEF TypeOK, Turn, Capture, Join, Stopping, NoteStaysInTurn,
       FailTurn, DrainSteeringForInterrupt, entries, turns, operations, workers, ledger,
       commits, session, runner
<1>19. CASE EndSteeringTurn
  BY <1>19, SendAssumption DEF TypeOK, Turn, Capture, Join, Stopping, NoteStaysInTurn,
       EndSteeringTurn, entries, turns, operations, workers, ledger, commits, session,
       runner
<1>20. ASSUME NEW o \in Ops, WorkerBegin(o) PROVE NoteStaysInTurn'
  BY <1>20, SendAssumption DEF TypeOK, Turn, Capture, Join, Stopping, NoteStaysInTurn,
       WorkerBegin, Done, entries, turns, operations, workers, ledger, commits, session,
       runner
<1>21. ASSUME NEW o \in Ops, NEW found \in Found, WorkerStops(o, found) PROVE NoteStaysInTurn'
  BY <1>21, SendAssumption DEF TypeOK, Turn, Capture, Join, Stopping, NoteStaysInTurn,
       WorkerStops, Done, entries, turns, operations, workers, ledger, commits, session,
       runner
<1>22. ASSUME NEW o \in Ops, NEW confirmed \in BOOLEAN, WorkerJoins(o, confirmed) PROVE NoteStaysInTurn'
  BY <1>22, SendAssumption DEF TypeOK, Turn, Capture, Join, Stopping, NoteStaysInTurn,
       WorkerJoins, Done, entries, turns, operations, workers, ledger, commits, session,
       runner
<1>23. ASSUME NEW o \in Ops, WorkerChecks(o) PROVE NoteStaysInTurn'
  BY <1>23, SendAssumption DEF TypeOK, Turn, Capture, Join, Stopping, NoteStaysInTurn,
       WorkerChecks, Done, entries, turns, operations, workers, ledger, commits,
       session, runner
<1>24. ASSUME NEW o \in Ops, WorkerMarks(o) PROVE NoteStaysInTurn'
  BY <1>24, SendAssumption DEF TypeOK, Turn, Capture, Join, Stopping, NoteStaysInTurn,
       WorkerMarks, Done, entries, turns, operations, workers, ledger, commits, session,
       runner
<1>25. ASSUME NEW o \in Ops, WorkerNotes(o) PROVE NoteStaysInTurn'
  BY <1>25, SendAssumption DEF TypeOK, Turn, Capture, Join, Stopping, NoteStaysInTurn,
       WorkerNotes, Done, entries, turns, operations, workers, ledger, commits, session,
       runner
<1>26. CASE Quiet
  BY <1>26, QuietFrame, SendAssumption DEF TypeOK, Turn, Capture, Join, Stopping,
       NoteStaysInTurn, entries, turns, operations, workers, ledger, commits, session,
       runner
<1>27. CASE UNCHANGED vars
  BY <1>27, SendAssumption DEF TypeOK, Turn, Capture, Join, Stopping, NoteStaysInTurn,
       vars, entries, turns, operations, workers, ledger, commits, session, runner
<1> QED
  BY <1>1, <1>2, <1>3, <1>4, <1>5, <1>6, <1>7, <1>8, <1>9, <1>10, <1>11, <1>12, <1>13,
       <1>14, <1>15, <1>16, <1>17, <1>18, <1>19, <1>20, <1>21, <1>22, <1>23, <1>24,
       <1>25, <1>26, <1>27 DEF Next, User, Worker, Runner, Open, Quiet

\* The note about stopped commands belongs to the turn that launched them.
THEOREM NoteInTurn == Spec => []NoteStaysInTurn
<1>1. Init => NoteStaysInTurn
  BY DEF Init, NoteStaysInTurn
<1>2. IInv /\ NoteStaysInTurn /\ [Next]_vars => NoteStaysInTurn'
  BY NoteInTurnStep DEF IInv
<1> QED
  BY <1>1, <1>2, Inductive, PTL DEF Spec

\* A closed turn's receipts do not change any more.
THEOREM LastWord == Spec => ClosedTurnHasLastWord
<1> DEFINE Kept == \A r \in Requests :
             status[r] \in {"delivered", "undelivered"} => status'[r] = status[r]
<1>1. ASSUME IInv, [Next]_vars, ~active PROVE Kept
  <2>1. TypeOK /\ Turn
    BY <1>1 DEF IInv
  <2>2. pc = "idle"
    BY <1>1, <2>1 DEF Turn
  <2>3. ASSUME NEW r \in Requests, SubmitSendNow(r) PROVE Kept
    BY <2>3, <1>1 DEF SubmitSendNow, Admits
  <2>4. CASE ResolvePendingForShutdown
    BY <2>4, <2>1 DEF ResolvePendingForShutdown, TypeOK, Live
  <2>5. ASSUME NEW o \in Ops, Worker(o) PROVE Kept
    BY <2>5, <2>1, <1>1, WorkerFrame
  <2>6. MarkSteeringSubmitted \/ EndSteeringTurn => FALSE
    BY <2>2 DEF MarkSteeringSubmitted, EndSteeringTurn
  <2>7. CASE status' = status
    BY <2>7
  <2>8. CASE Quiet
    BY <2>8, <2>1, QuietFrame DEF ledger
  <2>9. ASSUME NEW r \in Requests, StartWorker(r) PROVE status' = status
    BY <2>9 DEF StartWorker
  <2>10. ASSUME NEW o \in Ops, BeginMutation(o) \/ OpenOperation(o) PROVE status' = status
    BY <2>10 DEF BeginMutation, OpenOperation, ledger
  <2>11. ASSUME NEW e \in Entries, PushSteering(e) \/ PopSteering(e) PROVE status' = status
    BY <2>11 DEF PushSteering, PopSteering, ledger
  <2>12. CASE \/ ClearSteering \/ EndMutation \/ BeginTurn \/ DrainSteering \/ PlainRunFails
              \/ Checkpoint \/ Persist \/ FinishSteeringOperation \/ TryFinishSteeringTurn
              \/ FailTurn \/ UNCHANGED vars
    BY <2>12 DEF ClearSteering, EndMutation, BeginTurn, DrainSteering, PlainRunFails,
       DrainSteeringForInterrupt, Checkpoint, Persist, FinishSteeringOperation,
       TryFinishSteeringTurn, FailTurn, vars, ledger
  <2> QED
    BY <1>1, <2>3, <2>4, <2>5, <2>6, <2>7, <2>8, <2>9, <2>10, <2>11, <2>12
    DEF Next, User, Runner, Open, Quiet, Entries
<1>2. IInv /\ [Next]_vars => [~active => Kept]_vars
  BY <1>1
<1> QED
  BY <1>2, Inductive, PTL DEF Spec, ClosedTurnHasLastWord
-----------------------------------------------------------------------------
\* The refinement: where an entry is, and what a receipt says.
Owed(e) == \E r \in Requests : status[r] \in InFlight /\ e \in covered[r]

EntryMoves(e) ==
  \/ Where(e)' = Where(e)
  \/ Where(e) = "new" /\ Where(e)' = "waiting"
  \/ Where(e) = "waiting" /\ Where(e)' \in {"model", "marker"}
  \/ Where(e) = "waiting" /\ Where(e)' \in {"user", "dropped"} /\ ~Owed(e)

ReceiptMoves(r) ==
  \/ Receipt(r)' = Receipt(r) /\ covered'[r] = covered[r]
  \/ /\ Receipt(r) = "none" /\ Receipt(r)' = "owed"
     /\ covered'[r] \subseteq Entries /\ \A e \in covered'[r] : Where(e)' # "new"
  \/ /\ Receipt(r) \in {"owed", "undelivered"} /\ covered'[r] = covered[r]
     /\ Receipt(r)' \in {"owed", "undelivered", "delivered"}
     /\ Receipt(r)' = "delivered" => \A e \in covered[r] : Where(e) \in {"model", "marker"}

LEMMA EntryStep ==
  ASSUME TypeOK, Flow, Turn, [Next]_vars, NEW x \in Entries
  PROVE  EntryMoves(x)
<1>1. ASSUME NEW e \in Texts, PushSteering(e) PROVE EntryMoves(x)
  BY <1>1, ProtectedMember DEF TypeOK, Flow, Turn, EntryMoves, Where, Owed, Entries,
       Requests, InFlight, Live, DrainProtected, PushSteering, entries, turns,
       operations, workers, ledger, commits, session, runner
<1>2. ASSUME NEW e \in Entries, PopSteering(e) PROVE EntryMoves(x)
  BY <1>2, ProtectedMember DEF TypeOK, Flow, Turn, EntryMoves, Where, Owed, Entries,
       Requests, InFlight, Live, DrainProtected, PopSteering, entries, turns,
       operations, workers, ledger, commits, session, runner
<1>3. CASE ClearSteering
  BY <1>3, ProtectedMember DEF TypeOK, Flow, Turn, EntryMoves, Where, Owed, Entries,
       Requests, InFlight, Live, DrainProtected, ClearSteering, entries, turns,
       operations, workers, ledger, commits, session, runner
<1>4. ASSUME NEW r \in Requests, SubmitSendNow(r) PROVE EntryMoves(x)
  BY <1>4, ProtectedMember DEF TypeOK, Flow, Turn, EntryMoves, Where, Owed, Entries,
       Requests, InFlight, Live, DrainProtected, SubmitSendNow, entries, turns,
       operations, workers, ledger, commits, session, runner
<1>5. CASE ResolvePendingForShutdown
  BY <1>5, ProtectedMember DEF TypeOK, Flow, Turn, EntryMoves, Where, Owed, Entries,
       Requests, InFlight, Live, DrainProtected, ResolvePendingForShutdown, entries,
       turns, operations, workers, ledger, commits, session, runner
<1>6. ASSUME NEW r \in Requests, StartWorker(r) PROVE EntryMoves(x)
  BY <1>6, ProtectedMember DEF TypeOK, Flow, Turn, EntryMoves, Where, Owed, Entries,
       Requests, InFlight, Live, DrainProtected, StartWorker, entries, turns,
       operations, workers, ledger, commits, session, runner
<1>7. ASSUME NEW o \in Ops, BeginMutation(o) PROVE EntryMoves(x)
  BY <1>7, ProtectedMember DEF TypeOK, Flow, Turn, EntryMoves, Where, Owed, Entries,
       Requests, InFlight, Live, DrainProtected, BeginMutation, entries, turns,
       operations, workers, ledger, commits, session, runner
<1>8. CASE EndMutation
  BY <1>8, ProtectedMember DEF TypeOK, Flow, Turn, EntryMoves, Where, Owed, Entries,
       Requests, InFlight, Live, DrainProtected, EndMutation, entries, turns,
       operations, workers, ledger, commits, session, runner
<1>9. CASE BeginTurn
  BY <1>9, ProtectedMember DEF TypeOK, Flow, Turn, EntryMoves, Where, Owed, Entries,
       Requests, InFlight, Live, DrainProtected, BeginTurn, entries, turns, operations,
       workers, ledger, commits, session, runner
<1>10. CASE DrainSteering
  BY <1>10, ProtectedMember DEF TypeOK, Flow, Turn, EntryMoves, Where, Owed, Entries,
       Requests, InFlight, Live, DrainProtected, DrainSteering, PlainRun, entries,
       turns, operations, workers, ledger, commits, session, runner
<1>11. CASE PlainRunFails
  BY <1>11, ProtectedMember DEF TypeOK, Flow, Turn, EntryMoves, Where, Owed, Entries,
       Requests, InFlight, Live, DrainProtected, PlainRunFails, PlainRun,
       DrainSteeringForInterrupt, entries, turns, operations, workers, ledger, commits,
       session, runner
<1>12. CASE Checkpoint
  BY <1>12, ProtectedMember DEF TypeOK, Flow, Turn, EntryMoves, Where, Owed, Entries,
       Requests, InFlight, Live, DrainProtected, Checkpoint, entries, turns, operations,
       workers, ledger, commits, session, runner
<1>13. ASSUME NEW o \in Ops, OpenOperation(o) PROVE EntryMoves(x)
  BY <1>13, ProtectedMember DEF TypeOK, Flow, Turn, EntryMoves, Where, Owed, Entries,
       Requests, InFlight, Live, DrainProtected, OpenOperation, entries, turns,
       operations, workers, ledger, commits, session, runner
<1>14. CASE Persist
  BY <1>14, ProtectedMember DEF TypeOK, Flow, Turn, EntryMoves, Where, Owed, Entries,
       Requests, InFlight, Live, DrainProtected, Persist, entries, turns, operations,
       workers, ledger, commits, session, runner
<1>15. CASE MarkSteeringSubmitted
  BY <1>15, ProtectedMember DEF TypeOK, Flow, Turn, EntryMoves, Where, Owed, Entries,
       Requests, InFlight, Live, DrainProtected, MarkSteeringSubmitted, Acknowledge,
       entries, turns, operations, workers, ledger, commits, session, runner
<1>16. CASE FinishSteeringOperation
  BY <1>16, ProtectedMember DEF TypeOK, Flow, Turn, EntryMoves, Where, Owed, Entries,
       Requests, InFlight, Live, DrainProtected, FinishSteeringOperation, Joined,
       entries, turns, operations, workers, ledger, commits, session, runner
<1>17. CASE TryFinishSteeringTurn
  BY <1>17, ProtectedMember DEF TypeOK, Flow, Turn, EntryMoves, Where, Owed, Entries,
       Requests, InFlight, Live, DrainProtected, TryFinishSteeringTurn, entries, turns,
       operations, workers, ledger, commits, session, runner
<1>18. CASE FailTurn
  BY <1>18, ProtectedMember DEF TypeOK, Flow, Turn, EntryMoves, Where, Owed, Entries,
       Requests, InFlight, Live, DrainProtected, FailTurn, DrainSteeringForInterrupt,
       entries, turns, operations, workers, ledger, commits, session, runner
<1>19. CASE EndSteeringTurn
  BY <1>19, ProtectedMember DEF TypeOK, Flow, Turn, EntryMoves, Where, Owed, Entries,
       Requests, InFlight, Live, DrainProtected, EndSteeringTurn, entries, turns,
       operations, workers, ledger, commits, session, runner
<1>20. ASSUME NEW o \in Ops, Worker(o) PROVE EntryMoves(x)
  BY <1>20, WorkerFrame, ProtectedMember DEF TypeOK, Flow, Turn, EntryMoves, Where,
       Owed, Entries, Requests, InFlight, Live, DrainProtected, entries, turns,
       operations, workers, ledger, commits, session, runner
<1>21. CASE Quiet
  BY <1>21, QuietFrame, ProtectedMember DEF TypeOK, Flow, Turn, EntryMoves, Where, Owed,
       Entries, Requests, InFlight, Live, DrainProtected, entries, turns, operations,
       workers, ledger, commits, session, runner
<1>22. CASE UNCHANGED vars
  BY <1>22, ProtectedMember DEF TypeOK, Flow, Turn, EntryMoves, Where, Owed, Entries,
       Requests, InFlight, Live, DrainProtected, vars, entries, turns, operations,
       workers, ledger, commits, session, runner
<1> QED
  BY <1>1, <1>2, <1>3, <1>4, <1>5, <1>6, <1>7, <1>8, <1>9, <1>10, <1>11, <1>12, <1>13,
       <1>14, <1>15, <1>16, <1>17, <1>18, <1>19, <1>20, <1>21, <1>22 DEF Next, User,
       Worker, Runner, Open, Quiet

LEMMA ReceiptStep ==
  ASSUME TypeOK, Flow, Turn, [Next]_vars, NEW q \in Requests
  PROVE  ReceiptMoves(q)
<1>1. ASSUME NEW e \in Texts, PushSteering(e) PROVE ReceiptMoves(q)
  BY <1>1, SendAssumption DEF TypeOK, Flow, Turn, ReceiptMoves, Where, Receipt, Entries,
       Requests, InFlight, Live, PushSteering, entries, turns, operations, workers,
       ledger, commits, session, runner
<1>2. ASSUME NEW e \in Entries, PopSteering(e) PROVE ReceiptMoves(q)
  BY <1>2, SendAssumption DEF TypeOK, Flow, Turn, ReceiptMoves, Where, Receipt, Entries,
       Requests, InFlight, Live, PopSteering, entries, turns, operations, workers,
       ledger, commits, session, runner
<1>3. CASE ClearSteering
  BY <1>3, SendAssumption DEF TypeOK, Flow, Turn, ReceiptMoves, Where, Receipt, Entries,
       Requests, InFlight, Live, ClearSteering, entries, turns, operations, workers,
       ledger, commits, session, runner
<1>4. ASSUME NEW r \in Requests, SubmitSendNow(r) PROVE ReceiptMoves(q)
  BY <1>4, SendAssumption DEF TypeOK, Flow, Turn, ReceiptMoves, Where, Receipt, Entries,
       Requests, InFlight, Live, SubmitSendNow, entries, turns, operations, workers,
       ledger, commits, session, runner
<1>5. CASE ResolvePendingForShutdown
  BY <1>5, SendAssumption DEF TypeOK, Flow, Turn, ReceiptMoves, Where, Receipt, Entries,
       Requests, InFlight, Live, ResolvePendingForShutdown, entries, turns, operations,
       workers, ledger, commits, session, runner
<1>6. ASSUME NEW r \in Requests, StartWorker(r) PROVE ReceiptMoves(q)
  BY <1>6, SendAssumption DEF TypeOK, Flow, Turn, ReceiptMoves, Where, Receipt, Entries,
       Requests, InFlight, Live, StartWorker, entries, turns, operations, workers,
       ledger, commits, session, runner
<1>7. ASSUME NEW o \in Ops, BeginMutation(o) PROVE ReceiptMoves(q)
  BY <1>7, SendAssumption DEF TypeOK, Flow, Turn, ReceiptMoves, Where, Receipt, Entries,
       Requests, InFlight, Live, BeginMutation, entries, turns, operations, workers,
       ledger, commits, session, runner
<1>8. CASE EndMutation
  BY <1>8, SendAssumption DEF TypeOK, Flow, Turn, ReceiptMoves, Where, Receipt, Entries,
       Requests, InFlight, Live, EndMutation, entries, turns, operations, workers,
       ledger, commits, session, runner
<1>9. CASE BeginTurn
  BY <1>9, SendAssumption DEF TypeOK, Flow, Turn, ReceiptMoves, Where, Receipt, Entries,
       Requests, InFlight, Live, BeginTurn, entries, turns, operations, workers, ledger,
       commits, session, runner
<1>10. CASE DrainSteering
  BY <1>10, SendAssumption DEF TypeOK, Flow, Turn, ReceiptMoves, Where, Receipt,
       Entries, Requests, InFlight, Live, DrainSteering, PlainRun, entries, turns,
       operations, workers, ledger, commits, session, runner
<1>11. CASE PlainRunFails
  BY <1>11, SendAssumption DEF TypeOK, Flow, Turn, ReceiptMoves, Where, Receipt,
       Entries, Requests, InFlight, Live, PlainRunFails, PlainRun,
       DrainSteeringForInterrupt, entries, turns, operations, workers, ledger, commits,
       session, runner
<1>12. CASE Checkpoint
  BY <1>12, SendAssumption DEF TypeOK, Flow, Turn, ReceiptMoves, Where, Receipt,
       Entries, Requests, InFlight, Live, Checkpoint, entries, turns, operations,
       workers, ledger, commits, session, runner
<1>13. ASSUME NEW o \in Ops, OpenOperation(o) PROVE ReceiptMoves(q)
  BY <1>13, SendAssumption DEF TypeOK, Flow, Turn, ReceiptMoves, Where, Receipt,
       Entries, Requests, InFlight, Live, OpenOperation, entries, turns, operations,
       workers, ledger, commits, session, runner
<1>14. CASE Persist
  BY <1>14, SendAssumption DEF TypeOK, Flow, Turn, ReceiptMoves, Where, Receipt,
       Entries, Requests, InFlight, Live, Persist, entries, turns, operations, workers,
       ledger, commits, session, runner
<1>15. CASE MarkSteeringSubmitted
  BY <1>15, SendAssumption DEF TypeOK, Flow, Turn, ReceiptMoves, Where, Receipt,
       Entries, Requests, InFlight, Live, MarkSteeringSubmitted, Acknowledge, entries,
       turns, operations, workers, ledger, commits, session, runner
<1>16. CASE FinishSteeringOperation
  BY <1>16, SendAssumption DEF TypeOK, Flow, Turn, ReceiptMoves, Where, Receipt,
       Entries, Requests, InFlight, Live, FinishSteeringOperation, Joined, entries,
       turns, operations, workers, ledger, commits, session, runner
<1>17. CASE TryFinishSteeringTurn
  BY <1>17, SendAssumption DEF TypeOK, Flow, Turn, ReceiptMoves, Where, Receipt,
       Entries, Requests, InFlight, Live, TryFinishSteeringTurn, entries, turns,
       operations, workers, ledger, commits, session, runner
<1>18. CASE FailTurn
  BY <1>18, SendAssumption DEF TypeOK, Flow, Turn, ReceiptMoves, Where, Receipt,
       Entries, Requests, InFlight, Live, FailTurn, DrainSteeringForInterrupt, entries,
       turns, operations, workers, ledger, commits, session, runner
<1>19. CASE EndSteeringTurn
  BY <1>19, SendAssumption DEF TypeOK, Flow, Turn, ReceiptMoves, Where, Receipt,
       Entries, Requests, InFlight, Live, EndSteeringTurn, entries, turns, operations,
       workers, ledger, commits, session, runner
<1>20. ASSUME NEW o \in Ops, Worker(o) PROVE ReceiptMoves(q)
  BY <1>20, WorkerFrame, SendAssumption DEF TypeOK, Flow, Turn, ReceiptMoves, Where,
       Receipt, Entries, Requests, InFlight, Live, entries, turns, operations, workers,
       ledger, commits, session, runner
<1>21. CASE Quiet
  BY <1>21, QuietFrame, SendAssumption DEF TypeOK, Flow, Turn, ReceiptMoves, Where,
       Receipt, Entries, Requests, InFlight, Live, entries, turns, operations, workers,
       ledger, commits, session, runner
<1>22. CASE UNCHANGED vars
  BY <1>22, SendAssumption DEF TypeOK, Flow, Turn, ReceiptMoves, Where, Receipt,
       Entries, Requests, InFlight, Live, vars, entries, turns, operations, workers,
       ledger, commits, session, runner
<1> QED
  BY <1>1, <1>2, <1>3, <1>4, <1>5, <1>6, <1>7, <1>8, <1>9, <1>10, <1>11, <1>12, <1>13,
       <1>14, <1>15, <1>16, <1>17, <1>18, <1>19, <1>20, <1>21, <1>22 DEF Next, User,
       Worker, Runner, Open, Quiet

\* Send now implements Feedback.
THEOREM Implements == Spec => ImplementsFeedback
<1>1. Init => Text!Init
  BY DEF Init, Text!Init, Where, Receipt
<1>2. ASSUME IInv, [Next]_vars
      PROVE  [Text!Next]_<<[e \in Entries |-> Where(e)], [r \in Requests |-> Receipt(r)], covered>>
  <2>1. TypeOK /\ Flow /\ Turn
    BY <1>2 DEF IInv
  <2>2. ASSUME NEW e \in Entries PROVE Text!Moves(e)
    <3>1. EntryMoves(e)
      BY <1>2, <2>1, <2>2, EntryStep
    <3>2. Owed(e) <=> Text!Owed(e)
      BY <2>1 DEF Owed, Text!Owed, Receipt, InFlight, TypeOK
    <3> QED
      BY <3>1, <3>2 DEF EntryMoves, Text!Moves, Text!Read
  <2>3. ASSUME NEW r \in Requests PROVE Text!Settles(r)
    <3>1. ReceiptMoves(r)
      BY <1>2, <2>1, <2>3, ReceiptStep
    <3>2. covered[r] \subseteq Entries
      BY <2>1 DEF TypeOK
    <3> QED
      BY <3>1, <3>2 DEF ReceiptMoves, Text!Settles, Text!Read
  <2> QED
    BY <2>2, <2>3 DEF Text!Next
<1> QED
  BY <1>1, <1>2, Inductive, PTL DEF Spec, ImplementsFeedback, Text!Spec
=============================================================================
