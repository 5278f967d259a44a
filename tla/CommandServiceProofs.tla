------------------------ MODULE CommandServiceProofs ------------------------
(***************************************************************************)
(* Proofs, for any commands, turns, operations and bounds, of the safety   *)
(* invariants the runs of MCCommandService check, of the membership the    *)
(* service implements and of the sink it relies on.                        *)
(***************************************************************************)
EXTENDS CommandService, FiniteSetTheorems, TLAPS

-----------------------------------------------------------------------------
\* What remembering a stopped scope does to the bounded memory.

\* The memory stays a sequence of scopes.
LEMMA RememberType ==
  ASSUME NEW S, NEW seen \in Seq(S), NEW x \in S
  PROVE  Remember(seen, x) \in Seq(S)
<1>1. CASE x \in Range(seen) \/ Len(seen) < MaxStopped
  BY <1>1 DEF Remember
<1>2. CASE x \notin Range(seen) /\ ~(Len(seen) < MaxStopped)
  <2>1. seen # <<>>
    BY <1>2, BoundAssumption
  <2>2. Tail(seen) \in Seq(S)
    BY <2>1
  <2> QED
    BY <1>2, <2>2 DEF Remember
<1> QED
  BY <1>1, <1>2

\* It forgets, and it learns nothing but the scope it was given.
LEMMA RememberRange ==
  ASSUME NEW S, NEW seen \in Seq(S), NEW x \in S
  PROVE  Range(Remember(seen, x)) \subseteq Range(seen) \cup {x}
<1>1. CASE x \in Range(seen)
  BY <1>1 DEF Remember
<1>2. CASE x \notin Range(seen) /\ Len(seen) < MaxStopped
  <2>1. Remember(seen, x) = Append(seen, x)
    BY <1>2 DEF Remember
  <2> QED
    BY <2>1 DEF Range
<1>3. CASE x \notin Range(seen) /\ ~(Len(seen) < MaxStopped)
  <2>1. seen # <<>> /\ Remember(seen, x) = Append(Tail(seen), x)
    BY <1>3, BoundAssumption DEF Remember
  <2>2. Tail(seen) \in Seq(S) /\ Range(Tail(seen)) \subseteq Range(seen)
    BY <2>1 DEF Range
  <2>3. Range(Append(Tail(seen), x)) \subseteq Range(Tail(seen)) \cup {x}
    BY <2>2 DEF Range
  <2> QED
    BY <2>1, <2>2, <2>3
<1> QED
  BY <1>1, <1>2, <1>3

-----------------------------------------------------------------------------
\* The inductive invariant, part by part.

SlotHolders == {j \in Jobs : stage[j] \in {"admitted", "exited", "settling", "settled"}}

\* A capacity slot is held from the insertion to runJob's decrement.
Slots == active = Cardinality(SlotHolders) /\ active <= MaxJobs

\* A lease is held from the insertion to the end of the goroutine.
Leases == leases = {j \in Jobs : stage[j] \notin {"new", "done"}}

\* Who waits is attached; who is detached is reported to the sink, and only then.
Readers ==
  \A j \in Jobs :
    /\ wait[j] \in {"waiting", "joining", "terminal", "abandoned"} => att[j] = "fg"
    /\ stage[j] = "settling" => att[j] = "bg"
    /\ sink[j] # "none" => att[j] = "bg" /\ Terminal(j) /\ stage[j] # "settling"
    /\ stage[j] \in {"settled", "drained", "done"} /\ att[j] = "bg" => sink[j] # "none"

\* A stop is asked of an admitted command, and an interruption selects attached
\* ones, which its stop keeps attached.
Stops ==
  \A j \in Jobs :
    /\ stage[j] = "new" => cause[j] = "none"
    /\ receipt[j] # "none" => StopPending(j) /\ att[j] = "fg"

\* Shutdown joins a closed service, and what it joined stays finished.
Joined ==
  /\ shut # "idle" => closed
  /\ shut = "joined" => AllFinished

IInv ==
  /\ TypeOK /\ Slots /\ Leases /\ Readers /\ Stops /\ Joined
  /\ StoppedScopesAreQuiet /\ OneWinner /\ StopOwnsOutcome /\ ReceiptHonest
-----------------------------------------------------------------------------
\* The slot holders are finitely many, so the service can count them.
LEMMA SlotHoldersFinite == IsFiniteSet(SlotHolders)
BY JobsAssumption, FS_Subset DEF SlotHolders

\* Taking a slot and giving one back move the counter with the set it counts.
LEMMA SlotTaken ==
  ASSUME TypeOK, Slots, NEW j \in Jobs, j \notin SlotHolders,
         SlotHolders' = SlotHolders \cup {j}, active < MaxJobs, active' = active + 1
  PROVE  Slots'
<1>1. Cardinality(SlotHolders') = Cardinality(SlotHolders) + 1
  BY SlotHoldersFinite, FS_AddElement
<1>2. active + 1 <= MaxJobs
  BY BoundAssumption DEF TypeOK
<1> QED
  BY <1>1, <1>2 DEF Slots

LEMMA SlotReturned ==
  ASSUME TypeOK, Slots, NEW j \in SlotHolders,
         SlotHolders' = SlotHolders \ {j}, active' = active - 1
  PROVE  Slots' /\ active' \in Nat
<1>1. IsFiniteSet(SlotHolders) /\ Cardinality(SlotHolders) \in Nat
  BY SlotHoldersFinite, FS_CardinalityType
<1>2. Cardinality(SlotHolders) # 0
  BY <1>1, FS_EmptySet
<1>3. Cardinality(SlotHolders') = Cardinality(SlotHolders) - 1
  BY <1>1, FS_RemoveElement
<1> QED
  BY <1>1, <1>2, <1>3, BoundAssumption DEF Slots, TypeOK

LEMMA InitIInv == Init => IInv
<1> SUFFICES ASSUME Init PROVE IInv
  OBVIOUS
<1>1. TypeOK
  <2>1. turnStops \in Seq(Turns) /\ closedOps \in Seq(Ops)
    BY DEF Init
  <2>2. stage \in [Jobs -> Stages] /\ leases \subseteq Jobs /\ active \in Nat
    BY DEF Init, Stages
  <2>3. /\ started \in [Jobs -> BOOLEAN]
        /\ exit \in [Jobs -> Exits \cup {"none"}]
        /\ att \in [Jobs -> {"fg", "bg"}]
        /\ cause \in [Jobs -> Causes \cup {"none"}]
        /\ outcome \in [Jobs -> Outcomes \cup {"none"}]
    BY DEF Init
  <2> QED
    BY <2>1, <2>2, <2>3 DEF Init, TypeOK
<1>2. SlotHolders = {}
  BY DEF Init, SlotHolders
<1>3. Slots
  BY <1>2, FS_EmptySet, BoundAssumption DEF Init, Slots
<1>4. Leases /\ Readers /\ Stops /\ Joined
  BY DEF Init, Leases, Readers, Stops, Joined
<1>5. StoppedScopesAreQuiet /\ OneWinner /\ StopOwnsOutcome /\ ReceiptHonest
  BY DEF Init, StoppedScopesAreQuiet, OneWinner, StopOwnsOutcome, ReceiptHonest,
         Live, Unsettled, Terminal, Causes
<1> QED
  BY <1>1, <1>3, <1>4, <1>5 DEF IInv

\* Admission: the two refusals of stopped scopes and the capacity check.
LEMMA LaunchIInv ==
  ASSUME IInv, NEW j \in Jobs, NEW detached \in BOOLEAN, Launch(j, detached)
  PROVE  IInv'
<1> USE DEF IInv
<1>1. TypeOK'
  BY DEF TypeOK, Launch, Stages
<1>2. Slots'
  <2>1. j \notin SlotHolders /\ SlotHolders' = SlotHolders \cup {j}
    BY DEF TypeOK, Launch, SlotHolders
  <2> QED
    BY <2>1, SlotTaken DEF Launch, Admissible, HasCapacity
<1>3. Leases'
  BY DEF TypeOK, Launch, Leases
<1>4. Readers'
  BY DEF TypeOK, Launch, Readers, Terminal
<1>5. Stops'
  BY DEF TypeOK, Launch, Stops, Readers, StopPending
<1>6. Joined'
  BY DEF Launch, Admissible, Joined
<1>7. StoppedScopesAreQuiet'
  BY DEF TypeOK, Launch, Admissible, ScopeOpen, StoppedScopesAreQuiet, Live, StopPending,
         TurnOfJob
<1>8. OneWinner'
  BY DEF TypeOK, Launch, OneWinner, Stops, Causes
<1>9. StopOwnsOutcome' /\ ReceiptHonest'
  BY DEF TypeOK, Launch, StopOwnsOutcome, ReceiptHonest, Terminal, StopPending
<1> QED
  BY <1>1, <1>2, <1>3, <1>4, <1>5, <1>6, <1>7, <1>8, <1>9
\* The process starts or ends: nothing the invariant speaks of moves but the
\* stage, between two that hold a slot and a lease.
LEMMA ProcessIInv ==
  ASSUME IInv, NEW j \in Jobs, Start(j) \/ \E e \in Exits : ProcessExit(j, e)
  PROVE  IInv'
<1> USE DEF IInv
<1>1. CASE Start(j)
  <2>1. TypeOK'
    BY <1>1 DEF TypeOK, Start, service, gate, callers
  <2>2. SlotHolders' = SlotHolders
    BY <1>1 DEF SlotHolders, Start
  <2>3. Slots' /\ Leases' /\ Joined'
    BY <1>1, <2>2 DEF Slots, Leases, Joined, AllFinished, Start, service, gate
  <2>4. Readers' /\ Stops'
    BY <1>1 DEF Readers, Stops, Terminal, StopPending, Start, callers
  <2>5. StoppedScopesAreQuiet' /\ OneWinner' /\ StopOwnsOutcome' /\ ReceiptHonest'
    BY <1>1 DEF StoppedScopesAreQuiet, OneWinner, StopOwnsOutcome, ReceiptHonest, Live,
                Terminal, StopPending, TurnOfJob, Start, service, callers
  <2> QED
    BY <2>1, <2>3, <2>4, <2>5
<1>2. ASSUME NEW e \in Exits, ProcessExit(j, e)
      PROVE  IInv'
  <2>1. TypeOK'
    BY <1>2 DEF TypeOK, ProcessExit, Stages, service, gate, callers
  <2>2. SlotHolders' = SlotHolders
    BY <1>2 DEF TypeOK, SlotHolders, ProcessExit
  <2>3. Slots' /\ Leases' /\ Joined'
    BY <1>2, <2>2 DEF TypeOK, Slots, Leases, Joined, AllFinished, ProcessExit, service, gate
  <2>4. Readers' /\ Stops'
    BY <1>2 DEF TypeOK, Readers, Stops, Terminal, StopPending, ProcessExit, callers
  <2>5. StoppedScopesAreQuiet'
    BY <1>2 DEF TypeOK, StoppedScopesAreQuiet, Live, Unsettled, StopPending, TurnOfJob,
                ProcessExit, service
  <2>6. OneWinner' /\ StopOwnsOutcome' /\ ReceiptHonest'
    BY <1>2 DEF TypeOK, OneWinner, StopOwnsOutcome, ReceiptHonest, Terminal, StopPending,
                ProcessExit, callers
  <2> QED
    BY <2>1, <2>3, <2>4, <2>5, <2>6
<1> QED
  BY <1>1, <1>2

\* Settlement: the outcome is decided by whether a stop is pending at that moment.
LEMMA SettleIInv ==
  ASSUME IInv, NEW j \in Jobs, Settle(j)
  PROVE  IInv'
<1> USE DEF IInv
<1>1. Classify(j) \in Outcomes /\ (Classify(j) = "stopped" <=> StopPending(j))
  BY DEF Classify, Outcomes
<1>2. TypeOK'
  BY <1>1 DEF TypeOK, Settle, Stages, service, gate, callers
<1>3. SlotHolders' = SlotHolders
  BY DEF TypeOK, SlotHolders, Settle
<1>4. Slots' /\ Leases' /\ Joined'
  BY <1>3 DEF TypeOK, Slots, Leases, Joined, AllFinished, Settle, service, gate
<1>5. Readers' /\ Stops'
  BY DEF TypeOK, Readers, Stops, Terminal, StopPending, Settle, Detached, callers
<1>6. StoppedScopesAreQuiet' /\ OneWinner'
  BY DEF TypeOK, StoppedScopesAreQuiet, OneWinner, Live, Unsettled, StopPending, TurnOfJob,
         Settle, service
<1>7. StopOwnsOutcome'
  BY <1>1 DEF TypeOK, StopOwnsOutcome, Terminal, StopPending, Settle
<1>8. ReceiptHonest'
  <2>1. receipt[j] # "interrupted" \/ StopPending(j)
    BY DEF Stops
  <2> QED
    BY <1>1, <2>1 DEF TypeOK, ReceiptHonest, Settle, callers
<1> QED
  BY <1>2, <1>4, <1>5, <1>6, <1>7, <1>8

\* The sink is offered a completion, for the first time or again.
LEMMA SinkIInv ==
  ASSUME IInv, NEW j \in Jobs, (\E ok \in BOOLEAN : Report(j, ok)) \/ Retry(j)
  PROVE  IInv'
<1> USE DEF IInv
<1>1. CASE Retry(j)
  <2>1. TypeOK'
    BY <1>1 DEF TypeOK, Retry, service, gate, command
  <2>2. SlotHolders' = SlotHolders
    BY <1>1 DEF SlotHolders, Retry, command
  <2>3. Slots' /\ Leases' /\ Joined'
    BY <1>1, <2>2 DEF Slots, Leases, Joined, AllFinished, Retry, service, gate, command
  <2>4. Readers' /\ Stops'
    BY <1>1 DEF TypeOK, Readers, Stops, Terminal, StopPending, Retry, command
  <2>5. StoppedScopesAreQuiet' /\ OneWinner' /\ StopOwnsOutcome' /\ ReceiptHonest'
    BY <1>1 DEF StoppedScopesAreQuiet, OneWinner, StopOwnsOutcome, ReceiptHonest, Live,
                Terminal, StopPending, TurnOfJob, Retry, service, command
  <2> QED
    BY <2>1, <2>3, <2>4, <2>5
<1>2. ASSUME NEW ok \in BOOLEAN, Report(j, ok)
      PROVE  IInv'
  <2>1. TypeOK'
    BY <1>2 DEF TypeOK, Report, Stages, service, gate
  <2>2. SlotHolders' = SlotHolders
    BY <1>2 DEF TypeOK, SlotHolders, Report
  <2>3. Slots' /\ Leases' /\ Joined'
    BY <1>2, <2>2 DEF TypeOK, Slots, Leases, Joined, AllFinished, Report, service, gate
  <2>4. Readers' /\ Stops'
    BY <1>2 DEF TypeOK, Readers, Stops, Terminal, StopPending, Report
  <2>5. StoppedScopesAreQuiet' /\ OneWinner'
    BY <1>2 DEF TypeOK, StoppedScopesAreQuiet, OneWinner, Live, Unsettled, StopPending,
                TurnOfJob, Report, service
  <2>6. StopOwnsOutcome' /\ ReceiptHonest'
    BY <1>2 DEF TypeOK, StopOwnsOutcome, ReceiptHonest, Terminal, StopPending, Report
  <2> QED
    BY <2>1, <2>3, <2>4, <2>5, <2>6
<1> QED
  BY <1>1, <1>2
\* The goroutine gives its slot back, then its lease.
LEMMA DrainIInv ==
  ASSUME IInv, NEW j \in Jobs, Drain(j)
  PROVE  IInv'
<1> USE DEF IInv
<1>1. j \in SlotHolders /\ SlotHolders' = SlotHolders \ {j}
  BY DEF TypeOK, SlotHolders, Drain
<1>2. Slots' /\ active' \in Nat
  BY <1>1, SlotReturned DEF Drain
<1>3. TypeOK'
  BY <1>2 DEF TypeOK, Drain, Stages, gate, callers
<1>4. Leases' /\ Joined'
  BY DEF TypeOK, Leases, Joined, AllFinished, Drain, gate
<1>5. Readers' /\ Stops'
  BY DEF TypeOK, Readers, Stops, Terminal, StopPending, Drain, callers
<1>6. StoppedScopesAreQuiet' /\ OneWinner'
  BY DEF TypeOK, StoppedScopesAreQuiet, OneWinner, Live, Unsettled, StopPending, TurnOfJob,
         Drain
<1>7. StopOwnsOutcome' /\ ReceiptHonest'
  BY DEF TypeOK, StopOwnsOutcome, ReceiptHonest, Terminal, StopPending, Drain, callers
<1> QED
  BY <1>2, <1>3, <1>4, <1>5, <1>6, <1>7

LEMMA FinishIInv ==
  ASSUME IInv, NEW j \in Jobs, Finish(j)
  PROVE  IInv'
<1> USE DEF IInv
<1>1. TypeOK'
  BY DEF TypeOK, Finish, Stages, service, callers
<1>2. SlotHolders' = SlotHolders
  BY DEF TypeOK, SlotHolders, Finish
<1>3. Slots' /\ Leases' /\ Joined'
  BY <1>2 DEF TypeOK, Slots, Leases, Joined, AllFinished, Finish, service
<1>4. Readers' /\ Stops'
  BY DEF TypeOK, Readers, Stops, Terminal, StopPending, Finish, callers
<1>5. StoppedScopesAreQuiet' /\ OneWinner'
  BY DEF TypeOK, StoppedScopesAreQuiet, OneWinner, Live, Unsettled, StopPending, TurnOfJob,
         Finish, service
<1>6. StopOwnsOutcome' /\ ReceiptHonest'
  BY DEF TypeOK, StopOwnsOutcome, ReceiptHonest, Terminal, StopPending, Finish, callers
<1> QED
  BY <1>1, <1>3, <1>4, <1>5, <1>6

\* The end of a wait: a handoff detaches only a command no stop is pending for,
\* so a stopped one keeps its attachment and a receipt its execution.
LEMMA WaitIInv ==
  ASSUME IInv, NEW j \in Jobs, WaitEnds(j) \/ WaitSettled(j) \/ JoinTimeout(j)
  PROVE  IInv'
<1> USE DEF IInv
<1>1. /\ stage' = stage /\ cause' = cause /\ outcome' = outcome /\ sink' = sink
      /\ receipt' = receipt /\ started' = started /\ exit' = exit
      /\ UNCHANGED <<service, gate>>
  BY DEF WaitEnds, WaitSettled, JoinTimeout, command
<1>2. /\ att' = att
      /\ wait[j] \in {"waiting", "joining"}
      /\ \E w \in {"terminal", "joining", "abandoned"} : wait' = [wait EXCEPT ![j] = w]
   \/ /\ HandsOff(j) /\ wait[j] = "waiting"
      /\ att' = [att EXCEPT ![j] = "bg"]
      /\ wait' = [wait EXCEPT ![j] = "continues"]
  BY DEF WaitEnds, WaitSettled, JoinTimeout, command
<1>3. TypeOK'
  BY <1>1, <1>2 DEF TypeOK, service, gate
<1>4. SlotHolders' = SlotHolders
  BY <1>1 DEF SlotHolders
<1>5. Slots' /\ Leases' /\ Joined'
  BY <1>1, <1>4 DEF Slots, Leases, Joined, AllFinished, service, gate
<1>6. Readers' /\ Stops'
  BY <1>1, <1>2 DEF TypeOK, Readers, Stops, Terminal, StopPending, HandsOff
<1>7. StoppedScopesAreQuiet'
  BY <1>1, <1>2 DEF TypeOK, StoppedScopesAreQuiet, Live, StopPending, TurnOfJob, service
<1>8. OneWinner'
  BY <1>1, <1>2 DEF TypeOK, OneWinner, HandsOff, StopPending, Causes
<1>9. StopOwnsOutcome' /\ ReceiptHonest'
  BY <1>1 DEF StopOwnsOutcome, ReceiptHonest, Terminal, StopPending
<1> QED
  BY <1>3, <1>5, <1>6, <1>7, <1>8, <1>9

\* What an accepted stop preserves, whichever set of commands it names and
\* whatever scope it closes: scoped causes reach attached commands only.
LEMMA StopRequestIInv ==
  ASSUME IInv, NEW targets \in SUBSET Jobs, NEW why \in Causes,
         RequestStopLocked(targets, why),
         why # "request" => \A j \in targets : Stoppable(j) => att[j] = "fg",
         UNCHANGED <<closed, shut, active, gate, stage, att, outcome, sink, wait>>,
         \A j \in Jobs : receipt'[j] # receipt[j] => j \in targets /\ Stoppable(j) /\ why # "request",
         \A j \in Jobs : receipt'[j] \in {receipt[j], "pending"},
         receipt' \in [Jobs -> {"none", "pending", "unknown", "continues", "interrupted", "completed"}]
  PROVE  /\ cause' \in [Jobs -> Causes \cup {"none"}]
         /\ Slots' /\ Leases' /\ Joined' /\ Readers' /\ Stops'
         /\ OneWinner' /\ StopOwnsOutcome' /\ ReceiptHonest'
<1> USE DEF IInv
<1>1. /\ cause' \in [Jobs -> Causes \cup {"none"}]
      /\ \A j \in Jobs : cause'[j] = IF j \in targets /\ Stoppable(j) THEN why ELSE cause[j]
  BY DEF RequestStopLocked, TypeOK
<1>2. SlotHolders' = SlotHolders
  BY DEF SlotHolders
<1>3. Slots' /\ Leases' /\ Joined'
  BY <1>2 DEF Slots, Leases, Joined, AllFinished, gate
<1>4. Readers'
  BY DEF Readers, Terminal
<1>5. "none" \notin Causes
  BY DEF Causes
<1>6. Stops'
  BY <1>1, <1>5 DEF TypeOK, Stops, Stoppable, StopPending, Live, Unsettled, Causes
<1>7. OneWinner'
  BY <1>1 DEF OneWinner, Causes
<1>8. StopOwnsOutcome'
  BY <1>1, <1>5 DEF StopOwnsOutcome, Stoppable, Live, Unsettled, Terminal, StopPending
<1>9. ReceiptHonest'
  BY DEF ReceiptHonest
<1> QED
  BY <1>1, <1>3, <1>4, <1>6, <1>7, <1>8, <1>9
LEMMA RequestStopIInv ==
  ASSUME IInv, NEW j \in Jobs, RequestStop(j)
  PROVE  IInv'
<1> USE DEF IInv
<1>1. /\ cause' \in [Jobs -> Causes \cup {"none"}]
      /\ Slots' /\ Leases' /\ Joined' /\ Readers' /\ Stops'
      /\ OneWinner' /\ StopOwnsOutcome' /\ ReceiptHonest'
  BY StopRequestIInv DEF RequestStop, Causes, service, callers, TypeOK
<1>2. TypeOK'
  BY <1>1 DEF TypeOK, RequestStop, service, gate, callers
<1>3. StoppedScopesAreQuiet'
  BY DEF TypeOK, StoppedScopesAreQuiet, RequestStop, RequestStopLocked, Live, StopPending,
         TurnOfJob, service
<1> QED
  BY <1>1, <1>2, <1>3

\* A turn stop reaches every attached command of the turn it remembers.
LEMMA StopAttachedIInv ==
  ASSUME IInv, NEW t \in Turns, StopAttached(t)
  PROVE  IInv'
<1> USE DEF IInv
<1>1. /\ cause' \in [Jobs -> Causes \cup {"none"}]
      /\ Slots' /\ Leases' /\ Joined' /\ Readers' /\ Stops'
      /\ OneWinner' /\ StopOwnsOutcome' /\ ReceiptHonest'
  BY StopRequestIInv DEF StopAttached, AttachedTo, Causes, callers, TypeOK
<1>2. turnStops' \in Seq(Turns) /\ Range(turnStops') \subseteq Range(turnStops) \cup {t}
  BY RememberType, RememberRange DEF StopAttached, TypeOK
<1>3. TypeOK'
  BY <1>1, <1>2 DEF TypeOK, StopAttached, gate, callers
<1>4. StoppedScopesAreQuiet'
  <2> SUFFICES ASSUME NEW j \in Jobs, Live(j), att[j] = "fg",
                      TurnOfJob(j) \in Range(turnStops) \cup {t} \/ OpOf[j] \in Range(closedOps)
               PROVE  StopPending(j)'
    BY <1>2 DEF StoppedScopesAreQuiet, StopAttached, Live, TurnOfJob
  <2>1. CASE StopPending(j)
    BY <2>1 DEF StopAttached, RequestStopLocked, StopPending, Stoppable
  <2>2. CASE ~StopPending(j)
    <3>1. TurnOfJob(j) = t
      BY <2>2 DEF StoppedScopesAreQuiet
    <3>2. j \in AttachedTo(t) /\ Stoppable(j)
      BY <2>2, <3>1 DEF AttachedTo, Stoppable
    <3> QED
      BY <3>2 DEF StopAttached, RequestStopLocked, StopPending
  <2> QED
    BY <2>1, <2>2
<1> QED
  BY <1>1, <1>3, <1>4

\* An interruption reaches every attached command of the operation it closes.
LEMMA InterruptIInv ==
  ASSUME IInv, NEW o \in Ops, InterruptOperation(o)
  PROVE  IInv'
<1> USE DEF IInv
<1>1. /\ receipt' \in [Jobs -> {"none", "pending", "unknown", "continues", "interrupted", "completed"}]
      /\ \A j \in Jobs : /\ receipt'[j] # receipt[j] => j \in Selected(o) /\ Stoppable(j)
                         /\ receipt'[j] \in {receipt[j], "pending"}
  BY DEF InterruptOperation, Selected, TypeOK
<1>2. /\ cause' \in [Jobs -> Causes \cup {"none"}]
      /\ Slots' /\ Leases' /\ Joined' /\ Readers' /\ Stops'
      /\ OneWinner' /\ StopOwnsOutcome' /\ ReceiptHonest'
  BY <1>1, StopRequestIInv DEF InterruptOperation, Selected, Causes
<1>3. closedOps' \in Seq(Ops) /\ Range(closedOps') \subseteq Range(closedOps) \cup {o}
  BY RememberType, RememberRange DEF InterruptOperation, TypeOK
<1>4. TypeOK'
  BY <1>1, <1>2, <1>3 DEF TypeOK, InterruptOperation, gate
<1>5. StoppedScopesAreQuiet'
  <2> SUFFICES ASSUME NEW j \in Jobs, Live(j), att[j] = "fg",
                      TurnOfJob(j) \in Range(turnStops) \/ OpOf[j] \in Range(closedOps) \cup {o}
               PROVE  StopPending(j)'
    BY <1>3 DEF StoppedScopesAreQuiet, InterruptOperation, Live, TurnOfJob
  <2>1. CASE StopPending(j)
    BY <2>1 DEF InterruptOperation, RequestStopLocked, StopPending, Stoppable
  <2>2. CASE ~StopPending(j)
    <3>1. OpOf[j] = o
      BY <2>2 DEF StoppedScopesAreQuiet
    <3>2. j \in Selected(o) /\ Stoppable(j)
      BY <2>2, <3>1 DEF Selected, Stoppable
    <3> QED
      BY <3>2 DEF InterruptOperation, RequestStopLocked, StopPending
  <2> QED
    BY <2>1, <2>2
<1> QED
  BY <1>2, <1>4, <1>5

\* A join reads a captured execution: stopped and attached, so it is either
\* settled as stopped or still unknown.
LEMMA JoinIInv ==
  ASSUME IInv, NEW j \in Jobs, JoinReports(j)
  PROVE  IInv'
<1> USE DEF IInv
<1>1. StopPending(j) /\ att[j] = "fg"
  BY DEF JoinReports, Stops
<1>2. /\ Terminal(j) => outcome[j] = "stopped" /\ receipt' = [receipt EXCEPT ![j] = "interrupted"]
      /\ ~Terminal(j) => receipt' = [receipt EXCEPT ![j] = "unknown"]
  BY <1>1 DEF JoinReports, StopOwnsOutcome, SettledState
<1>3. TypeOK'
  BY <1>2 DEF TypeOK, JoinReports, service, gate, command
<1>4. SlotHolders' = SlotHolders
  BY DEF SlotHolders, JoinReports, command
<1>5. Slots' /\ Leases' /\ Joined' /\ Readers'
  BY <1>4 DEF Slots, Leases, Joined, AllFinished, Readers, Terminal, JoinReports, service,
              gate, command
<1>6. Stops'
  BY <1>1, <1>2 DEF TypeOK, Stops, StopPending, JoinReports, command
<1>7. StoppedScopesAreQuiet' /\ OneWinner' /\ StopOwnsOutcome'
  BY DEF StoppedScopesAreQuiet, OneWinner, StopOwnsOutcome, Live, Terminal, StopPending,
         TurnOfJob, JoinReports, service, command
<1>8. ReceiptHonest'
  BY <1>2 DEF TypeOK, ReceiptHonest, JoinReports, command
<1> QED
  BY <1>3, <1>5, <1>6, <1>7, <1>8

\* The service's own life and the gate's acceptance touch no command.
LEMMA ServiceIInv ==
  ASSUME IInv,
         CancelParent \/ Shutdown \/ ShutdownReturns \/ ShutdownDeadline \/ AcceptEnd
  PROVE  IInv'
<1> USE DEF IInv
<1>1. UNCHANGED <<command, callers, active, turnStops, closedOps, leases>>
  BY DEF CancelParent, Shutdown, ShutdownReturns, ShutdownDeadline, AcceptEnd, service, gate
<1>2. TypeOK'
  BY <1>1 DEF TypeOK, CancelParent, Shutdown, ShutdownReturns, ShutdownDeadline, AcceptEnd,
              service, gate, command, callers
<1>3. SlotHolders' = SlotHolders
  BY <1>1 DEF SlotHolders, command
<1>4. Slots' /\ Leases' /\ Readers' /\ Stops'
  BY <1>1, <1>3 DEF Slots, Leases, Readers, Stops, Terminal, StopPending, command, callers
<1>5. Joined'
  <2>1. CASE ShutdownReturns
    BY <2>1 DEF Joined, ShutdownReturns, AllFinished, command
  <2>2. CASE ~ShutdownReturns
    BY <2>2 DEF Joined, AllFinished, CancelParent, Shutdown, ShutdownDeadline, AcceptEnd,
                service, command
  <2> QED
    BY <2>1, <2>2
<1>6. StoppedScopesAreQuiet' /\ OneWinner' /\ StopOwnsOutcome' /\ ReceiptHonest'
  BY <1>1 DEF StoppedScopesAreQuiet, OneWinner, StopOwnsOutcome, ReceiptHonest, Live,
              Terminal, StopPending, TurnOfJob, command, callers
<1> QED
  BY <1>2, <1>4, <1>5, <1>6
\* A step that changes nothing keeps everything.
LEMMA StutterIInv ==
  ASSUME IInv, UNCHANGED vars
  PROVE  IInv'
<1> USE DEF IInv, vars, service, gate, command, callers
<1>1. TypeOK'
  BY DEF TypeOK
<1>2. SlotHolders' = SlotHolders
  BY DEF SlotHolders
<1>3. Slots' /\ Leases' /\ Readers' /\ Stops' /\ Joined'
  BY <1>2 DEF Slots, Leases, Readers, Stops, Joined, AllFinished, Terminal, StopPending
<1>4. StoppedScopesAreQuiet' /\ OneWinner' /\ StopOwnsOutcome' /\ ReceiptHonest'
  BY DEF StoppedScopesAreQuiet, OneWinner, StopOwnsOutcome, ReceiptHonest, Live, Terminal,
         StopPending, TurnOfJob
<1> QED
  BY <1>1, <1>3, <1>4

LEMMA StepIInv == IInv /\ [Next]_vars => IInv'
<1> SUFFICES ASSUME IInv, [Next]_vars PROVE IInv'
  OBVIOUS
<1>1. ASSUME NEW j \in Jobs, NEW detached \in BOOLEAN, Launch(j, detached) PROVE IInv'
  BY <1>1, LaunchIInv
<1>2. ASSUME NEW j \in Jobs, Run(j) PROVE IInv'
  <2>1. CASE Start(j) \/ \E e \in Exits : ProcessExit(j, e)
    BY <2>1, ProcessIInv
  <2>2. CASE Settle(j)
    BY <2>2, SettleIInv
  <2>3. CASE (\E ok \in BOOLEAN : Report(j, ok)) \/ Retry(j)
    BY <2>3, SinkIInv
  <2>4. CASE Drain(j)
    BY <2>4, DrainIInv
  <2>5. CASE Finish(j)
    BY <2>5, FinishIInv
  <2> QED
    BY <1>2, <2>1, <2>2, <2>3, <2>4, <2>5 DEF Run
<1>3. ASSUME NEW j \in Jobs, WaitEnds(j) \/ WaitSettled(j) \/ JoinTimeout(j) PROVE IInv'
  BY <1>3, WaitIInv
<1>4. ASSUME NEW j \in Jobs, RequestStop(j) PROVE IInv'
  BY <1>4, RequestStopIInv
<1>5. ASSUME NEW j \in Jobs, JoinReports(j) PROVE IInv'
  BY <1>5, JoinIInv
<1>6. ASSUME NEW t \in Turns, StopAttached(t) PROVE IInv'
  BY <1>6, StopAttachedIInv
<1>7. ASSUME NEW o \in Ops, InterruptOperation(o) PROVE IInv'
  BY <1>7, InterruptIInv
<1>8. CASE CancelParent \/ Shutdown \/ ShutdownReturns \/ ShutdownDeadline \/ AcceptEnd
  BY <1>8, ServiceIInv
<1>9. CASE UNCHANGED vars
  BY <1>9, StutterIInv
<1> QED
  BY <1>1, <1>2, <1>3, <1>4, <1>5, <1>6, <1>7, <1>8, <1>9 DEF Next

THEOREM Invariance == Spec => []IInv
BY InitIInv, StepIInv, PTL DEF Spec

-----------------------------------------------------------------------------
\* The invariants of the runs.

\* The state keeps its types (the active counter never goes below zero).
THEOREM TypeCorrect == Spec => []TypeOK
<1>1. IInv => TypeOK
  BY DEF IInv
<1> QED
  BY <1>1, Invariance, PTL

\* However launches, stops, handoffs and settlements interleave, no more than
\* MaxJobs processes are alive.
THEOREM CapacityIsHeld == Spec => []CapacityHeld
<1>1. IInv => CapacityHeld
  <2> SUFFICES ASSUME IInv PROVE CapacityHeld
    OBVIOUS
  <2>1. {j \in Jobs : Live(j)} \subseteq SlotHolders
    BY DEF SlotHolders, Live, Unsettled
  <2>2. Cardinality({j \in Jobs : Live(j)}) <= Cardinality(SlotHolders)
    BY <2>1, SlotHoldersFinite, FS_Subset
  <2>3. IsFiniteSet({j \in Jobs : Live(j)})
    BY <2>1, SlotHoldersFinite, FS_Subset
  <2>4. Cardinality({j \in Jobs : Live(j)}) \in Nat
    BY <2>3, FS_CardinalityType
  <2> QED
    BY <2>2, <2>4, BoundAssumption DEF CapacityHeld, IInv, Slots, TypeOK
<1> QED
  BY <1>1, Invariance, PTL

\* Nothing attached to a remembered stopped turn or interrupted operation runs
\* on unasked.
THEOREM StoppedScopesStayQuiet == Spec => []StoppedScopesAreQuiet
<1>1. IInv => StoppedScopesAreQuiet
  BY DEF IInv
<1> QED
  BY <1>1, Invariance, PTL

\* The race between a handoff and a scoped stop has one winner.
THEOREM HandoffStopRace == Spec => []OneWinner
<1>1. IInv => OneWinner
  BY DEF IInv
<1> QED
  BY <1>1, Invariance, PTL

\* A stop owns the outcome exactly when it was accepted before settlement.
THEOREM StopDecidesOutcome == Spec => []StopOwnsOutcome
<1>1. IInv => StopOwnsOutcome
  BY DEF IInv
<1> QED
  BY <1>1, Invariance, PTL

\* A completion is never given both to the waiting call and to the sink.
THEOREM OneReader == Spec => []ReportedOnce
<1>1. IInv => ReportedOnce
  BY DEF IInv, TypeOK, Readers, ReportedOnce
<1> QED
  BY <1>1, Invariance, PTL

\* An interruption's receipt says interrupted only of a command that settled so.
THEOREM ReceiptsAreHonest == Spec => []ReceiptHonest
<1>1. IInv => ReceiptHonest
  BY DEF IInv
<1> QED
  BY <1>1, Invariance, PTL

\* An accepted end that finds the membership empty has nothing left to wait for.
THEOREM EndJoinIsSound == Spec => []EndJoinSound
<1>1. IInv => EndJoinSound
  <2> SUFFICES ASSUME IInv, leases = {}, NEW j \in Jobs
               PROVE  /\ ~Live(j)
                      /\ stage[j] # "new" /\ att[j] = "bg" => sink[j] # "none"
    BY DEF EndJoinSound
  <2>1. stage[j] \in {"new", "done"}
    BY DEF IInv, Leases
  <2> QED
    BY <2>1 DEF IInv, Readers, Live, Unsettled
<1> QED
  BY <1>1, Invariance, PTL

\* A Shutdown that returned left no command, slot or lease behind.
THEOREM ShutdownLeavesNothing == Spec => []ShutdownOwnsNothing
<1>1. IInv => ShutdownOwnsNothing
  <2> SUFFICES ASSUME IInv, shut = "joined" PROVE active = 0 /\ leases = {} /\ \A j \in Jobs : ~Live(j)
    BY DEF ShutdownOwnsNothing
  <2>1. \A j \in Jobs : stage[j] \in {"new", "done"}
    BY DEF IInv, Joined, AllFinished
  <2>2. SlotHolders = {} /\ leases = {}
    BY <2>1 DEF SlotHolders, IInv, Leases
  <2>3. active = 0
    BY <2>2, FS_EmptySet DEF IInv, Slots
  <2> QED
    BY <2>1, <2>2, <2>3 DEF Live, Unsettled
<1> QED
  BY <1>1, Invariance, PTL
-----------------------------------------------------------------------------
\* The commands implement a membership the end gate can freeze.

\* The steps that move one command on.
StageStep(j) ==
  \/ ~frozen /\ stage[j] = "new" /\ stage' = [stage EXCEPT ![j] = "admitted"]
  \/ Live(j) /\ \E s \in {"exited", "settling"} : stage' = [stage EXCEPT ![j] = s]
  \/ stage[j] \in {"exited", "settling"} /\ stage' = [stage EXCEPT ![j] = "settled"]
  \/ /\ stage[j] \in {"settled", "drained"}
     /\ \E s \in {"drained", "done"} : stage' = [stage EXCEPT ![j] = s]

\* Only four steps move a command between the membership and the settled set.
LEMMA StageSteps ==
  ASSUME TypeOK, Next
  PROVE  \/ UNCHANGED <<stage, leases>> /\ (frozen' = frozen \/ frozen' = TRUE)
         \/ UNCHANGED frozen /\ \E j \in Jobs : StageStep(j)
<1>1. ASSUME NEW j \in Jobs, NEW d \in BOOLEAN, Launch(j, d)
      PROVE  UNCHANGED frozen /\ StageStep(j)
  BY <1>1 DEF Launch, Admissible, StageStep
<1>2. ASSUME NEW j \in Jobs, NEW e \in Exits, ProcessExit(j, e)
      PROVE  UNCHANGED frozen /\ StageStep(j)
  BY <1>2 DEF ProcessExit, Live, Unsettled, gate, StageStep
<1>3. ASSUME NEW j \in Jobs, Settle(j)
      PROVE  UNCHANGED frozen /\ StageStep(j)
  BY <1>3 DEF Settle, Live, Unsettled, gate, StageStep
<1>4. ASSUME NEW j \in Jobs, NEW ok \in BOOLEAN, Report(j, ok)
      PROVE  UNCHANGED frozen /\ StageStep(j)
  BY <1>4 DEF Report, gate, StageStep
<1>5. ASSUME NEW j \in Jobs, Drain(j) \/ Finish(j)
      PROVE  UNCHANGED frozen /\ StageStep(j)
  BY <1>5 DEF Drain, Finish, gate, StageStep
<1>6. ASSUME NEW j \in Jobs,
             Start(j) \/ Retry(j) \/ WaitEnds(j) \/ WaitSettled(j) \/ JoinTimeout(j)
               \/ RequestStop(j) \/ JoinReports(j)
      PROVE  UNCHANGED <<stage, leases, frozen>>
  BY <1>6 DEF Start, Retry, WaitEnds, WaitSettled, JoinTimeout, RequestStop, JoinReports,
              gate, command
<1>7. ASSUME NEW t \in Turns, StopAttached(t) PROVE UNCHANGED <<stage, leases, frozen>>
  BY <1>7 DEF StopAttached, gate
<1>8. ASSUME NEW o \in Ops, InterruptOperation(o) PROVE UNCHANGED <<stage, leases, frozen>>
  BY <1>8 DEF InterruptOperation, gate
<1>9. ASSUME CancelParent \/ Shutdown \/ ShutdownReturns \/ ShutdownDeadline \/ AcceptEnd
      PROVE  UNCHANGED <<stage, leases>> /\ (frozen' = frozen \/ frozen' = TRUE)
  BY <1>9 DEF CancelParent, Shutdown, ShutdownReturns, ShutdownDeadline, AcceptEnd, gate, command
<1>10. ASSUME NEW j \in Jobs, Run(j)
       PROVE  \/ UNCHANGED <<stage, leases, frozen>>
              \/ UNCHANGED frozen /\ StageStep(j)
  BY <1>10, <1>2, <1>3, <1>4, <1>5, <1>6 DEF Run
<1>11. ASSUME NEW j \in Jobs,
              WaitEnds(j) \/ WaitSettled(j) \/ JoinTimeout(j) \/ RequestStop(j) \/ JoinReports(j)
       PROVE  UNCHANGED <<stage, leases, frozen>>
  BY <1>11, <1>6
<1>12. CASE \E j \in Jobs, d \in BOOLEAN : Launch(j, d)
  BY <1>1, <1>12
<1>13. CASE \E j \in Jobs : Run(j)
  BY <1>10, <1>13
<1>14. CASE \E j \in Jobs :
              WaitEnds(j) \/ WaitSettled(j) \/ JoinTimeout(j) \/ RequestStop(j) \/ JoinReports(j)
  BY <1>11, <1>14
<1>15. CASE (\E t \in Turns : StopAttached(t)) \/ (\E o \in Ops : InterruptOperation(o))
  BY <1>7, <1>8, <1>15
<1> QED
  BY <1>9, <1>12, <1>13, <1>14, <1>15 DEF Next

LEMMA MembershipInit == Init => Gate!Init
BY DEF Init, Gate!Init, Unaccounted, Accounted, Live, Unsettled

LEMMA MembershipStep ==
  ASSUME TypeOK, [Next]_vars
  PROVE  [Gate!Next]_(Gate!vars)
<1>1. CASE UNCHANGED <<stage, leases>> /\ (frozen' = frozen \/ frozen' = TRUE)
  <2>1. UNCHANGED <<Unaccounted, Accounted>>
    BY <1>1 DEF Unaccounted, Accounted, Live
  <2> QED
    BY <1>1, <2>1 DEF Gate!Next, Gate!Accept, Gate!vars
<1>2. ASSUME UNCHANGED frozen, NEW j \in Jobs, ~frozen, stage[j] = "new",
             stage' = [stage EXCEPT ![j] = "admitted"]
      PROVE  Gate!Admit(j)
  BY <1>2 DEF TypeOK, Gate!Admit, Unaccounted, Accounted, Live, Unsettled
<1>3. ASSUME UNCHANGED frozen, NEW j \in Jobs, Live(j), NEW s \in {"exited", "settling"},
             stage' = [stage EXCEPT ![j] = s]
      PROVE  UNCHANGED Gate!vars
  BY <1>3 DEF TypeOK, Gate!vars, Unaccounted, Accounted, Live, Unsettled
<1>4. ASSUME UNCHANGED frozen, NEW j \in Jobs, stage[j] \in {"exited", "settling"},
             stage' = [stage EXCEPT ![j] = "settled"]
      PROVE  Gate!Settle(j)
  BY <1>4 DEF TypeOK, Gate!Settle, Unaccounted, Accounted, Live, Unsettled
<1>5. ASSUME UNCHANGED frozen, NEW j \in Jobs, stage[j] \in {"settled", "drained"},
             NEW s \in {"drained", "done"}, stage' = [stage EXCEPT ![j] = s]
      PROVE  UNCHANGED Gate!vars
  BY <1>5 DEF TypeOK, Gate!vars, Unaccounted, Accounted, Live, Unsettled
<1>6. CASE UNCHANGED vars
  BY <1>1, <1>6 DEF vars, gate, command
<1> QED
  BY <1>1, <1>2, <1>3, <1>4, <1>5, <1>6, StageSteps DEF StageStep, Gate!Next

\* A launch joins the membership only while no end is accepted, each command
\* leaves it once, and nothing re-opens it.
THEOREM MembershipRefinement == Spec => ImplementsMembership
<1>1. TypeOK /\ [Next]_vars => [Gate!Next]_(Gate!vars)
  BY MembershipStep
<1> QED
  BY <1>1, MembershipInit, TypeCorrect, PTL DEF Spec, ImplementsMembership, Gate!Spec

-----------------------------------------------------------------------------
\* What the service asks of the exit sink.

\* A completion is offered once before the ledger remembers its refusal.
LEMMA SinkStep ==
  ASSUME IInv, [Next]_vars
  PROVE  [SinkContract!Next]_sink
<1> DEFINE Step == [SinkContract!Next]_sink
<1>1. sink' = sink => Step
  OBVIOUS
<1>2. ASSUME NEW j \in Jobs, NEW ok \in BOOLEAN, Report(j, ok) PROVE Step
  <2>1. sink[j] = "none"
    BY <1>2 DEF IInv, Readers, TypeOK, Report
  <2> QED
    BY <1>2, <2>1 DEF Report, SinkContract!Next, SinkContract!Refuse, SinkContract!Accept
<1>3. ASSUME NEW j \in Jobs, Retry(j) PROVE Step
  BY <1>3 DEF Retry, SinkContract!Next, SinkContract!Accept
<1> HIDE DEF Step
<1>4. ASSUME NEW j \in Jobs, Run(j) PROVE Step
  BY <1>1, <1>2, <1>3, <1>4 DEF Run, Start, ProcessExit, Settle, Drain, Finish, callers
<1>5. ASSUME NEW j \in Jobs,
             \/ \E detached \in BOOLEAN : Launch(j, detached)
             \/ WaitEnds(j) \/ WaitSettled(j) \/ JoinTimeout(j)
             \/ RequestStop(j) \/ JoinReports(j)
      PROVE  Step
  BY <1>1, <1>5 DEF Launch, WaitEnds, WaitSettled, JoinTimeout, RequestStop, JoinReports, callers
<1>6. ASSUME \/ \E t \in Turns : StopAttached(t)
             \/ \E o \in Ops : InterruptOperation(o)
             \/ CancelParent \/ Shutdown \/ ShutdownReturns \/ ShutdownDeadline
             \/ AcceptEnd
      PROVE  Step
  BY <1>1, <1>6 DEF StopAttached, InterruptOperation, CancelParent, Shutdown, ShutdownReturns,
     ShutdownDeadline, AcceptEnd, callers
<1>7. CASE UNCHANGED vars
  BY <1>1, <1>7 DEF vars, callers
<1> QED
  BY <1>4, <1>5, <1>6, <1>7 DEF Next, Step

\* The service needs no more of the exit sink than a sink promises: it offers a
\* completion once, and offers again what was refused and nothing else
\* (reportSettlement, RetrySettlements).
THEOREM SinkIsEnough == Spec => ReliesOnExitSink
<1>1. Init => SinkContract!Init
  BY DEF Init, SinkContract!Init
<1>2. IInv /\ [Next]_vars => [SinkContract!Next]_sink
  BY SinkStep
<1> QED
  BY <1>1, <1>2, Invariance, PTL DEF Spec, ReliesOnExitSink, SinkContract!Spec
=============================================================================
