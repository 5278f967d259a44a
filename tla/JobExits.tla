------------------------------ MODULE JobExits ------------------------------
(***************************************************************************)
(* The durable record of detached completions: session.State's job-exit    *)
(* list, the save that stores it, the event that announces it, and the     *)
(* ledger in which the command service keeps what the store refused.       *)
(*                                                                         *)
(* A thread is the goroutine of a settled execution, which reports its own *)
(* completion, or a joiner: an end's WaitForEnd or the terminal Quiesce,   *)
(* which retry.  Every action is one critical section of s.mu or           *)
(* jobExitSaveMu, one database write, or one publication.  Persistence is  *)
(* enabled; without it nothing is promised to survive.                     *)
(***************************************************************************)
EXTENDS Naturals, FiniteSets

CONSTANTS
  Execs,        \* the executions, which are also the threads that report them
  Joiners,      \* the threads that finalize the conversation
  None,         \* no thread, no execution
  LoadMayFail   \* LoadJobExits may fail on a resume

ASSUME ThreadsAssumption == Execs \cap Joiners = {} /\ None \notin Execs \cup Joiners
ASSUME LoadAssumption == LoadMayFail \in BOOLEAN

Threads == Execs \cup Joiners

VARIABLES
  \* the executions
  phase,        \* "new", "running", "settled" or, after a crash, "dead"
  audited,      \* those whose launch has an audit row
  ended,        \* an end was accepted: nothing is launched any more
  \* session.State
  records,      \* jobExits
  lost,         \* the lost exits a resume synthesized
  unpublished,  \* jobExitsUnpublished
  published,    \* jobExitsPublished
  pending,      \* jobExitsPending
  lock,         \* who holds jobExitSaveMu across a write
  \* the database, the event stream, the command service
  stored,       \* the stored list
  events,       \* how often each completion was announced, up to twice
  ledger,       \* m.settlements
  accepted,     \* the completions AddJobExit returned nil for
  \* the threads
  pc, cur,      \* where a thread is, and the completion it adds
  snapshot,     \* the list it is writing
  batch,        \* the completions it has still to announce
  telling,      \* the one it announced and has to mark
  ok,           \* what its save returned
  todo,         \* the ledger entries a joiner has still to offer
  joining,      \* its retry is the one after the join
  errs,         \* its save retry failed
  joined        \* what its last join pass reported

executions == <<phase, audited, ended>>
state == <<records, lost, unpublished, published, pending, lock>>
outside == <<stored, events, ledger, accepted>>
adding == <<cur, snapshot, batch, telling, ok>>
joins == <<todo, joining, errs, joined>>
vars == <<executions, state, outside, pc, adding, joins>>

Points == {"idle", "record", "queue", "save", "write", "take", "announce", "mark",
           "ledger", "saved", "offer"}

TypeOK ==
  /\ phase \in [Execs -> {"new", "running", "settled", "dead"}]
  /\ ended \in BOOLEAN /\ pending \in BOOLEAN
  /\ audited \subseteq Execs /\ records \subseteq Execs /\ lost \subseteq Execs
  /\ unpublished \subseteq Execs /\ published \subseteq Execs
  /\ stored \subseteq Execs /\ ledger \subseteq Execs /\ accepted \subseteq Execs
  /\ lock \in Threads \cup {None}
  /\ events \in [Execs -> 0..2]
  /\ pc \in [Threads -> Points]
  /\ cur \in [Threads -> Execs \cup {None}]
  /\ snapshot \in [Threads -> SUBSET Execs]
  /\ batch \in [Threads -> SUBSET Execs]
  /\ telling \in [Threads -> Execs \cup {None}]
  /\ ok \in [Threads -> BOOLEAN]
  /\ todo \in [Joiners -> SUBSET Execs]
  /\ joining \in [Joiners -> BOOLEAN]
  /\ errs \in [Joiners -> BOOLEAN]
  /\ joined \in [Joiners -> {"none", "failed", "ok"}]

-----------------------------------------------------------------------------
Init ==
  /\ phase = [e \in Execs |-> "new"]
  /\ audited = {} /\ ended = FALSE
  /\ records = {} /\ lost = {}
  /\ unpublished = {} /\ published = {} /\ pending = FALSE /\ lock = None
  /\ stored = {} /\ events = [e \in Execs |-> 0] /\ ledger = {} /\ accepted = {}
  /\ pc = [p \in Threads |-> "idle"]
  /\ cur = [p \in Threads |-> None]
  /\ snapshot = [p \in Threads |-> {}]
  /\ batch = [p \in Threads |-> {}]
  /\ telling = [p \in Threads |-> None]
  /\ ok = [p \in Threads |-> FALSE]
  /\ todo = [k \in Joiners |-> {}]
  /\ joining = [k \in Joiners |-> FALSE]
  /\ errs = [k \in Joiners |-> FALSE]
  /\ joined = [k \in Joiners |-> "none"]

\* A detached command is launched, and its call is audited when it likes.
Launch(e) ==
  /\ phase[e] = "new" /\ ~ended
  /\ phase' = [phase EXCEPT ![e] = "running"]
  /\ UNCHANGED <<audited, ended, state, outside, pc, adding, joins>>

Audit(e) ==
  /\ phase[e] \in {"running", "settled"} /\ e \notin audited
  /\ audited' = audited \cup {e}
  /\ UNCHANGED <<phase, ended, state, outside, pc, adding, joins>>

AcceptEnd ==
  /\ ~ended
  /\ ended' = TRUE
  /\ UNCHANGED <<phase, audited, state, outside, pc, adding, joins>>

\* The process has exited: the execution's goroutine enters reportSettlement.
Report(e) ==
  /\ phase[e] = "running" /\ pc[e] = "idle"
  /\ pc' = [pc EXCEPT ![e] = "record"]
  /\ cur' = [cur EXCEPT ![e] = e]
  /\ UNCHANGED <<executions, state, outside, snapshot, batch, telling, ok, joins>>

-----------------------------------------------------------------------------
\* AddJobExit, persistJobExits and publishPendingJobExits, in thread p.

\* upsertJobExitLocked, under s.mu.
Record(p) ==
  /\ pc[p] = "record"
  /\ records' = records \cup {cur[p]}
  /\ pc' = [pc EXCEPT ![p] = "queue"]
  /\ UNCHANGED <<executions, lost, unpublished, published, pending, lock, outside, adding, joins>>

Queue(p) ==
  /\ pc[p] = "queue" /\ lock = None
  /\ unpublished' = unpublished \cup ({cur[p]} \ published)
  /\ pc' = [pc EXCEPT ![p] = "save"]
  /\ UNCHANGED <<executions, records, lost, published, pending, lock, outside, adding, joins>>

\* The lock is taken and the list copied under it, then written under it.
BeginSaveOwn(p) ==   \* mutant: the write that replaces the list gets the new entry only
  /\ pc[p] = "save" /\ lock = None
  /\ lock' = p
  /\ snapshot' = [snapshot EXCEPT ![p] = {cur[p]} \ {None}]
  /\ pc' = [pc EXCEPT ![p] = "write"]
  /\ UNCHANGED <<executions, records, lost, unpublished, published, pending, outside>>
  /\ UNCHANGED <<cur, batch, telling, ok, joins>>

BeginSave(p) ==
  /\ pc[p] = "save" /\ lock = None
  /\ lock' = p
  /\ snapshot' = [snapshot EXCEPT ![p] = records]
  /\ pc' = [pc EXCEPT ![p] = "write"]
  /\ UNCHANGED <<executions, records, lost, unpublished, published, pending, outside>>
  /\ UNCHANGED <<cur, batch, telling, ok, joins>>

\* Where p goes when persistJobExits returns.
AfterSave(p) == IF cur[p] = None THEN "saved" ELSE "ledger"

SaveSucceeds(p) ==
  /\ pc[p] = "write"
  /\ lock' = None
  /\ stored' = snapshot[p]
  /\ pending' = FALSE
  /\ ok' = [ok EXCEPT ![p] = TRUE]
  /\ snapshot' = [snapshot EXCEPT ![p] = {}]
  /\ pc' = [pc EXCEPT ![p] = "take"]
  /\ UNCHANGED <<executions, records, lost, unpublished, published, events, ledger, accepted>>
  /\ UNCHANGED <<cur, batch, telling, joins>>

SaveFailsHolding(p) ==   \* mutant: the error path keeps jobExitSaveMu
  /\ pc[p] = "write"
  /\ pending' = TRUE
  /\ ok' = [ok EXCEPT ![p] = FALSE]
  /\ snapshot' = [snapshot EXCEPT ![p] = {}]
  /\ errs' = IF p \in Joiners /\ cur[p] = None THEN [errs EXCEPT ![p] = TRUE] ELSE errs
  /\ pc' = [pc EXCEPT ![p] = AfterSave(p)]
  /\ UNCHANGED <<executions, records, lost, unpublished, published, lock, outside>>
  /\ UNCHANGED <<cur, batch, telling, todo, joining, joined>>

SaveFails(p) ==
  /\ pc[p] = "write"
  /\ lock' = None
  /\ pending' = TRUE
  /\ ok' = [ok EXCEPT ![p] = FALSE]
  /\ snapshot' = [snapshot EXCEPT ![p] = {}]
  /\ errs' = IF p \in Joiners /\ cur[p] = None THEN [errs EXCEPT ![p] = TRUE] ELSE errs
  /\ pc' = [pc EXCEPT ![p] = AfterSave(p)]
  /\ UNCHANGED <<executions, records, lost, unpublished, published, outside>>
  /\ UNCHANGED <<cur, batch, telling, todo, joining, joined>>

\* publishPendingJobExits takes everything that waits, whoever queued it.
TakeOwn(p) ==   \* mutant: the queue is cleared, but only p's own completion kept
  /\ pc[p] = "take" /\ lock = None
  /\ batch' = [batch EXCEPT ![p] = unpublished \cap {cur[p]}]
  /\ unpublished' = {}
  /\ pc' = [pc EXCEPT ![p] = "announce"]
  /\ UNCHANGED <<executions, records, lost, published, pending, lock, outside>>
  /\ UNCHANGED <<cur, snapshot, telling, ok, joins>>

Take(p) ==
  /\ pc[p] = "take" /\ lock = None
  /\ batch' = [batch EXCEPT ![p] = unpublished]
  /\ unpublished' = {}
  /\ pc' = [pc EXCEPT ![p] = "announce"]
  /\ UNCHANGED <<executions, records, lost, published, pending, lock, outside>>
  /\ UNCHANGED <<cur, snapshot, telling, ok, joins>>

\* publishEvent, then the mark, one completion after the other.
Announce(p, e) ==
  /\ pc[p] = "announce" /\ e \in batch[p]
  /\ events' = [events EXCEPT ![e] = IF @ = 2 THEN 2 ELSE @ + 1]
  /\ batch' = [batch EXCEPT ![p] = @ \ {e}]
  /\ telling' = [telling EXCEPT ![p] = e]
  /\ pc' = [pc EXCEPT ![p] = "mark"]
  /\ UNCHANGED <<executions, state, stored, ledger, accepted, cur, snapshot, ok, joins>>

Mark(p) ==
  /\ pc[p] = "mark" /\ lock = None
  /\ published' = published \cup {telling[p]}
  /\ telling' = [telling EXCEPT ![p] = None]
  /\ pc' = [pc EXCEPT ![p] = "announce"]
  /\ UNCHANGED <<executions, records, lost, unpublished, pending, lock, outside>>
  /\ UNCHANGED <<cur, snapshot, batch, ok, joins>>

Announced(p) ==
  /\ pc[p] = "announce" /\ batch[p] = {}
  /\ pc' = [pc EXCEPT ![p] = AfterSave(p)]
  /\ UNCHANGED <<executions, state, outside, adding, joins>>

\* reportSettlement keeps or clears the ledger entry; a runner then gives its
\* lease back, and a joiner goes on with the next entry.
Settle(p) ==
  /\ pc[p] = "ledger"
  /\ ledger' = IF ok[p] THEN ledger \ {cur[p]} ELSE ledger \cup {cur[p]}
  /\ accepted' = IF ok[p] THEN accepted \cup {cur[p]} ELSE accepted
  /\ \/ /\ p \in Execs
        /\ phase' = [phase EXCEPT ![p] = "settled"]
        /\ pc' = [pc EXCEPT ![p] = "idle"]
     \/ /\ p \in Joiners
        /\ pc' = [pc EXCEPT ![p] = "offer"]
        /\ UNCHANGED phase
  /\ cur' = [cur EXCEPT ![p] = None]
  /\ ok' = [ok EXCEPT ![p] = FALSE]
  /\ UNCHANGED <<audited, ended, state, stored, events, snapshot, batch, telling, joins>>

-----------------------------------------------------------------------------
\* WaitForEnd, Quiesce: the joiners.

Drained == ended /\ \A e \in Execs : phase[e] # "running"

\* RetryJobExitSaves: at the start of a pass, and again after the join, when
\* what it returns counts.  Nothing pending is success without a write.
RetrySaves(k, afterJoin) ==
  /\ pc[k] = "idle" /\ ended
  /\ afterJoin => Drained
  /\ pc' = [pc EXCEPT ![k] = IF pending THEN "save" ELSE "saved"]
  /\ joining' = [joining EXCEPT ![k] = afterJoin]
  /\ UNCHANGED <<executions, state, outside, adding, todo, errs, joined>>

\* The early retry is done: the pass goes on to its join.
ReturnEarly(k) ==
  /\ pc[k] = "saved" /\ ~joining[k]
  /\ pc' = [pc EXCEPT ![k] = "idle"]
  /\ errs' = [errs EXCEPT ![k] = FALSE]
  /\ UNCHANGED <<executions, state, outside, adding, todo, joining, joined>>

\* RetrySettlements copies the ledger and offers every entry again.
CopyLedgerAway(k) ==   \* mutant: the entries leave the ledger before they are offered
  /\ pc[k] = "saved" /\ joining[k]
  /\ todo' = [todo EXCEPT ![k] = ledger]
  /\ ledger' = {}
  /\ pc' = [pc EXCEPT ![k] = "offer"]
  /\ UNCHANGED <<executions, state, stored, events, accepted, adding, joining, errs, joined>>

CopyLedger(k) ==
  /\ pc[k] = "saved" /\ joining[k]
  /\ todo' = [todo EXCEPT ![k] = ledger]
  /\ pc' = [pc EXCEPT ![k] = "offer"]
  /\ UNCHANGED <<executions, state, outside, adding, joining, errs, joined>>

Offer(k, e) ==
  /\ pc[k] = "offer" /\ e \in todo[k]
  /\ todo' = [todo EXCEPT ![k] = @ \ {e}]
  /\ cur' = [cur EXCEPT ![k] = e]
  /\ pc' = [pc EXCEPT ![k] = "record"]
  /\ UNCHANGED <<executions, state, outside, snapshot, batch, telling, ok, joining, errs, joined>>

\* The pass reports what its save retry and the ledger say.
JoinAssumes(k) ==   \* mutant: the errors are logged and forgotten
  /\ pc[k] = "offer" /\ todo[k] = {}
  /\ joined' = [joined EXCEPT ![k] = "ok"]
  /\ pc' = [pc EXCEPT ![k] = "idle"]
  /\ joining' = [joining EXCEPT ![k] = FALSE] /\ errs' = [errs EXCEPT ![k] = FALSE]
  /\ UNCHANGED <<executions, state, outside, adding, todo>>

JoinReports(k) ==
  /\ pc[k] = "offer" /\ todo[k] = {}
  /\ joined' = [joined EXCEPT ![k] = IF errs[k] \/ ledger # {} THEN "failed" ELSE "ok"]
  /\ pc' = [pc EXCEPT ![k] = "idle"]
  /\ joining' = [joining EXCEPT ![k] = FALSE] /\ errs' = [errs EXCEPT ![k] = FALSE]
  /\ UNCHANGED <<executions, state, outside, adding, todo>>

-----------------------------------------------------------------------------
\* The process ends wherever it is and the session is resumed: the stored list
\* comes back, and a start that was audited and has no exit in it is lost.
\* loadJobExitsLocked logs a load that fails and goes on with an empty list.
Restart(loaded) ==
  /\ ~loaded => LoadMayFail
  /\ records' = IF loaded THEN stored ELSE {}
  /\ lost' = audited \ records'
  /\ phase' = [e \in Execs |-> IF phase[e] = "new" THEN "new" ELSE "dead"]
  /\ ended' = FALSE
  /\ unpublished' = {} /\ published' = {} /\ pending' = FALSE /\ lock' = None
  /\ ledger' = {}
  /\ pc' = [p \in Threads |-> "idle"]
  /\ cur' = [p \in Threads |-> None]
  /\ snapshot' = [p \in Threads |-> {}]
  /\ batch' = [p \in Threads |-> {}]
  /\ telling' = [p \in Threads |-> None]
  /\ ok' = [p \in Threads |-> FALSE]
  /\ todo' = [k \in Joiners |-> {}]
  /\ joining' = [k \in Joiners |-> FALSE]
  /\ errs' = [k \in Joiners |-> FALSE]
  /\ joined' = [k \in Joiners |-> "none"]
  /\ UNCHANGED <<audited, stored, events, accepted>>

-----------------------------------------------------------------------------
Add(p) ==
  \/ Record(p) \/ Queue(p) \/ BeginSave(p) \/ SaveSucceeds(p) \/ SaveFails(p)
  \/ Take(p) \/ (\E e \in Execs : Announce(p, e)) \/ Mark(p) \/ Announced(p) \/ Settle(p)

Join(k) ==
  \/ ReturnEarly(k) \/ CopyLedger(k) \/ (\E e \in Execs : Offer(k, e)) \/ JoinReports(k)

Next ==
  \/ \E e \in Execs : Launch(e) \/ Audit(e) \/ Report(e)
  \/ AcceptEnd
  \/ \E p \in Threads : Add(p)
  \/ \E k \in Joiners : Join(k) \/ \E afterJoin \in BOOLEAN : RetrySaves(k, afterJoin)
  \/ \E loaded \in BOOLEAN : Restart(loaded)

Spec == Init /\ [][Next]_vars

\* A thread runs on, and sync.Mutex starves nobody for ever.
FairSpec ==
  /\ Spec
  /\ \A p \in Threads : SF_vars(Add(p))
  /\ \A k \in Joiners : WF_vars(Join(k))

-----------------------------------------------------------------------------
\* Safety.

\* A completion AddJobExit returned nil for is stored, and neither another save
\* nor a restart takes it away: the copy and the write of the list are one
\* section of jobExitSaveMu (persistJobExits).
AcceptedSurvives == accepted \subseteq stored

\* A recorded completion that is not stored has somebody who will store it: the
\* call that recorded it, a writer that copied it, or the retry the pending mark
\* asks for (persistJobExits clears the mark only with a copy that has them all).
NothingForgotten ==
  \A e \in records \ stored :
    \/ pending
    \/ \E p \in Threads : cur[p] = e /\ pc[p] \in {"queue", "save", "write"}
    \/ \E p \in Threads : pc[p] = "write" /\ e \in snapshot[p]

\* A join pass that reports success leaves nothing undurable: whatever settled
\* is stored before the database may close (joinEndWork).
JoinFinalizes ==
  \A k \in Joiners : joined[k] = "ok" => records \subseteq stored

\* A recorded completion is announced or owed: it waits in the queue, in the
\* batch of some publisher, or for the call that recorded it to queue it.  (After
\* a resume the stored ones are restored, not announced.)
AnnouncementOwed ==
  \A e \in records :
    \/ phase[e] = "dead" \/ events[e] > 0 \/ e \in unpublished
    \/ \E p \in Threads : e \in batch[p] \/ (cur[p] = e /\ pc[p] = "queue")

\* The session's list is a sink of the kind the command service relies on.
SinkOf(e) ==
  IF e \in accepted \cap stored THEN "stored"
  ELSE IF phase[e] = "dead" THEN "gone"
  ELSE IF e \in ledger THEN "failed"
  ELSE "none"

Sink == INSTANCE ExitSink WITH Completions <- Execs, sink <- [e \in Execs |-> SinkOf(e)]
ImplementsExitSink == Sink!Spec

\* Liveness: a completion that is being added gets its answer, whatever the other
\* writers, publishers and retries do, unless the process ends first.
AddReturns ==
  \A e \in Execs : pc[e] = "record" ~> phase[e] \in {"settled", "dead"}

-----------------------------------------------------------------------------
\* What the code's own words promise and its steps do not.

\* publishPendingJobExits' comment: nothing it announces claims an outcome the
\* session cannot restore.
AnnouncedIsStored == \A e \in Execs : events[e] > 0 => e \in stored

\* The same comment: each identity is announced at most once.
AnnouncedOnce == \A e \in Execs : events[e] <= 1

\* AddJobExit's comment: a client that reacts to the event can read the outcome
\* back after a restart.
AnnouncedNeverLost == \A e \in lost : events[e] = 0
=============================================================================
