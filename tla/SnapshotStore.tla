--------------------------- MODULE SnapshotStore ---------------------------
(***************************************************************************)
(* The snapshot store of one workspace (internal/snapshot): generations of *)
(* a Git-like repository, the manifest that describes them, and the old    *)
(* store whose history may be migrated.                                    *)
(*                                                                         *)
(* Whoever holds the store lock runs one operation: a capture, a cleanup,  *)
(* a retention pass, a migration or a discard.  An action is the work up   *)
(* to one durable write, so that Crash, which also stands for an error     *)
(* return, may come between any two of them and leaves what is on disk.    *)
(* A manifest is replaced atomically.  Sizes and times are abstracted: any *)
(* capture may or may not fit, and a snapshot expires at some time.        *)
(***************************************************************************)
EXTENDS Naturals

CONSTANTS
  MaxGens,     \* bound: generations ever created
  Native,      \* snapshots that captures make
  Legacy,      \* snapshots of the old store
  MaxFaults,   \* bound: crashes and failures
  None

ASSUME StoreAssumption ==
  /\ MaxGens \in Nat /\ MaxFaults \in Nat
  /\ Native \cap Legacy = {}
  /\ None \notin Native /\ None \notin 1..MaxGens

Gens == 1..MaxGens
Snaps == Native \cup Legacy

VARIABLES
  \* the manifest
  state,       \* of a generation's record, "none" when it is not listed
  protected,   \* records of protected generations
  activeId, nextGen,
  capGen, capHash,   \* the in-flight capture: its generation and intent
  \* the directories
  repo,        \* of a generation: "absent", "partial" or "ready"
  objs, refs,  \* snapshots whose objects it holds, and those it publishes
  legacyAt,    \* the old store: "store", "remnant" (renamed aside) or "gone"
  \* the operation that holds the lock
  job, pc, target, hash, then,
  \* operators who are asked, without the lock, to confirm
  toDiscard, toChange,
  expired,     \* snapshots older than the retention limit
  faults,
  \* history
  published, givenUp, discarded

manifest == <<state, protected, activeId, nextGen>>
capture == <<capGen, capHash>>
disk == <<repo, objs, refs, legacyAt>>
asked == <<toDiscard, toChange>>
history == <<published, givenUp, discarded>>
vars == <<manifest, capture, disk, job, pc, target, hash, then, asked, expired, faults, history>>

Points == {"idle", "resolve", "record", "seal", "missing", "sweep", "remove", "unlink", "forget",
           "admit", "init", "config", "activate", "reserve", "write", "intent", "publish", "rotate",
           "copy", "share", "archive", "verify", "drop", "expire", "mark"}

TypeOK ==
  /\ state \in [Gens -> {"none", "creating", "active", "sealed", "deleting"}]
  /\ protected \subseteq Gens /\ activeId \in Gens \cup {None} /\ nextGen \in 1..(MaxGens + 1)
  /\ capGen \in Gens \cup {None} /\ capHash \in Native \cup {None}
  /\ repo \in [Gens -> {"absent", "partial", "ready"}]
  /\ objs \in [Gens -> SUBSET Snaps] /\ refs \in [Gens -> SUBSET Snaps]
  /\ legacyAt \in {"store", "remnant", "gone"}
  /\ job \in {"none", "capture", "cleanup", "prune", "migrate", "discard"} /\ pc \in Points
  /\ target \in Gens \cup {None} /\ hash \in Native \cup {None}
  /\ then \in {"none", "sweep", "admit", "expire", "end", "recover", "failed", "rotate"}
  /\ toDiscard \subseteq Gens /\ toChange \subseteq {"migrate", "reset"}
  /\ expired \subseteq Native /\ faults \in 0..MaxFaults
  /\ published \subseteq Native /\ givenUp \subseteq Native /\ discarded \subseteq Legacy

Init ==
  /\ state = [g \in Gens |-> "none"] /\ protected = {} /\ activeId = None /\ nextGen = 1
  /\ capGen = None /\ capHash = None
  /\ repo = [g \in Gens |-> "absent"]
  /\ objs = [g \in Gens |-> {}] /\ refs = [g \in Gens |-> {}]
  /\ legacyAt \in {"store", "gone"}
  /\ job = "none" /\ pc = "idle" /\ target = None /\ hash = None /\ then = "none"
  /\ toDiscard = {} /\ toChange = {} /\ expired = {} /\ faults = 0
  /\ published = {} /\ givenUp = {}
  /\ discarded = IF legacyAt = "gone" THEN Legacy ELSE {}
-----------------------------------------------------------------------------
Usable(g) == state[g] \in {"active", "sealed"}
NoneProtected(g) == FALSE   \* mutant
IsProtected(g) == g \in protected
HasRefs(g) == repo[g] = "ready" /\ refs[g] # {}

\* A lookup finds a snapshot in the active generation first, then in the others in
\* the order they were created.
Holders(s) == {g \in Gens : Usable(g) /\ repo[g] = "ready" /\ s \in refs[g]}
Locates(g, s) ==
  /\ g \in Holders(s)
  /\ g = activeId \/ (activeId \notin Holders(s) /\ \A k \in Holders(s) : g <= k)

Findable(s) ==
  \/ s \in Legacy /\ legacyAt = "store"
  \/ \E g \in Holders(s) : s \in objs[g]

SealOnly(g) ==   \* mutant
  /\ state' = [state EXCEPT ![g] = "sealed"]
  /\ UNCHANGED activeId
Seal(g) ==
  /\ state' = [state EXCEPT ![g] = "sealed"]
  /\ activeId' = IF activeId = g THEN None ELSE activeId

MarkDeleting(g) ==
  /\ ~IsProtected(g)
  /\ state' = [state EXCEPT ![g] = "deleting"]
  /\ activeId' = IF activeId = g THEN None ELSE activeId

\* The operation goes on at p with g, and leaves with End.
Go(p, g) == pc' = p /\ target' = g
End == job' = "none" /\ pc' = "idle" /\ target' = None /\ hash' = None /\ then' = "none"
-----------------------------------------------------------------------------
(* Captures and cleanups reconcile first. *)
BeginReconcile(j) ==
  /\ pc = "idle" /\ j \in {"capture", "cleanup"}
  /\ job' = j /\ pc' = "resolve"
  /\ UNCHANGED <<manifest, capture, disk, target, hash, then, asked, expired, faults, history>>

\* reconcileCapture: the ref decides.  What it stages is measured before the
\* record is cleared; the generation is sealed, if at all, afterwards.
Interrupted ==
  /\ state[capGen] \in {"active", "creating"} /\ ~IsProtected(capGen)
  /\ IF capHash # None /\ repo[capGen] = "ready" /\ capHash \in refs[capGen]
     THEN state[capGen] = "creating"
     ELSE repo[capGen] = "ready" /\ objs[capGen] # refs[capGen]

NoIntentRecover ==   \* mutant
  /\ pc = "resolve"
  /\ IF capHash = None THEN Go("missing", None) /\ UNCHANGED then
     ELSE Go("record", IF Interrupted THEN capGen ELSE None) /\ then' = "recover"
  /\ UNCHANGED <<manifest, capture, disk, job, hash, asked, expired, faults, history>>
ResolveCapture ==
  /\ pc = "resolve"
  /\ IF capGen = None THEN Go("missing", None) /\ UNCHANGED then
     ELSE Go("record", IF Interrupted THEN capGen ELSE None) /\ then' = "recover"
  /\ UNCHANGED <<manifest, capture, disk, job, hash, asked, expired, faults, history>>

\* ClearCapture, for a reconciliation, a failed capture and a published one.
ClearCapture ==
  /\ pc = "record"
  /\ capGen' = None /\ capHash' = None
  /\ CASE then = "recover" /\ target # None -> Go("seal", target) /\ UNCHANGED <<job, hash, then>>
       [] then = "recover" /\ target = None -> Go("missing", None) /\ UNCHANGED <<job, hash, then>>
       [] then = "rotate" -> Go("rotate", target) /\ UNCHANGED <<job, hash, then>>
       [] OTHER -> End
  /\ UNCHANGED <<manifest, disk, asked, expired, faults, history>>

SealInterrupted ==
  /\ pc = "seal"
  /\ Seal(target) /\ Go("missing", None)
  /\ UNCHANGED <<protected, nextGen, capture, disk, job, hash, then, asked, expired, faults, history>>

\* Its record is all that is left of a generation.
Lost(g) ==
  /\ repo[g] = "absent"
  /\ state[g] = "deleting" \/ (state[g] = "creating" /\ ~IsProtected(g))

ForgetMissing(g) ==
  /\ pc = "missing" /\ Lost(g)
  /\ state' = [state EXCEPT ![g] = "none"]
  /\ UNCHANGED <<protected, activeId, nextGen, capture, disk, job, pc, target, hash, then, asked,
                 expired, faults, history>>

MissingDone ==
  /\ pc = "missing" /\ \A g \in Gens : ~Lost(g)
  /\ pc' = "sweep"
  /\ UNCHANGED <<manifest, capture, disk, job, target, hash, then, asked, expired, faults, history>>

\* Refs win: an unfinished generation that published something is sealed.
SealUnfinished(g) ==
  /\ pc = "sweep" /\ state[g] = "creating" /\ HasRefs(g)
  /\ Seal(g)
  /\ UNCHANGED <<protected, nextGen, capture, disk, job, pc, target, hash, then, asked, expired,
                 faults, history>>

Dead(g) ==
  \/ state[g] = "deleting"
  \/ state[g] = "creating" /\ ~HasRefs(g) /\ ~IsProtected(g)

\* finishDeletion.
FinishDeletion(g) ==
  /\ pc = "sweep" /\ Dead(g) /\ MarkDeleting(g)
  /\ Go("remove", g) /\ then' = "sweep"
  /\ UNCHANGED <<protected, nextGen, capture, disk, job, hash, asked, expired, faults, history>>

SweepDone ==
  /\ pc = "sweep"
  /\ \A g \in Gens : ~Dead(g) /\ ~(state[g] = "creating" /\ HasRefs(g))
  /\ pc' = IF job = "capture" THEN "admit" ELSE "expire"
  /\ UNCHANGED <<manifest, capture, disk, job, target, hash, then, asked, expired, faults, history>>
-----------------------------------------------------------------------------
(* Removing a generation: marked already, then the directory, then the record. *)
RemoveSome ==
  /\ pc = "remove"
  /\ repo' = [repo EXCEPT ![target] = IF @ = "absent" THEN @ ELSE "partial"]
  /\ pc' = "unlink"
  /\ UNCHANGED <<manifest, capture, objs, refs, legacyAt, job, target, hash, then, asked, expired,
                 faults, history>>

RemoveRest ==
  /\ pc = "unlink"
  /\ repo' = [repo EXCEPT ![target] = "absent"]
  /\ objs' = [objs EXCEPT ![target] = {}] /\ refs' = [refs EXCEPT ![target] = {}]
  /\ pc' = "forget"
  /\ UNCHANGED <<manifest, capture, legacyAt, job, target, hash, then, asked, expired, faults, history>>

\* Save refuses a manifest whose capture names an unlisted generation; a
\* retention pass goes on with the next one.
ForgetGeneration ==
  /\ pc = "forget"
  /\ state' = IF capGen = target THEN state ELSE [state EXCEPT ![target] = "none"]
  /\ IF then = "end" THEN End ELSE Go(then, None) /\ then' = "none" /\ UNCHANGED <<job, hash>>
  /\ UNCHANGED <<protected, activeId, nextGen, capture, disk, asked, expired, faults, history>>
-----------------------------------------------------------------------------
(* Admission. *)
Reclaimable(g) == state[g] = "sealed" /\ activeId # g /\ ~IsProtected(g)

\* ReclaimForAdmission: the capture does not fit.
ReclaimForAdmission(g) ==
  /\ pc = "admit" /\ Reclaimable(g) /\ MarkDeleting(g)
  /\ givenUp' = givenUp \cup (refs[g] \cap Native)
  /\ Go("remove", g) /\ then' = "admit"
  /\ UNCHANGED <<protected, nextGen, capture, disk, job, hash, asked, expired, faults, published,
                 discarded>>

RefuseCapture ==
  /\ pc = "admit" /\ End
  /\ UNCHANGED <<manifest, capture, disk, asked, expired, faults, history>>

\* The next generation's record, before it has a repository.
CreateRecord(guarded) ==
  /\ nextGen <= MaxGens
  /\ nextGen' = nextGen + 1
  /\ state' = [state EXCEPT ![nextGen] = "creating"]
  /\ protected' = IF guarded THEN protected \cup {nextGen} ELSE protected
  /\ UNCHANGED activeId

\* rotateToReplacement: there is no active generation, or it is at its target.
Rotate ==
  /\ pc = "admit" /\ CreateRecord(FALSE) /\ Go("init", nextGen)
  /\ UNCHANGED <<capture, disk, job, hash, then, asked, expired, faults, history>>

\* InitGenerationRepo, for a capture and for a migration.
InitDirectory ==
  /\ pc = "init" /\ repo' = [repo EXCEPT ![target] = "partial"] /\ pc' = "config"
  /\ UNCHANGED <<manifest, capture, objs, refs, legacyAt, job, target, hash, then, asked, expired,
                 faults, history>>

InitMetadata ==
  /\ pc = "config" /\ repo' = [repo EXCEPT ![target] = "ready"]
  /\ pc' = IF job = "migrate" THEN "copy" ELSE "activate"
  /\ UNCHANGED <<manifest, capture, objs, refs, legacyAt, job, target, hash, then, asked, expired,
                 faults, history>>

\* The previous active generation is sealed by the same write.
ActivateGeneration ==
  /\ pc = "activate"
  /\ state' = [g \in Gens |-> IF g = target THEN "active" ELSE IF g = activeId THEN "sealed" ELSE state[g]]
  /\ activeId' = target /\ Go("admit", None)
  /\ UNCHANGED <<protected, nextGen, capture, disk, job, hash, then, asked, expired, faults, history>>
-----------------------------------------------------------------------------
(* The capture. *)
ReserveStaging ==
  /\ pc = "admit" /\ activeId # None /\ ~IsProtected(activeId) /\ capGen = None
  /\ capGen' = activeId /\ Go("write", activeId)
  /\ UNCHANGED <<manifest, capHash, disk, job, hash, then, asked, expired, faults, history>>

WriteObjects(s) ==
  /\ pc = "write"
  /\ objs' = [objs EXCEPT ![target] = @ \cup {s}] /\ hash' = s /\ pc' = "intent"
  /\ UNCHANGED <<manifest, capture, repo, refs, legacyAt, job, target, then, asked, expired, faults,
                 history>>

SetPublicationIntent ==
  /\ pc = "intent" /\ capHash' = hash /\ pc' = "publish"
  /\ UNCHANGED <<manifest, capGen, disk, job, target, hash, then, asked, expired, faults, history>>

WriteRef ==
  /\ refs' = [refs EXCEPT ![target] = @ \cup {hash}]
  /\ published' = published \cup {hash} /\ givenUp' = givenUp \ {hash}

PublishRef ==
  /\ pc = "publish" /\ WriteRef /\ pc' = "record" /\ then' = "rotate"
  /\ UNCHANGED <<manifest, capture, repo, objs, legacyAt, job, target, hash, asked, expired, faults,
                 discarded>>

\* captureToGeneration fails before the ref, or after it was renamed into place;
\* either way the record is cleared.
FailCapture ==
  /\ pc \in {"write", "intent", "publish"} /\ faults < MaxFaults
  /\ faults' = faults + 1 /\ pc' = "record" /\ then' = "failed"
  /\ \/ UNCHANGED <<refs, published, givenUp>>
     \/ pc = "publish" /\ WriteRef
  /\ UNCHANGED <<manifest, capture, repo, objs, legacyAt, job, target, hash, asked, expired, discarded>>

\* An outgrown generation is sealed after its snapshot is published.
FinishCapture ==
  /\ pc = "rotate" /\ End
  /\ Seal(target) \/ UNCHANGED <<state, activeId>>
  /\ UNCHANGED <<protected, nextGen, capture, disk, asked, expired, faults, history>>
-----------------------------------------------------------------------------
(* Retention: Prune does not reconcile first, a cleanup did. *)
BeginPrune ==
  /\ pc = "idle" /\ job' = "prune" /\ pc' = "expire"
  /\ UNCHANGED <<manifest, capture, disk, target, hash, then, asked, expired, faults, history>>

\* A pass compares every age with one cutoff, so none changes during it.
Expire(s) ==
  /\ pc = "idle" /\ s \in published \ expired /\ expired' = expired \cup {s}
  /\ UNCHANGED <<manifest, capture, disk, job, pc, target, hash, then, asked, faults, history>>

SomeExpired(g) == refs[g] = {} \/ refs[g] \cap expired # {}   \* mutant
AllExpired(g) == refs[g] \subseteq expired

SealExpired(g) ==
  /\ pc = "expire" /\ state[g] = "active" /\ ~IsProtected(g) /\ refs[g] # {} /\ AllExpired(g)
  /\ Seal(g)
  /\ UNCHANGED <<protected, nextGen, capture, disk, job, pc, target, hash, then, asked, expired,
                 faults, history>>

\* What it gives up is what has expired.
ReclaimExpired(g) ==
  /\ pc = "expire" /\ Reclaimable(g) /\ AllExpired(g) /\ MarkDeleting(g)
  /\ givenUp' = givenUp \cup (refs[g] \cap expired)
  /\ Go("remove", g) /\ then' = "expire"
  /\ UNCHANGED <<protected, nextGen, capture, disk, job, hash, asked, expired, faults, published,
                 discarded>>

\* A cleanup also removes what is left of an old store that was renamed aside.
EndRetention ==
  /\ pc = "expire" /\ End
  /\ legacyAt' = IF job = "cleanup" /\ legacyAt = "remnant" THEN "gone" ELSE legacyAt
  /\ UNCHANGED <<manifest, capture, repo, objs, refs, asked, expired, faults, history>>
-----------------------------------------------------------------------------
(* The operator's commands: the question is asked without the lock. *)
AskDiscard(g) ==
  /\ pc = "idle" /\ IsProtected(g) /\ state[g] \notin {"none", "deleting"}
  /\ toDiscard' = toDiscard \cup {g}
  /\ UNCHANGED <<manifest, capture, disk, job, pc, target, hash, then, toChange, expired, faults, history>>

AskChange(q) ==
  /\ pc = "idle" /\ legacyAt = "store" /\ q \in {"migrate", "reset"} /\ toChange' = toChange \cup {q}
  /\ UNCHANGED <<manifest, capture, disk, job, pc, target, hash, then, toDiscard, expired, faults, history>>

\* Refused, or the target is no longer what was shown.
Decline ==
  /\ toDiscard' \in SUBSET toDiscard /\ toChange' \in SUBSET toChange
  /\ UNCHANGED <<manifest, capture, disk, job, pc, target, hash, then, expired, faults, history>>

\* DiscardProtectedGeneration after its answer: protection is lifted first.
ConfirmDiscard(g) ==
  /\ pc = "idle" /\ g \in toDiscard /\ state[g] # "none"
  /\ toDiscard' = toDiscard \ {g}
  /\ protected' = protected \ {g} /\ discarded' = discarded \cup (refs[g] \cap Legacy)
  /\ job' = "discard" /\ Go("mark", g)
  /\ UNCHANGED <<state, activeId, nextGen, capture, disk, hash, then, toChange, expired, faults,
                 published, givenUp>>

MarkDiscarded ==
  /\ pc = "mark" /\ MarkDeleting(target) /\ pc' = "remove" /\ then' = "end"
  /\ UNCHANGED <<protected, nextGen, capture, disk, job, target, hash, asked, expired, faults, history>>

\* ResetWorkspace after its answer.
ConfirmReset ==
  /\ pc = "idle" /\ "reset" \in toChange /\ legacyAt = "store"
  /\ toChange' = toChange \ {"reset"}
  /\ legacyAt' = "remnant" /\ discarded' = Legacy
  /\ UNCHANGED <<manifest, capture, repo, objs, refs, job, pc, target, hash, then, toDiscard, expired,
                 faults, published, givenUp>>

\* MigrateWorkspace after its answer: the archive is protected from the start.
ConfirmMigrate ==
  /\ pc = "idle" /\ "migrate" \in toChange /\ legacyAt = "store"
  /\ toChange' = toChange \ {"migrate"}
  /\ CreateRecord(TRUE) /\ job' = "migrate" /\ Go("init", nextGen)
  /\ UNCHANGED <<capture, disk, hash, then, toDiscard, expired, faults, history>>

CopyObjects ==
  /\ pc = "copy"
  /\ \/ \E h \in Legacy \ objs[target] :
          objs' = [objs EXCEPT ![target] = @ \cup {h}] /\ UNCHANGED pc
     \/ Legacy \subseteq objs[target] /\ pc' = "share" /\ UNCHANGED objs
  /\ UNCHANGED <<manifest, capture, repo, refs, legacyAt, job, target, hash, then, asked, expired,
                 faults, history>>

PublishMigrated ==
  /\ pc = "share"
  /\ \/ \E h \in Legacy \ refs[target] :
          refs' = [refs EXCEPT ![target] = @ \cup {h}] /\ UNCHANGED pc
     \/ Legacy \subseteq refs[target] /\ pc' = "archive" /\ UNCHANGED refs
  /\ UNCHANGED <<manifest, capture, repo, objs, legacyAt, job, target, hash, then, asked, expired,
                 faults, history>>

SealArchive ==
  /\ pc = "archive" /\ Seal(target) /\ pc' = "verify"
  /\ UNCHANGED <<protected, nextGen, capture, disk, job, target, hash, then, asked, expired, faults,
                 history>>

\* verifyMigratedHashes.
Verified == \A h \in Legacy : \E g \in protected : Locates(g, h)

RemoveDuplicate ==
  /\ pc = "verify"
  /\ IF Verified THEN legacyAt' = "remnant" /\ pc' = "drop" /\ UNCHANGED <<job, target, hash, then>>
     ELSE End /\ UNCHANGED legacyAt
  /\ UNCHANGED <<manifest, capture, repo, objs, refs, asked, expired, faults, history>>

DropDuplicate ==
  /\ pc = "drop" /\ legacyAt' = "gone" /\ End
  /\ UNCHANGED <<manifest, capture, repo, objs, refs, asked, expired, faults, history>>
-----------------------------------------------------------------------------
\* Errors an operation goes on after: a removal that a reclaiming pass leaves
\* marked, and a seal that a reconciliation skips (noteDirtyGeneration).
StepFails ==
  /\ faults < MaxFaults /\ faults' = faults + 1
  /\ \/ pc \in {"remove", "unlink", "forget"} /\ then \in {"admit", "expire"}
        /\ Go(then, None) /\ then' = "none"
     \/ pc = "seal" /\ state[target] = "active" /\ Go("missing", None) /\ UNCHANGED then
  /\ UNCHANGED <<manifest, capture, disk, job, hash, asked, expired, history>>

\* The process dies, or the operation returns an error, between two writes.
Crash ==
  /\ pc # "idle" /\ faults < MaxFaults /\ faults' = faults + 1 /\ End
  /\ UNCHANGED <<manifest, capture, disk, asked, expired, history>>

Reconcile ==
  \/ ResolveCapture \/ SealInterrupted \/ MissingDone \/ SweepDone
  \/ \E g \in Gens : ForgetMissing(g) \/ SealUnfinished(g) \/ FinishDeletion(g)
Remove == RemoveSome \/ RemoveRest \/ ForgetGeneration
Capture ==
  \/ RefuseCapture \/ Rotate \/ InitDirectory \/ InitMetadata \/ ActivateGeneration
  \/ \E g \in Gens : ReclaimForAdmission(g)
  \/ ReserveStaging \/ \E s \in Native : WriteObjects(s)
  \/ SetPublicationIntent \/ PublishRef \/ ClearCapture \/ FinishCapture
Retain == EndRetention \/ \E g \in Gens : SealExpired(g) \/ ReclaimExpired(g)
Migrate ==
  CopyObjects \/ PublishMigrated \/ SealArchive \/ RemoveDuplicate \/ DropDuplicate \/ MarkDiscarded

\* The step of the operation that holds the lock.
Work == Reconcile \/ Remove \/ Capture \/ Retain \/ Migrate
Operator ==
  \/ \E g \in Gens : AskDiscard(g) \/ ConfirmDiscard(g)
  \/ \E q \in {"migrate", "reset"} : AskChange(q)
  \/ Decline \/ ConfirmReset \/ ConfirmMigrate

Next ==
  \/ Work \/ Operator \/ FailCapture \/ StepFails \/ Crash \/ BeginPrune
  \/ \E j \in {"capture", "cleanup"} : BeginReconcile(j)
  \/ \E s \in Native : Expire(s)

Spec == Init /\ [][Next]_vars

\* An operation runs on, and somebody captures or cleans up again.
FairSpec == Spec /\ WF_vars(Work) /\ SF_vars(\E j \in {"capture", "cleanup"} : BeginReconcile(j))
-----------------------------------------------------------------------------
\* A snapshot whose ref was written stays a rollback target, wherever the process
\* died, until retention (all of its generation has expired) or an admission
\* gives its generation up ("a durable published ref wins", reconcileCapture).
KeptOrGivenUp == \A s \in published : s \in givenUp \/ Findable(s)

\* The history of the old store is in a place where it is found, and no budget
\* touches it, until an operator discards it (MigrateWorkspace's order).
ArchiveKept == \A h \in Legacy : h \in discarded \/ Findable(h)

\* The capture target stands while it is written to: it is the active generation,
\* its repository is whole, and the in-flight record names it; a ref never names
\* what was not written (AdmitCapture, ReclaimForAdmission's exclusions).
TargetStands ==
  /\ activeId # None => repo[activeId] = "ready" /\ state[activeId] = "active"
  /\ pc \in {"write", "intent", "publish"} => activeId = target /\ capGen = target
  /\ \A g \in Gens : Usable(g) => refs[g] \subseteq objs[g]

\* A capture is admitted over a store without an interrupted capture or creation:
\* those are resolved first, in that order (ReconcileWorkspace before
\* admissionTarget; reconcileCapture before reconcileGenerations).
AdmittedClean ==
  pc = "admit" =>
    /\ capGen = None
    /\ \A g \in Gens : state[g] = "creating" => IsProtected(g) /\ ~HasRefs(g)

\* What an interruption leaves does not stay: the in-flight record, a removal that
\* was decided and a creation that was not finished are resolved by some later
\* pass, in whatever order prunes, discards and captures come.
StoreRecovers ==
  capGen # None \/ (\E g \in Gens : state[g] = "deleting" \/ (state[g] = "creating" /\ ~IsProtected(g)))
    ~> capGen = None /\ \A g \in Gens : state[g] # "deleting" /\ (state[g] = "creating" => IsProtected(g))

\* Objects an interrupted capture left are never written next to: their generation
\* is sealed by the reconciliation before the next capture.
StrandedIsSealed ==
  pc = "admit" /\ activeId # None => objs[activeId] \subseteq refs[activeId]
=============================================================================
