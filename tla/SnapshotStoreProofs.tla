------------------------ MODULE SnapshotStoreProofs ------------------------
(***************************************************************************)
(* Theorems about SnapshotStore, for any number of generations, snapshots  *)
(* and failures: no write order and no crash loses a rollback target, the  *)
(* migrated history stays where no budget reaches it, and a capture only   *)
(* ever writes into the whole, unprotected, active generation.             *)
(***************************************************************************)
EXTENDS SnapshotStore, TLAPS

\* The manifest against the directories: what is usable is whole, a record is made
\* before its directory, and only migrated history is protected, or
\* was when an operator was asked about it.
Records ==
  /\ \A g \in Gens : g >= nextGen =>
       state[g] = "none" /\ repo[g] = "absent" /\ refs[g] = {} /\ g \notin protected \cup toDiscard
  /\ \A g \in Gens : Usable(g) => repo[g] = "ready"
  /\ activeId # None => state[activeId] = "active" /\ activeId \notin protected \cup toDiscard
  /\ \A g \in Gens : refs[g] \subseteq objs[g]
  /\ \A g \in protected \cup toDiscard : refs[g] \subseteq Legacy

Writing == {"write", "intent", "publish"}
Creating == {"init", "config", "activate"}
Copying == {"copy", "share", "archive"}
Removing == {"remove", "unlink", "forget"}
Migrating == {"init", "config", "copy", "share", "archive", "verify", "drop"}

\* What the operation that holds the lock relies on at each of its points.
Held ==
  /\ pc \in Writing => target # None /\ activeId = target /\ capGen = target
  /\ pc \in {"intent", "publish"} => hash # None /\ hash \in objs[target]
  /\ pc = "record" /\ then = "rotate" => target # None /\ activeId = target
  /\ pc = "rotate" => target # None /\ activeId = target
  /\ pc = "record" /\ then = "recover" /\ target # None =>
       repo[target] = "ready" /\ state[target] # "none"
  /\ pc = "seal" => target # None /\ repo[target] = "ready" /\ state[target] # "none"
  /\ pc \in Creating \cup Copying => target # None /\ state[target] = "creating"
  /\ pc \in Creating /\ job # "migrate" => target \notin protected \cup toDiscard
  /\ pc \in Creating \cup Copying /\ job = "migrate" => IsProtected(target)
  /\ pc \in Copying => job = "migrate"
  /\ pc \in {"activate"} \cup Copying => repo[target] = "ready"
  /\ pc \in {"share", "archive"} => Legacy \subseteq objs[target]
  /\ pc = "drop" => legacyAt = "remnant"
  /\ pc \in Removing => target # None /\ state[target] = "deleting"
                        /\ then \in {"sweep", "admit", "expire", "end"}
  /\ pc = "forget" => repo[target] = "absent"
  /\ pc = "mark" => target # None /\ state[target] # "none" /\ ~IsProtected(target)
                    /\ refs[target] \subseteq Legacy
  /\ job = "migrate" => pc \in Migrating

\* Every snapshot that was not given up has a usable generation.
Kept == \A s \in published \ givenUp : \E g \in Gens : Usable(g) /\ s \in refs[g]

\* Once the old store is gone, its history is in protected generations.
Archived ==
  legacyAt # "store" =>
    \A h \in Legacy \ discarded : \E g \in protected : Usable(g) /\ h \in refs[g]

Spared(g) == state[g] = "creating" => IsProtected(g) /\ ~HasRefs(g)

\* What the reconciliation resolved stays resolved until the capture begins.
Resolved ==
  /\ pc \in {"missing", "sweep", "seal", "admit"} => capGen = None
  /\ pc \in Removing /\ then \in {"sweep", "admit"} => capGen = None
  /\ pc \in Creating /\ job # "migrate" => capGen = None
  /\ pc = "admit" \/ (pc \in Removing /\ then = "admit") => \A g \in Gens : Spared(g)
  /\ pc \in Creating /\ job # "migrate" => \A g \in Gens \ {target} : Spared(g)

IInv == TypeOK /\ Records /\ Held /\ Kept /\ Archived /\ Resolved
-----------------------------------------------------------------------------
\* Steps that write neither the manifest's records nor a generation's directory.
Still ==
  \/ UNCHANGED vars
  \/ \E j \in {"capture", "cleanup"} : BeginReconcile(j)
  \/ ResolveCapture
  \/ ClearCapture
  \/ MissingDone
  \/ SweepDone
  \/ RefuseCapture
  \/ ReserveStaging
  \/ SetPublicationIntent
  \/ BeginPrune
  \/ \E s \in Native : Expire(s)
  \/ \E q \in {"migrate", "reset"} : AskChange(q)
  \/ StepFails
  \/ Crash

LEMMA StillFrame ==
  ASSUME Still
  PROVE  UNCHANGED <<state, protected, activeId, nextGen, repo, objs, refs, legacyAt, toDiscard,
                     published, givenUp, discarded>>
  BY DEF Still, vars, Go, End, manifest, disk, asked, history, BeginReconcile,
     ResolveCapture, ClearCapture, MissingDone, SweepDone, RefuseCapture, ReserveStaging,
     SetPublicationIntent, BeginPrune, Expire, AskChange, StepFails, Crash

\* The places an operation names exist where it uses them.
LEMMA TypedStep ==
  ASSUME IInv, [Next]_vars PROVE TypeOK'
<1> USE StoreAssumption DEF IInv, TypeOK, Held, Points, Writing, Creating, Copying,
        Removing, Migrating, IsProtected, Usable, Gens, Snaps, manifest, capture, disk,
        asked, history
<1>1. CASE \E j \in {"capture", "cleanup"} : BeginReconcile(j)
  BY <1>1 DEF BeginReconcile
<1>2. CASE ResolveCapture
  BY <1>2 DEF ResolveCapture, Go, Interrupted
<1>3. CASE ClearCapture
  BY <1>3 DEF ClearCapture, Go, End
<1>4. CASE SealInterrupted
  BY <1>4 DEF SealInterrupted, Go, Seal
<1>5. CASE \E g \in Gens : ForgetMissing(g)
  BY <1>5 DEF ForgetMissing, Lost
<1>6. CASE MissingDone
  BY <1>6 DEF MissingDone
<1>7. CASE \E g \in Gens : SealUnfinished(g)
  BY <1>7 DEF SealUnfinished, Seal, HasRefs
<1>8. CASE \E g \in Gens : FinishDeletion(g)
  BY <1>8 DEF FinishDeletion, Go, MarkDeleting, Dead
<1>9. CASE SweepDone
  BY <1>9 DEF SweepDone, Dead, HasRefs
<1>10. CASE RemoveSome
  BY <1>10 DEF RemoveSome
<1>11. CASE RemoveRest
  BY <1>11 DEF RemoveRest
<1>12. CASE ForgetGeneration
  BY <1>12 DEF ForgetGeneration, Go, End
<1>13. CASE \E g \in Gens : ReclaimForAdmission(g)
  BY <1>13 DEF ReclaimForAdmission, Go, MarkDeleting, Reclaimable
<1>14. CASE RefuseCapture
  BY <1>14 DEF RefuseCapture, End
<1>15. CASE Rotate
  BY <1>15 DEF Rotate, Go, CreateRecord
<1>16. CASE InitDirectory
  BY <1>16 DEF InitDirectory
<1>17. CASE InitMetadata
  BY <1>17 DEF InitMetadata
<1>18. CASE ActivateGeneration
  BY <1>18 DEF ActivateGeneration, Go
<1>19. CASE ReserveStaging
  BY <1>19 DEF ReserveStaging, Go
<1>20. CASE \E s \in Native : WriteObjects(s)
  BY <1>20 DEF WriteObjects
<1>21. CASE SetPublicationIntent
  BY <1>21 DEF SetPublicationIntent
<1>22. CASE PublishRef
  BY <1>22 DEF PublishRef, WriteRef
<1>23. CASE FailCapture
  BY <1>23 DEF FailCapture, WriteRef
<1>24. CASE FinishCapture
  BY <1>24 DEF FinishCapture, Seal, End
<1>25. CASE BeginPrune
  BY <1>25 DEF BeginPrune
<1>26. CASE \E s \in Native : Expire(s)
  BY <1>26 DEF Expire
<1>27. CASE \E g \in Gens : SealExpired(g)
  BY <1>27 DEF SealExpired, Seal
<1>28. CASE \E g \in Gens : ReclaimExpired(g)
  BY <1>28 DEF ReclaimExpired, Go, MarkDeleting, Reclaimable, AllExpired
<1>29. CASE EndRetention
  BY <1>29 DEF EndRetention, End
<1>30. CASE \E g \in Gens : AskDiscard(g)
  BY <1>30 DEF AskDiscard
<1>31. CASE \E q \in {"migrate", "reset"} : AskChange(q)
  BY <1>31 DEF AskChange
<1>32. CASE Decline
  BY <1>32 DEF Decline
<1>33. CASE \E g \in Gens : ConfirmDiscard(g)
  BY <1>33 DEF ConfirmDiscard, Go
<1>34. CASE MarkDiscarded
  BY <1>34 DEF MarkDiscarded, MarkDeleting
<1>35. CASE ConfirmReset
  BY <1>35 DEF ConfirmReset
<1>36. CASE ConfirmMigrate
  BY <1>36 DEF ConfirmMigrate, Go, CreateRecord
<1>37. CASE CopyObjects
  BY <1>37 DEF CopyObjects
<1>38. CASE PublishMigrated
  BY <1>38 DEF PublishMigrated
<1>39. CASE SealArchive
  BY <1>39 DEF SealArchive, Seal
<1>40. CASE RemoveDuplicate
  BY <1>40 DEF RemoveDuplicate, End, Verified, Locates, Holders
<1>41. CASE DropDuplicate
  BY <1>41 DEF DropDuplicate, End
<1>42. CASE StepFails
  BY <1>42 DEF StepFails, Go
<1>43. CASE Crash
  BY <1>43 DEF Crash, End
<1>44. CASE UNCHANGED vars
  BY <1>44 DEF vars
<1>45. QED
  BY <1>1, <1>2, <1>3, <1>4, <1>5, <1>6, <1>7, <1>8, <1>9, <1>10, <1>11, <1>12, <1>13,
     <1>14, <1>15, <1>16, <1>17, <1>18, <1>19, <1>20, <1>21, <1>22, <1>23, <1>24, <1>25,
     <1>26, <1>27, <1>28, <1>29, <1>30, <1>31, <1>32, <1>33, <1>34, <1>35, <1>36, <1>37,
     <1>38, <1>39, <1>40, <1>41, <1>42, <1>43, <1>44 DEF Next, Work, Reconcile, Remove,
     Capture, Retain, Migrate, Operator

\* Every write leaves the manifest and the directories in agreement.
LEMMA RecordsStep ==
  ASSUME IInv, [Next]_vars PROVE Records'
<1>1. CASE Still
  BY <1>1, StillFrame DEF IInv, Records, Usable
<1> USE StoreAssumption DEF IInv, TypeOK, Records, Held, Writing, Creating, Copying,
        Removing, IsProtected, Usable, Gens, Snaps, manifest, capture, disk, asked,
        history
<1>2. CASE SealInterrupted
  BY <1>2 DEF SealInterrupted, Go, Seal
<1>3. CASE \E g \in Gens : ForgetMissing(g)
  BY <1>3 DEF ForgetMissing, Lost
<1>4. CASE \E g \in Gens : SealUnfinished(g)
  BY <1>4 DEF SealUnfinished, Seal, HasRefs
<1>5. CASE \E g \in Gens : FinishDeletion(g)
  BY <1>5 DEF FinishDeletion, Go, MarkDeleting, Dead
<1>6. CASE RemoveSome
  BY <1>6 DEF RemoveSome
<1>7. CASE RemoveRest
  BY <1>7 DEF RemoveRest
<1>8. CASE ForgetGeneration
  BY <1>8 DEF ForgetGeneration, Go, End
<1>9. CASE \E g \in Gens : ReclaimForAdmission(g)
  BY <1>9 DEF ReclaimForAdmission, Go, MarkDeleting, Reclaimable
<1>10. CASE Rotate
  BY <1>10 DEF Rotate, Go, CreateRecord
<1>11. CASE InitDirectory
  BY <1>11 DEF InitDirectory
<1>12. CASE InitMetadata
  BY <1>12 DEF InitMetadata
<1>13. CASE ActivateGeneration
  <2>1. target \in Gens /\ target # None /\ state[target] = "creating" /\ repo[target] = "ready"
    BY <1>13 DEF ActivateGeneration
  <2>2. job # "migrate" /\ target \notin protected \cup toDiscard
    BY <1>13 DEF ActivateGeneration, Migrating
  <2>3. /\ \A g \in Gens : state'[g] = IF g = target THEN "active"
                                   ELSE IF g = activeId THEN "sealed" ELSE state[g]
        /\ activeId' = target /\ UNCHANGED <<protected, nextGen, repo, objs, refs, toDiscard>>
    BY <1>13 DEF ActivateGeneration, Go
  <2>4. QED
    BY <2>1, <2>2, <2>3
<1>14. CASE \E s \in Native : WriteObjects(s)
  BY <1>14 DEF WriteObjects
<1>15. CASE PublishRef
  BY <1>15 DEF PublishRef, WriteRef
<1>16. CASE FailCapture
  <2>1. CASE UNCHANGED refs
    BY <1>16, <2>1 DEF FailCapture
  <2>2. CASE pc = "publish" /\ WriteRef
    BY <1>16, <2>2 DEF FailCapture, WriteRef
  <2>3. QED
    BY <1>16, <2>1, <2>2 DEF FailCapture
<1>17. CASE FinishCapture
  BY <1>17 DEF FinishCapture, Seal, End
<1>18. CASE \E g \in Gens : SealExpired(g)
  BY <1>18 DEF SealExpired, Seal
<1>19. CASE \E g \in Gens : ReclaimExpired(g)
  BY <1>19 DEF ReclaimExpired, Go, MarkDeleting, Reclaimable, AllExpired
<1>20. CASE EndRetention
  BY <1>20 DEF EndRetention, End
<1>21. CASE \E g \in Gens : AskDiscard(g)
  BY <1>21 DEF AskDiscard
<1>22. CASE Decline
  BY <1>22 DEF Decline
<1>23. CASE \E g \in Gens : ConfirmDiscard(g)
  BY <1>23 DEF ConfirmDiscard, Go
<1>24. CASE MarkDiscarded
  BY <1>24 DEF MarkDiscarded, MarkDeleting
<1>25. CASE ConfirmReset
  BY <1>25 DEF ConfirmReset
<1>26. CASE ConfirmMigrate
  BY <1>26 DEF ConfirmMigrate, Go, CreateRecord
<1>27. CASE CopyObjects
  BY <1>27 DEF CopyObjects
<1>28. CASE PublishMigrated
  BY <1>28 DEF PublishMigrated
<1>29. CASE SealArchive
  BY <1>29 DEF SealArchive, Seal
<1>30. CASE RemoveDuplicate
  BY <1>30 DEF RemoveDuplicate, End, Verified, Locates, Holders
<1>31. CASE DropDuplicate
  BY <1>31 DEF DropDuplicate, End
<1>32. QED
  BY <1>1, <1>2, <1>3, <1>4, <1>5, <1>6, <1>7, <1>8, <1>9, <1>10, <1>11, <1>12, <1>13,
     <1>14, <1>15, <1>16, <1>17, <1>18, <1>19, <1>20, <1>21, <1>22, <1>23, <1>24, <1>25,
     <1>26, <1>27, <1>28, <1>29, <1>30, <1>31 DEF Next, Work, Reconcile, Remove, Capture,
     Retain, Migrate, Operator, Still

\* Nothing an operation holds on to changes under it: the store lock is held.
LEMMA HeldStep ==
  ASSUME IInv, [Next]_vars PROVE Held'
<1> USE StoreAssumption DEF IInv, TypeOK, Records, Held, Writing, Creating, Copying,
        Removing, Migrating, IsProtected, Usable, Gens, Snaps, manifest, capture, disk,
        asked, history
<1>1. CASE \E j \in {"capture", "cleanup"} : BeginReconcile(j)
  BY <1>1 DEF BeginReconcile
<1>2. CASE ResolveCapture
  BY <1>2 DEF ResolveCapture, Go, Interrupted
<1>3. CASE ClearCapture
  BY <1>3 DEF ClearCapture, Go, End
<1>4. CASE SealInterrupted
  BY <1>4 DEF SealInterrupted, Go, Seal
<1>5. CASE \E g \in Gens : ForgetMissing(g)
  BY <1>5 DEF ForgetMissing, Lost
<1>6. CASE MissingDone
  BY <1>6 DEF MissingDone
<1>7. CASE \E g \in Gens : SealUnfinished(g)
  BY <1>7 DEF SealUnfinished, Seal, HasRefs
<1>8. CASE \E g \in Gens : FinishDeletion(g)
  BY <1>8 DEF FinishDeletion, Go, MarkDeleting, Dead
<1>9. CASE SweepDone
  BY <1>9 DEF SweepDone, Dead, HasRefs
<1>10. CASE RemoveSome
  BY <1>10 DEF RemoveSome
<1>11. CASE RemoveRest
  BY <1>11 DEF RemoveRest
<1>12. CASE ForgetGeneration
  BY <1>12 DEF ForgetGeneration, Go, End
<1>13. CASE \E g \in Gens : ReclaimForAdmission(g)
  BY <1>13 DEF ReclaimForAdmission, Go, MarkDeleting, Reclaimable
<1>14. CASE RefuseCapture
  BY <1>14 DEF RefuseCapture, End
<1>15. CASE Rotate
  BY <1>15 DEF Rotate, Go, CreateRecord
<1>16. CASE InitDirectory
  BY <1>16 DEF InitDirectory
<1>17. CASE InitMetadata
  BY <1>17 DEF InitMetadata
<1>18. CASE ActivateGeneration
  BY <1>18 DEF ActivateGeneration, Go
<1>19. CASE ReserveStaging
  BY <1>19 DEF ReserveStaging, Go
<1>20. CASE \E s \in Native : WriteObjects(s)
  BY <1>20 DEF WriteObjects
<1>21. CASE SetPublicationIntent
  BY <1>21 DEF SetPublicationIntent
<1>22. CASE PublishRef
  BY <1>22 DEF PublishRef, WriteRef
<1>23. CASE FailCapture
  BY <1>23 DEF FailCapture, WriteRef
<1>24. CASE FinishCapture
  BY <1>24 DEF FinishCapture, Seal, End
<1>25. CASE BeginPrune
  BY <1>25 DEF BeginPrune
<1>26. CASE \E s \in Native : Expire(s)
  BY <1>26 DEF Expire
<1>27. CASE \E g \in Gens : SealExpired(g)
  BY <1>27 DEF SealExpired, Seal
<1>28. CASE \E g \in Gens : ReclaimExpired(g)
  BY <1>28 DEF ReclaimExpired, Go, MarkDeleting, Reclaimable, AllExpired
<1>29. CASE EndRetention
  BY <1>29 DEF EndRetention, End
<1>30. CASE \E g \in Gens : AskDiscard(g)
  BY <1>30 DEF AskDiscard
<1>31. CASE \E q \in {"migrate", "reset"} : AskChange(q)
  BY <1>31 DEF AskChange
<1>32. CASE Decline
  BY <1>32 DEF Decline
<1>33. CASE \E g \in Gens : ConfirmDiscard(g)
  BY <1>33 DEF ConfirmDiscard, Go
<1>34. CASE MarkDiscarded
  BY <1>34 DEF MarkDiscarded, MarkDeleting
<1>35. CASE ConfirmReset
  BY <1>35 DEF ConfirmReset
<1>36. CASE ConfirmMigrate
  BY <1>36 DEF ConfirmMigrate, Go, CreateRecord
<1>37. CASE CopyObjects
  BY <1>37 DEF CopyObjects
<1>38. CASE PublishMigrated
  BY <1>38 DEF PublishMigrated
<1>39. CASE SealArchive
  BY <1>39 DEF SealArchive, Seal
<1>40. CASE RemoveDuplicate
  BY <1>40 DEF RemoveDuplicate, End, Verified, Locates, Holders
<1>41. CASE DropDuplicate
  BY <1>41 DEF DropDuplicate, End
<1>42. CASE StepFails
  BY <1>42 DEF StepFails, Go
<1>43. CASE Crash
  BY <1>43 DEF Crash, End
<1>44. CASE UNCHANGED vars
  BY <1>44 DEF vars
<1>45. QED
  BY <1>1, <1>2, <1>3, <1>4, <1>5, <1>6, <1>7, <1>8, <1>9, <1>10, <1>11, <1>12, <1>13,
     <1>14, <1>15, <1>16, <1>17, <1>18, <1>19, <1>20, <1>21, <1>22, <1>23, <1>24, <1>25,
     <1>26, <1>27, <1>28, <1>29, <1>30, <1>31, <1>32, <1>33, <1>34, <1>35, <1>36, <1>37,
     <1>38, <1>39, <1>40, <1>41, <1>42, <1>43, <1>44 DEF Next, Work, Reconcile, Remove,
     Capture, Retain, Migrate, Operator

\* A generation that stops being usable had nothing, or its snapshots are given up.
LEMMA KeptStep ==
  ASSUME IInv, [Next]_vars PROVE Kept'
<1>1. CASE Still
  BY <1>1, StillFrame DEF IInv, Kept, Usable
<1> USE StoreAssumption DEF IInv, TypeOK, Records, Held, Kept, Writing, Creating, Copying,
        Removing, IsProtected, Usable, Gens, Snaps, manifest, capture, disk, asked,
        history
<1>2. CASE SealInterrupted
  BY <1>2 DEF SealInterrupted, Go, Seal
<1>3. CASE \E g \in Gens : ForgetMissing(g)
  BY <1>3 DEF ForgetMissing, Lost
<1>4. CASE \E g \in Gens : SealUnfinished(g)
  BY <1>4 DEF SealUnfinished, Seal, HasRefs
<1>5. CASE \E g \in Gens : FinishDeletion(g)
  BY <1>5 DEF FinishDeletion, Go, MarkDeleting, Dead
<1>6. CASE RemoveSome
  BY <1>6 DEF RemoveSome
<1>7. CASE RemoveRest
  <2>1. target \in Gens /\ state[target] = "deleting"
    BY <1>7 DEF RemoveRest
  <2>2. \A g \in Gens : g # target => refs'[g] = refs[g]
    BY <1>7 DEF RemoveRest
  <2>3. UNCHANGED <<state, protected, legacyAt, published, givenUp, discarded>>
    BY <1>7 DEF RemoveRest
  <2>4. QED
    BY <2>1, <2>2, <2>3
<1>8. CASE ForgetGeneration
  BY <1>8 DEF ForgetGeneration, Go, End
<1>9. CASE \E g \in Gens : ReclaimForAdmission(g)
  BY <1>9 DEF ReclaimForAdmission, Go, MarkDeleting, Reclaimable
<1>10. CASE Rotate
  BY <1>10 DEF Rotate, Go, CreateRecord
<1>11. CASE InitDirectory
  BY <1>11 DEF InitDirectory
<1>12. CASE InitMetadata
  BY <1>12 DEF InitMetadata
<1>13. CASE ActivateGeneration
  BY <1>13 DEF ActivateGeneration, Go
<1>14. CASE \E s \in Native : WriteObjects(s)
  BY <1>14 DEF WriteObjects
<1>15. CASE PublishRef
  BY <1>15 DEF PublishRef, WriteRef
<1>16. CASE FailCapture
  BY <1>16 DEF FailCapture, WriteRef
<1>17. CASE FinishCapture
  BY <1>17 DEF FinishCapture, Seal, End
<1>18. CASE \E g \in Gens : SealExpired(g)
  BY <1>18 DEF SealExpired, Seal
<1>19. CASE \E g \in Gens : ReclaimExpired(g)
  BY <1>19 DEF ReclaimExpired, Go, MarkDeleting, Reclaimable, AllExpired
<1>20. CASE EndRetention
  BY <1>20 DEF EndRetention, End
<1>21. CASE \E g \in Gens : AskDiscard(g)
  BY <1>21 DEF AskDiscard
<1>22. CASE Decline
  BY <1>22 DEF Decline
<1>23. CASE \E g \in Gens : ConfirmDiscard(g)
  BY <1>23 DEF ConfirmDiscard, Go
<1>24. CASE MarkDiscarded
  BY <1>24 DEF MarkDiscarded, MarkDeleting
<1>25. CASE ConfirmReset
  BY <1>25 DEF ConfirmReset
<1>26. CASE ConfirmMigrate
  BY <1>26 DEF ConfirmMigrate, Go, CreateRecord
<1>27. CASE CopyObjects
  BY <1>27 DEF CopyObjects
<1>28. CASE PublishMigrated
  BY <1>28 DEF PublishMigrated
<1>29. CASE SealArchive
  BY <1>29 DEF SealArchive, Seal
<1>30. CASE RemoveDuplicate
  BY <1>30 DEF RemoveDuplicate, End, Verified, Locates, Holders
<1>31. CASE DropDuplicate
  BY <1>31 DEF DropDuplicate, End
<1>32. QED
  BY <1>1, <1>2, <1>3, <1>4, <1>5, <1>6, <1>7, <1>8, <1>9, <1>10, <1>11, <1>12, <1>13,
     <1>14, <1>15, <1>16, <1>17, <1>18, <1>19, <1>20, <1>21, <1>22, <1>23, <1>24, <1>25,
     <1>26, <1>27, <1>28, <1>29, <1>30, <1>31 DEF Next, Work, Reconcile, Remove, Capture,
     Retain, Migrate, Operator, Still

\* The old store goes only after its history is under protection.
LEMMA ArchivedStep ==
  ASSUME IInv, [Next]_vars PROVE Archived'
<1>1. CASE Still
  BY <1>1, StillFrame DEF IInv, Archived, Usable
<1> USE StoreAssumption DEF IInv, TypeOK, Records, Held, Archived, Writing, Creating,
        Copying, Removing, IsProtected, Usable, Gens, Snaps, manifest, capture, disk,
        asked, history
<1>2. CASE SealInterrupted
  BY <1>2 DEF SealInterrupted, Go, Seal
<1>3. CASE \E g \in Gens : ForgetMissing(g)
  BY <1>3 DEF ForgetMissing, Lost
<1>4. CASE \E g \in Gens : SealUnfinished(g)
  BY <1>4 DEF SealUnfinished, Seal, HasRefs
<1>5. CASE \E g \in Gens : FinishDeletion(g)
  BY <1>5 DEF FinishDeletion, Go, MarkDeleting, Dead
<1>6. CASE RemoveSome
  BY <1>6 DEF RemoveSome
<1>7. CASE RemoveRest
  <2>1. target \in Gens /\ state[target] = "deleting"
    BY <1>7 DEF RemoveRest
  <2>2. \A g \in Gens : g # target => refs'[g] = refs[g]
    BY <1>7 DEF RemoveRest
  <2>3. UNCHANGED <<state, protected, legacyAt, published, givenUp, discarded>>
    BY <1>7 DEF RemoveRest
  <2>4. QED
    BY <2>1, <2>2, <2>3
<1>8. CASE ForgetGeneration
  BY <1>8 DEF ForgetGeneration, Go, End
<1>9. CASE \E g \in Gens : ReclaimForAdmission(g)
  BY <1>9 DEF ReclaimForAdmission, Go, MarkDeleting, Reclaimable
<1>10. CASE Rotate
  BY <1>10 DEF Rotate, Go, CreateRecord
<1>11. CASE InitDirectory
  BY <1>11 DEF InitDirectory
<1>12. CASE InitMetadata
  BY <1>12 DEF InitMetadata
<1>13. CASE ActivateGeneration
  BY <1>13 DEF ActivateGeneration, Go
<1>14. CASE \E s \in Native : WriteObjects(s)
  BY <1>14 DEF WriteObjects
<1>15. CASE PublishRef
  BY <1>15 DEF PublishRef, WriteRef
<1>16. CASE FailCapture
  BY <1>16 DEF FailCapture, WriteRef
<1>17. CASE FinishCapture
  BY <1>17 DEF FinishCapture, Seal, End
<1>18. CASE \E g \in Gens : SealExpired(g)
  BY <1>18 DEF SealExpired, Seal
<1>19. CASE \E g \in Gens : ReclaimExpired(g)
  BY <1>19 DEF ReclaimExpired, Go, MarkDeleting, Reclaimable, AllExpired
<1>20. CASE EndRetention
  BY <1>20 DEF EndRetention, End
<1>21. CASE \E g \in Gens : AskDiscard(g)
  BY <1>21 DEF AskDiscard
<1>22. CASE Decline
  BY <1>22 DEF Decline
<1>23. CASE \E g \in Gens : ConfirmDiscard(g)
  BY <1>23 DEF ConfirmDiscard, Go
<1>24. CASE MarkDiscarded
  BY <1>24 DEF MarkDiscarded, MarkDeleting
<1>25. CASE ConfirmReset
  BY <1>25 DEF ConfirmReset
<1>26. CASE ConfirmMigrate
  BY <1>26 DEF ConfirmMigrate, Go, CreateRecord
<1>27. CASE CopyObjects
  BY <1>27 DEF CopyObjects
<1>28. CASE PublishMigrated
  BY <1>28 DEF PublishMigrated
<1>29. CASE SealArchive
  BY <1>29 DEF SealArchive, Seal
<1>30. CASE RemoveDuplicate
  BY <1>30 DEF RemoveDuplicate, End, Verified, Locates, Holders
<1>31. CASE DropDuplicate
  BY <1>31 DEF DropDuplicate, End
<1>32. QED
  BY <1>1, <1>2, <1>3, <1>4, <1>5, <1>6, <1>7, <1>8, <1>9, <1>10, <1>11, <1>12, <1>13,
     <1>14, <1>15, <1>16, <1>17, <1>18, <1>19, <1>20, <1>21, <1>22, <1>23, <1>24, <1>25,
     <1>26, <1>27, <1>28, <1>29, <1>30, <1>31 DEF Next, Work, Reconcile, Remove, Capture,
     Retain, Migrate, Operator, Still

\* No step between a reconciliation and the capture leaves a new leftover.
LEMMA ResolvedStep ==
  ASSUME IInv, [Next]_vars PROVE Resolved'
<1> USE StoreAssumption DEF IInv, TypeOK, Records, Held, Resolved, Spared, HasRefs,
        Writing, Creating, Copying, Removing, IsProtected, Usable, Gens, Snaps, manifest,
        capture, disk, asked, history
<1>1. CASE \E j \in {"capture", "cleanup"} : BeginReconcile(j)
  BY <1>1 DEF BeginReconcile
<1>2. CASE ResolveCapture
  BY <1>2 DEF ResolveCapture, Go, Interrupted
<1>3. CASE ClearCapture
  BY <1>3 DEF ClearCapture, Go, End
<1>4. CASE SealInterrupted
  BY <1>4 DEF SealInterrupted, Go, Seal
<1>5. CASE \E g \in Gens : ForgetMissing(g)
  BY <1>5 DEF ForgetMissing, Lost
<1>6. CASE MissingDone
  BY <1>6 DEF MissingDone
<1>7. CASE \E g \in Gens : SealUnfinished(g)
  BY <1>7 DEF SealUnfinished, Seal, HasRefs
<1>8. CASE \E g \in Gens : FinishDeletion(g)
  BY <1>8 DEF FinishDeletion, Go, MarkDeleting, Dead
<1>9. CASE SweepDone
  BY <1>9 DEF SweepDone, Dead, HasRefs
<1>10. CASE RemoveSome
  BY <1>10 DEF RemoveSome
<1>11. CASE RemoveRest
  BY <1>11 DEF RemoveRest
<1>12. CASE ForgetGeneration
  BY <1>12 DEF ForgetGeneration, Go, End
<1>13. CASE \E g \in Gens : ReclaimForAdmission(g)
  BY <1>13 DEF ReclaimForAdmission, Go, MarkDeleting, Reclaimable
<1>14. CASE RefuseCapture
  BY <1>14 DEF RefuseCapture, End
<1>15. CASE Rotate
  BY <1>15 DEF Rotate, Go, CreateRecord
<1>16. CASE InitDirectory
  BY <1>16 DEF InitDirectory
<1>17. CASE InitMetadata
  BY <1>17 DEF InitMetadata
<1>18. CASE ActivateGeneration
  <2>1. target \in Gens /\ target # None /\ state[target] = "creating" /\ repo[target] = "ready"
    BY <1>18 DEF ActivateGeneration
  <2>2. job # "migrate" /\ target \notin protected \cup toDiscard
    BY <1>18 DEF ActivateGeneration, Migrating
  <2>3. /\ \A g \in Gens : state'[g] = IF g = target THEN "active"
                                   ELSE IF g = activeId THEN "sealed" ELSE state[g]
        /\ activeId' = target /\ UNCHANGED <<protected, nextGen, repo, objs, refs, toDiscard>>
    BY <1>18 DEF ActivateGeneration, Go
  <2>4. pc' = "admit" /\ capGen' = None
    BY <1>18 DEF ActivateGeneration, Go, Migrating
  <2>5. \A g \in Gens : Spared(g)'
    BY <1>18, <2>1, <2>2, <2>3 DEF ActivateGeneration
  <2>6. QED
    BY <2>4, <2>5
<1>19. CASE ReserveStaging
  BY <1>19 DEF ReserveStaging, Go
<1>20. CASE \E s \in Native : WriteObjects(s)
  BY <1>20 DEF WriteObjects
<1>21. CASE SetPublicationIntent
  BY <1>21 DEF SetPublicationIntent
<1>22. CASE PublishRef
  BY <1>22 DEF PublishRef, WriteRef
<1>23. CASE FailCapture
  BY <1>23 DEF FailCapture, WriteRef
<1>24. CASE FinishCapture
  BY <1>24 DEF FinishCapture, Seal, End
<1>25. CASE BeginPrune
  BY <1>25 DEF BeginPrune
<1>26. CASE \E s \in Native : Expire(s)
  BY <1>26 DEF Expire
<1>27. CASE \E g \in Gens : SealExpired(g)
  BY <1>27 DEF SealExpired, Seal
<1>28. CASE \E g \in Gens : ReclaimExpired(g)
  BY <1>28 DEF ReclaimExpired, Go, MarkDeleting, Reclaimable, AllExpired
<1>29. CASE EndRetention
  BY <1>29 DEF EndRetention, End
<1>30. CASE \E g \in Gens : AskDiscard(g)
  BY <1>30 DEF AskDiscard
<1>31. CASE \E q \in {"migrate", "reset"} : AskChange(q)
  BY <1>31 DEF AskChange
<1>32. CASE Decline
  BY <1>32 DEF Decline
<1>33. CASE \E g \in Gens : ConfirmDiscard(g)
  BY <1>33 DEF ConfirmDiscard, Go
<1>34. CASE MarkDiscarded
  BY <1>34 DEF MarkDiscarded, MarkDeleting
<1>35. CASE ConfirmReset
  BY <1>35 DEF ConfirmReset
<1>36. CASE ConfirmMigrate
  BY <1>36 DEF ConfirmMigrate, Go, CreateRecord
<1>37. CASE CopyObjects
  BY <1>37 DEF CopyObjects
<1>38. CASE PublishMigrated
  BY <1>38 DEF PublishMigrated
<1>39. CASE SealArchive
  BY <1>39 DEF SealArchive, Seal
<1>40. CASE RemoveDuplicate
  BY <1>40 DEF RemoveDuplicate, End, Verified, Locates, Holders
<1>41. CASE DropDuplicate
  BY <1>41 DEF DropDuplicate, End
<1>42. CASE StepFails
  BY <1>42 DEF StepFails, Go
<1>43. CASE Crash
  BY <1>43 DEF Crash, End
<1>44. CASE UNCHANGED vars
  BY <1>44 DEF vars
<1>45. QED
  BY <1>1, <1>2, <1>3, <1>4, <1>5, <1>6, <1>7, <1>8, <1>9, <1>10, <1>11, <1>12, <1>13,
     <1>14, <1>15, <1>16, <1>17, <1>18, <1>19, <1>20, <1>21, <1>22, <1>23, <1>24, <1>25,
     <1>26, <1>27, <1>28, <1>29, <1>30, <1>31, <1>32, <1>33, <1>34, <1>35, <1>36, <1>37,
     <1>38, <1>39, <1>40, <1>41, <1>42, <1>43, <1>44 DEF Next, Work, Reconcile, Remove,
     Capture, Retain, Migrate, Operator

-----------------------------------------------------------------------------
LEMMA Start == Init => IInv
<1> SUFFICES ASSUME Init PROVE IInv
  OBVIOUS
<1>1. TypeOK
  BY StoreAssumption DEF Init, TypeOK, Gens, Snaps, Points
<1>2. Records /\ Held /\ Kept /\ Archived /\ Resolved
  BY StoreAssumption DEF Init, Records, Held, Kept, Archived, Resolved, Spared, Usable, Gens, Writing,
     Creating, Copying, Removing, Migrating
<1>3. QED
  BY <1>1, <1>2 DEF IInv

LEMMA Invariance == Spec => []IInv
<1>1. IInv /\ [Next]_vars => IInv'
  BY TypedStep, RecordsStep, HeldStep, KeptStep, ArchivedStep, ResolvedStep DEF IInv
<1>2. QED
  BY Start, <1>1, PTL DEF Spec

\* Every operation leaves the manifest, the directories and the in-flight record with
\* their types (Manifest.Validate accepts what Save wrote).
THEOREM StoreTyped == Spec => []TypeOK
<1>1. IInv => TypeOK
  BY DEF IInv
<1>2. QED
  BY <1>1, Invariance, PTL

\* A published snapshot stays a rollback target across every order of writes, crashes
\* and errors, unless its generation was given up (captureToGeneration,
\* reconcileCapture, reclaimGeneration).
THEOREM SnapshotsAreKept == Spec => []KeptOrGivenUp
<1>1. IInv => KeptOrGivenUp
  BY DEF IInv, TypeOK, Records, Kept, KeptOrGivenUp, Findable, Holders
<1>2. QED
  BY <1>1, Invariance, PTL

\* Migration, discard, reset and retention, in any order and however often they are
\* interrupted, lose no history an operator did not discard (MigrateWorkspace).
THEOREM HistoryIsKept == Spec => []ArchiveKept
<1>1. IInv => ArchiveKept
  BY DEF IInv, TypeOK, Records, Archived, ArchiveKept, Findable, Holders
<1>2. QED
  BY <1>1, Invariance, PTL

\* A capture writes into the generation the manifest and the in-flight record name, and
\* its repository is whole (AdmitCapture, ReclaimForAdmission).
THEOREM TargetIsWhole == Spec => []TargetStands
<1>1. IInv => TargetStands
  BY DEF IInv, TypeOK, Records, Held, Writing, TargetStands, Usable
<1>2. QED
  BY <1>1, Invariance, PTL

\* No capture is admitted before an interrupted one, and every interrupted creation, is
\* resolved (ReconcileWorkspace).
THEOREM AdmissionIsClean == Spec => []AdmittedClean
<1>1. IInv => AdmittedClean
  BY DEF IInv, Resolved, Spared, AdmittedClean
<1>2. QED
  BY <1>1, Invariance, PTL
=============================================================================
