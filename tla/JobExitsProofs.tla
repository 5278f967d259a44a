--------------------------- MODULE JobExitsProofs ---------------------------
(***************************************************************************)
(* Theorems about JobExits, for any number of executions and joiners:      *)
(* what AddJobExit accepted is never lost, no unsaved record is forgotten, *)
(* and a successful end join leaves nothing unsaved.                       *)
(***************************************************************************)
EXTENDS JobExits, TLAPS

USE DEF Threads

\* A thread that adds or announces has something to add or announce.
TypeInv ==
  /\ TypeOK
  /\ \A p \in Threads :
       /\ pc[p] \in {"record", "queue", "ledger"} => cur[p] # None
       /\ pc[p] \in {"idle", "saved", "offer"} => cur[p] = None
       /\ pc[p] = "mark" => telling[p] # None

LEMMA TypeInit == Init => TypeInv
<1> SUFFICES ASSUME Init PROVE TypeInv
  OBVIOUS
<1>1. \A p \in Threads : pc[p] = "idle" /\ cur[p] = None
  BY DEF Init
<1>2. events \in [Execs -> 0..2]
  BY DEF Init
<1>3. TypeOK
  BY <1>2, ThreadsAssumption DEF Init, TypeOK, Points
<1> QED
  BY <1>1, <1>3 DEF TypeInv

LEMMA TypeStep == TypeInv /\ [Next]_vars => TypeInv'
<1> SUFFICES ASSUME TypeInv, [Next]_vars PROVE TypeInv'
  OBVIOUS
<1>1. ASSUME NEW e \in Execs, Launch(e) PROVE TypeInv'
  BY <1>1, ThreadsAssumption DEF TypeInv, TypeOK, Points, Launch, executions, state,
       outside, adding, joins
<1>2. ASSUME NEW e \in Execs, Audit(e) PROVE TypeInv'
  BY <1>2, ThreadsAssumption DEF TypeInv, TypeOK, Points, Audit, executions, state, outside,
       adding, joins
<1>3. ASSUME NEW e \in Execs, Report(e) PROVE TypeInv'
  BY <1>3, ThreadsAssumption DEF TypeInv, TypeOK, Points, Report, executions, state,
       outside, adding, joins
<1>4. CASE AcceptEnd
  BY <1>4, ThreadsAssumption DEF TypeInv, TypeOK, Points, AcceptEnd, executions, state,
       outside, adding, joins
<1>5. ASSUME NEW p \in Threads, Record(p) PROVE TypeInv'
  BY <1>5, ThreadsAssumption DEF TypeInv, TypeOK, Points, Record, executions, state,
       outside, adding, joins
<1>6. ASSUME NEW p \in Threads, Queue(p) PROVE TypeInv'
  BY <1>6, ThreadsAssumption DEF TypeInv, TypeOK, Points, Queue, executions, state, outside,
       adding, joins
<1>7. ASSUME NEW p \in Threads, BeginSave(p) PROVE TypeInv'
  BY <1>7, ThreadsAssumption DEF TypeInv, TypeOK, Points, BeginSave, executions, state,
       outside, adding, joins
<1>8. ASSUME NEW p \in Threads, SaveSucceeds(p) PROVE TypeInv'
  BY <1>8, ThreadsAssumption DEF TypeInv, TypeOK, Points, SaveSucceeds, executions, state,
       outside, adding, joins
<1>9. ASSUME NEW p \in Threads, SaveFails(p) PROVE TypeInv'
  BY <1>9, ThreadsAssumption DEF TypeInv, TypeOK, Points, SaveFails, AfterSave, executions,
       state, outside, adding, joins
<1>10. ASSUME NEW p \in Threads, Take(p) PROVE TypeInv'
  BY <1>10, ThreadsAssumption DEF TypeInv, TypeOK, Points, Take, executions, state, outside,
       adding, joins
<1>11. ASSUME NEW p \in Threads, NEW e \in Execs, Announce(p, e) PROVE TypeInv'
  BY <1>11, ThreadsAssumption DEF TypeInv, TypeOK, Points, Announce, executions, state,
       outside, adding, joins
<1>12. ASSUME NEW p \in Threads, Mark(p) PROVE TypeInv'
  BY <1>12, ThreadsAssumption DEF TypeInv, TypeOK, Points, Mark, executions, state, outside,
       adding, joins
<1>13. ASSUME NEW p \in Threads, Announced(p) PROVE TypeInv'
  BY <1>13, ThreadsAssumption DEF TypeInv, TypeOK, Points, Announced, AfterSave, executions,
       state, outside, adding, joins
<1>14. ASSUME NEW p \in Threads, Settle(p) PROVE TypeInv'
  <2>1. cur[p] \in Execs
    BY <1>14, ThreadsAssumption DEF TypeInv, TypeOK, Settle
  <2>2. /\ phase' \in [Execs -> {"new", "running", "settled", "dead"}]
        /\ pc' \in [Threads -> Points]
    BY <1>14 DEF TypeInv, TypeOK, Points, Settle
  <2>3. /\ ledger' \subseteq Execs /\ accepted' \subseteq Execs
        /\ cur' \in [Threads -> Execs \cup {None}] /\ ok' \in [Threads -> BOOLEAN]
    BY <1>14, <2>1 DEF TypeInv, TypeOK, Settle
  <2>4. TypeOK'
    BY <1>14, <2>2, <2>3 DEF TypeInv, TypeOK, Settle, state, joins
  <2>5. \A q \in Threads \ {p} : pc'[q] = pc[q] /\ cur'[q] = cur[q]
    BY <1>14 DEF TypeInv, TypeOK, Settle
  <2>6. pc'[p] \in {"idle", "offer"} /\ cur'[p] = None /\ telling' = telling
    BY <1>14 DEF TypeInv, TypeOK, Settle
  <2> QED
    BY <2>4, <2>5, <2>6 DEF TypeInv
<1>15. ASSUME NEW k \in Joiners, NEW afterJoin \in BOOLEAN, RetrySaves(k, afterJoin) PROVE TypeInv'
  BY <1>15, ThreadsAssumption DEF TypeInv, TypeOK, Points, RetrySaves, executions, state,
       outside, adding, joins
<1>16. ASSUME NEW k \in Joiners, ReturnEarly(k) PROVE TypeInv'
  BY <1>16, ThreadsAssumption DEF TypeInv, TypeOK, Points, ReturnEarly, executions, state,
       outside, adding, joins
<1>17. ASSUME NEW k \in Joiners, CopyLedger(k) PROVE TypeInv'
  BY <1>17, ThreadsAssumption DEF TypeInv, TypeOK, Points, CopyLedger, executions, state,
       outside, adding, joins
<1>18. ASSUME NEW k \in Joiners, NEW e \in Execs, Offer(k, e) PROVE TypeInv'
  BY <1>18, ThreadsAssumption DEF TypeInv, TypeOK, Points, Offer, executions, state,
       outside, adding, joins
<1>19. ASSUME NEW k \in Joiners, JoinReports(k) PROVE TypeInv'
  BY <1>19, ThreadsAssumption DEF TypeInv, TypeOK, Points, JoinReports, executions, state,
       outside, adding, joins
<1>20. ASSUME NEW loaded \in BOOLEAN, Restart(loaded) PROVE TypeInv'
  BY <1>20, ThreadsAssumption DEF TypeInv, TypeOK, Points, Restart, executions, state,
       outside, adding, joins
<1>21. CASE UNCHANGED vars
  BY <1>21 DEF TypeInv, TypeOK, Points, vars, executions, state, outside, adding, joins
<1> QED
  BY <1>1, <1>2, <1>3, <1>4, <1>5, <1>6, <1>7, <1>8, <1>9, <1>10, <1>11, <1>12, <1>13,
       <1>14, <1>15, <1>16, <1>17, <1>18, <1>19, <1>20, <1>21 DEF Next, Add, Join

\* Every variable keeps its type.
THEOREM TypeCorrect == Spec => []TypeOK
<1>1. TypeInv => TypeOK
  BY DEF TypeInv
<1> QED
  BY <1>1, TypeInit, TypeStep, PTL DEF Spec
-----------------------------------------------------------------------------
\* The lock makes the copy a writer holds at least as new as the stored list.
Recorded == {"queue", "save", "write", "take", "announce", "mark", "ledger"}
Stored == {"take", "announce", "mark"}

Durable ==
  /\ stored \subseteq records /\ accepted \subseteq stored
  /\ \A p \in Threads :
       /\ pc[p] = "write" =>
            lock = p /\ stored \subseteq snapshot[p] /\ snapshot[p] \subseteq records
       /\ pc[p] \in Recorded /\ cur[p] # None => cur[p] \in records
       /\ pc[p] = "write" /\ cur[p] # None => cur[p] \in snapshot[p]
       /\ pc[p] \in Stored => ok[p]
       /\ pc[p] \in Stored \cup {"ledger"} /\ ok[p] /\ cur[p] # None => cur[p] \in stored

LEMMA DurableInit == Init => Durable
BY DEF Init, Durable, Recorded, Stored

LEMMA DurableStep == ~LoadMayFail /\ TypeInv /\ Durable /\ [Next]_vars => Durable'
<1> SUFFICES ASSUME ~LoadMayFail, TypeInv, Durable, [Next]_vars PROVE Durable'
  OBVIOUS
<1>1. ASSUME NEW e \in Execs, Launch(e) PROVE Durable'
  BY <1>1, ThreadsAssumption DEF TypeInv, Durable, TypeOK, Recorded, Stored, Launch,
       executions, state, outside, adding, joins
<1>2. ASSUME NEW e \in Execs, Audit(e) PROVE Durable'
  BY <1>2, ThreadsAssumption DEF TypeInv, Durable, TypeOK, Recorded, Stored, Audit,
       executions, state, outside, adding, joins
<1>3. ASSUME NEW e \in Execs, Report(e) PROVE Durable'
  BY <1>3, ThreadsAssumption DEF TypeInv, Durable, TypeOK, Recorded, Stored, Report,
       executions, state, outside, adding, joins
<1>4. CASE AcceptEnd
  BY <1>4, ThreadsAssumption DEF TypeInv, Durable, TypeOK, Recorded, Stored, AcceptEnd,
       executions, state, outside, adding, joins
<1>5. ASSUME NEW p \in Threads, Record(p) PROVE Durable'
  BY <1>5, ThreadsAssumption DEF TypeInv, Durable, TypeOK, Recorded, Stored, Record,
       executions, state, outside, adding, joins
<1>6. ASSUME NEW p \in Threads, Queue(p) PROVE Durable'
  BY <1>6, ThreadsAssumption DEF TypeInv, Durable, TypeOK, Recorded, Stored, Queue,
       executions, state, outside, adding, joins
<1>7. ASSUME NEW p \in Threads, BeginSave(p) PROVE Durable'
  BY <1>7, ThreadsAssumption DEF TypeInv, Durable, TypeOK, Recorded, Stored, BeginSave,
       executions, state, outside, adding, joins
<1>8. ASSUME NEW p \in Threads, SaveSucceeds(p) PROVE Durable'
  BY <1>8, ThreadsAssumption DEF TypeInv, Durable, TypeOK, Recorded, Stored, SaveSucceeds,
       executions, state, outside, adding, joins
<1>9. ASSUME NEW p \in Threads, SaveFails(p) PROVE Durable'
  BY <1>9, ThreadsAssumption DEF TypeInv, Durable, TypeOK, Recorded, Stored, SaveFails,
       AfterSave, executions, state, outside, adding, joins
<1>10. ASSUME NEW p \in Threads, Take(p) PROVE Durable'
  BY <1>10, ThreadsAssumption DEF TypeInv, Durable, TypeOK, Recorded, Stored, Take,
       executions, state, outside, adding, joins
<1>11. ASSUME NEW p \in Threads, NEW e \in Execs, Announce(p, e) PROVE Durable'
  BY <1>11, ThreadsAssumption DEF TypeInv, Durable, TypeOK, Recorded, Stored, Announce,
       executions, state, outside, adding, joins
<1>12. ASSUME NEW p \in Threads, Mark(p) PROVE Durable'
  BY <1>12, ThreadsAssumption DEF TypeInv, Durable, TypeOK, Recorded, Stored, Mark,
       executions, state, outside, adding, joins
<1>13. ASSUME NEW p \in Threads, Announced(p) PROVE Durable'
  BY <1>13, ThreadsAssumption DEF TypeInv, Durable, TypeOK, Recorded, Stored, Announced,
       AfterSave, executions, state, outside, adding, joins
<1>14. ASSUME NEW p \in Threads, Settle(p) PROVE Durable'
  BY <1>14, ThreadsAssumption DEF TypeInv, Durable, TypeOK, Recorded, Stored, Settle,
       executions, state, outside, adding, joins
<1>15. ASSUME NEW k \in Joiners, NEW afterJoin \in BOOLEAN, RetrySaves(k, afterJoin) PROVE Durable'
  BY <1>15, ThreadsAssumption DEF TypeInv, Durable, TypeOK, Recorded, Stored, RetrySaves,
       executions, state, outside, adding, joins
<1>16. ASSUME NEW k \in Joiners, ReturnEarly(k) PROVE Durable'
  BY <1>16, ThreadsAssumption DEF TypeInv, Durable, TypeOK, Recorded, Stored, ReturnEarly,
       executions, state, outside, adding, joins
<1>17. ASSUME NEW k \in Joiners, CopyLedger(k) PROVE Durable'
  BY <1>17, ThreadsAssumption DEF TypeInv, Durable, TypeOK, Recorded, Stored, CopyLedger,
       executions, state, outside, adding, joins
<1>18. ASSUME NEW k \in Joiners, NEW e \in Execs, Offer(k, e) PROVE Durable'
  BY <1>18, ThreadsAssumption DEF TypeInv, Durable, TypeOK, Recorded, Stored, Offer,
       executions, state, outside, adding, joins
<1>19. ASSUME NEW k \in Joiners, JoinReports(k) PROVE Durable'
  BY <1>19, ThreadsAssumption DEF TypeInv, Durable, TypeOK, Recorded, Stored, JoinReports,
       executions, state, outside, adding, joins
<1>20. ASSUME NEW loaded \in BOOLEAN, Restart(loaded) PROVE Durable'
  BY <1>20, ThreadsAssumption DEF TypeInv, Durable, TypeOK, Recorded, Stored, Restart,
       executions, state, outside, adding, joins
<1>21. CASE UNCHANGED vars
  BY <1>21 DEF TypeInv, Durable, TypeOK, Recorded, Stored, vars, executions, state, outside,
       adding, joins
<1> QED
  BY <1>1, <1>2, <1>3, <1>4, <1>5, <1>6, <1>7, <1>8, <1>9, <1>10, <1>11, <1>12, <1>13,
       <1>14, <1>15, <1>16, <1>17, <1>18, <1>19, <1>20, <1>21 DEF Next, Add, Join

\* What AddJobExit returned nil for stays stored, as long as a resume can load
\* the list.
THEOREM AcceptedStaysStored == ASSUME ~LoadMayFail PROVE Spec => []AcceptedSurvives
<1>1. Durable => AcceptedSurvives
  BY DEF Durable, AcceptedSurvives
<1>2. TypeInv /\ Durable /\ [Next]_vars => Durable'
  BY DurableStep
<1> QED
  BY <1>1, <1>2, TypeInit, TypeStep, DurableInit, PTL DEF Spec
-----------------------------------------------------------------------------
\* A writer that succeeds may clear the pending mark: what its copy lacks is in
\* the hands of a call that has still to save.
Carried(e) == \E q \in Threads : cur[q] = e /\ pc[q] \in {"queue", "save"}

InFlight ==
  /\ NothingForgotten
  /\ \A p \in Threads : pc[p] = "write" => \A e \in records \ snapshot[p] : Carried(e)

\* A thread that carries nothing may go anywhere but into a write.
LEMMA InFlightFrame ==
  ASSUME TypeInv, InFlight, NEW p \in Threads, cur[p] = None, pc[p] # "write",
         UNCHANGED <<records, stored, pending, snapshot>>,
         \A q \in Threads \ {p} : pc'[q] = pc[q] /\ cur'[q] = cur[q],
         pc'[p] # "write"
  PROVE  InFlight'
<1>1. ASSUME NEW e \in Execs, Carried(e) PROVE Carried(e)'
  BY <1>1, ThreadsAssumption DEF Carried
<1>2. NothingForgotten'
  BY <1>1, ThreadsAssumption DEF InFlight, NothingForgotten, TypeInv, TypeOK
<1> QED
  BY <1>1, <1>2 DEF InFlight, TypeInv, TypeOK

LEMMA InFlightInit == Init => InFlight
BY DEF Init, InFlight, NothingForgotten

LEMMA InFlightStep == ~LoadMayFail /\ TypeInv /\ Durable /\ InFlight /\ [Next]_vars => InFlight'
<1> SUFFICES ASSUME ~LoadMayFail, TypeInv, Durable, InFlight, [Next]_vars PROVE InFlight'
  OBVIOUS
<1>1. ASSUME NEW e \in Execs, Launch(e) PROVE InFlight'
  BY <1>1, ThreadsAssumption DEF TypeInv, Durable, InFlight, NothingForgotten, Carried,
       TypeOK, Launch, executions, state, outside, adding, joins
<1>2. ASSUME NEW e \in Execs, Audit(e) PROVE InFlight'
  BY <1>2, ThreadsAssumption DEF TypeInv, Durable, InFlight, NothingForgotten, Carried,
       TypeOK, Audit, executions, state, outside, adding, joins
<1>3. ASSUME NEW e \in Execs, Report(e) PROVE InFlight'
  <2>1. cur[e] = None /\ pc[e] # "write"
    BY <1>3 DEF TypeInv, Report
  <2> QED
    BY <1>3, <2>1, InFlightFrame, ThreadsAssumption
       DEF TypeInv, TypeOK, Report, executions, state, outside, adding, joins
<1>4. CASE AcceptEnd
  BY <1>4, ThreadsAssumption DEF TypeInv, Durable, InFlight, NothingForgotten, Carried,
       TypeOK, AcceptEnd, executions, state, outside, adding, joins
<1>5. ASSUME NEW p \in Threads, Record(p) PROVE InFlight'
  BY <1>5, ThreadsAssumption DEF TypeInv, Durable, InFlight, NothingForgotten, Carried,
       TypeOK, Record, executions, state, outside, adding, joins
<1>6. ASSUME NEW p \in Threads, Queue(p) PROVE InFlight'
  BY <1>6, ThreadsAssumption DEF TypeInv, Durable, InFlight, NothingForgotten, Carried,
       TypeOK, Queue, executions, state, outside, adding, joins
<1>7. ASSUME NEW p \in Threads, BeginSave(p) PROVE InFlight'
  BY <1>7, ThreadsAssumption DEF TypeInv, Durable, InFlight, NothingForgotten, Carried,
       TypeOK, BeginSave, executions, state, outside, adding, joins
<1>8. ASSUME NEW p \in Threads, SaveSucceeds(p) PROVE InFlight'
  BY <1>8, ThreadsAssumption DEF TypeInv, Durable, InFlight, NothingForgotten, Carried,
       TypeOK, SaveSucceeds, executions, state, outside, adding, joins
<1>9. ASSUME NEW p \in Threads, SaveFails(p) PROVE InFlight'
  BY <1>9, ThreadsAssumption DEF TypeInv, Durable, InFlight, NothingForgotten, Carried,
       TypeOK, SaveFails, AfterSave, executions, state, outside, adding, joins
<1>10. ASSUME NEW p \in Threads, Take(p) PROVE InFlight'
  BY <1>10, ThreadsAssumption DEF TypeInv, Durable, InFlight, NothingForgotten, Carried,
       TypeOK, Take, executions, state, outside, adding, joins
<1>11. ASSUME NEW p \in Threads, NEW e \in Execs, Announce(p, e) PROVE InFlight'
  BY <1>11, ThreadsAssumption DEF TypeInv, Durable, InFlight, NothingForgotten, Carried,
       TypeOK, Announce, executions, state, outside, adding, joins
<1>12. ASSUME NEW p \in Threads, Mark(p) PROVE InFlight'
  BY <1>12, ThreadsAssumption DEF TypeInv, Durable, InFlight, NothingForgotten, Carried,
       TypeOK, Mark, executions, state, outside, adding, joins
<1>13. ASSUME NEW p \in Threads, Announced(p) PROVE InFlight'
  BY <1>13, ThreadsAssumption DEF TypeInv, Durable, InFlight, NothingForgotten, Carried,
       TypeOK, Announced, AfterSave, executions, state, outside, adding, joins
<1>14. ASSUME NEW p \in Threads, Settle(p) PROVE InFlight'
  <2>1. UNCHANGED <<records, stored, pending, snapshot>>
    BY <1>14 DEF Settle, state
  <2>2. \A q \in Threads : pc'[q] = "write" => pc[q] = "write"
    BY <1>14 DEF Settle, TypeInv, TypeOK
  <2>3. \A q \in Threads :
          pc[q] \in {"queue", "save", "write"} => pc'[q] = pc[q] /\ cur'[q] = cur[q]
    BY <1>14 DEF Settle, TypeInv, TypeOK
  <2>4. \A e \in Execs : Carried(e) => Carried(e)'
    BY <2>3 DEF Carried
  <2>5. records \subseteq Execs
    BY DEF TypeInv, TypeOK
  <2> QED
    BY <2>1, <2>2, <2>3, <2>4, <2>5 DEF InFlight, NothingForgotten
<1>15. ASSUME NEW k \in Joiners, NEW afterJoin \in BOOLEAN, RetrySaves(k, afterJoin) PROVE InFlight'
  <2>1. cur[k] = None /\ pc[k] # "write"
    BY <1>15 DEF TypeInv, RetrySaves
  <2> QED
    BY <1>15, <2>1, InFlightFrame, ThreadsAssumption
       DEF TypeInv, TypeOK, RetrySaves, executions, state, outside, adding, joins
<1>16. ASSUME NEW k \in Joiners, ReturnEarly(k) PROVE InFlight'
  <2>1. cur[k] = None /\ pc[k] # "write"
    BY <1>16 DEF TypeInv, ReturnEarly
  <2> QED
    BY <1>16, <2>1, InFlightFrame, ThreadsAssumption
       DEF TypeInv, TypeOK, ReturnEarly, executions, state, outside, adding, joins
<1>17. ASSUME NEW k \in Joiners, CopyLedger(k) PROVE InFlight'
  <2>1. cur[k] = None /\ pc[k] # "write"
    BY <1>17 DEF TypeInv, CopyLedger
  <2> QED
    BY <1>17, <2>1, InFlightFrame, ThreadsAssumption
       DEF TypeInv, TypeOK, CopyLedger, executions, state, outside, adding, joins
<1>18. ASSUME NEW k \in Joiners, NEW e \in Execs, Offer(k, e) PROVE InFlight'
  <2>1. cur[k] = None /\ pc[k] # "write"
    BY <1>18 DEF TypeInv, Offer
  <2> QED
    BY <1>18, <2>1, InFlightFrame, ThreadsAssumption
       DEF TypeInv, TypeOK, Offer, executions, state, outside, adding, joins
<1>19. ASSUME NEW k \in Joiners, JoinReports(k) PROVE InFlight'
  <2>1. cur[k] = None /\ pc[k] # "write"
    BY <1>19 DEF TypeInv, JoinReports
  <2> QED
    BY <1>19, <2>1, InFlightFrame, ThreadsAssumption
       DEF TypeInv, TypeOK, JoinReports, executions, state, outside, adding, joins
<1>20. ASSUME NEW loaded \in BOOLEAN, Restart(loaded) PROVE InFlight'
  BY <1>20, ThreadsAssumption DEF TypeInv, Durable, InFlight, NothingForgotten, Carried,
       TypeOK, Restart, executions, state, outside, adding, joins
<1>21. CASE UNCHANGED vars
  BY <1>21 DEF TypeInv, Durable, InFlight, NothingForgotten, Carried, TypeOK, vars,
       executions, state, outside, adding, joins
<1> QED
  BY <1>1, <1>2, <1>3, <1>4, <1>5, <1>6, <1>7, <1>8, <1>9, <1>10, <1>11, <1>12, <1>13,
       <1>14, <1>15, <1>16, <1>17, <1>18, <1>19, <1>20, <1>21 DEF Next, Add, Join

\* No recorded completion is left to nobody.
THEOREM RecordsAreNotForgotten == ASSUME ~LoadMayFail PROVE Spec => []NothingForgotten
<1>1. InFlight => NothingForgotten
  BY DEF InFlight
<1>2. TypeInv /\ Durable /\ [Next]_vars => Durable'
  BY DurableStep
<1>3. TypeInv /\ Durable /\ InFlight /\ [Next]_vars => InFlight'
  BY InFlightStep
<1> QED
  BY <1>1, <1>2, <1>3, TypeInit, TypeStep, DurableInit, InFlightInit, PTL DEF Spec
-----------------------------------------------------------------------------
\* After the join nothing new is recorded, and what is not stored is in the ledger.
Handled ==
  /\ \A e \in records \ stored : e \in ledger \/ phase[e] = "running"
  /\ \A e \in Execs : pc[e] # "idle" => phase[e] = "running" /\ cur[e] = e
  /\ ledger \subseteq records
  /\ \A k \in Joiners :
       /\ todo[k] \subseteq records /\ (cur[k] # None => cur[k] \in records)
       /\ pc[k] = "offer" \/ cur[k] # None => joining[k]
       /\ joining[k] => Drained
       /\ joined[k] = "ok" => Drained /\ records \subseteq stored

LEMMA HandledInit == Init => Handled
BY ThreadsAssumption DEF Init, Handled

LEMMA HandledStep == ~LoadMayFail /\ TypeInv /\ Durable /\ Handled /\ [Next]_vars => Handled'
<1> SUFFICES ASSUME ~LoadMayFail, TypeInv, Durable, Handled, [Next]_vars PROVE Handled'
  OBVIOUS
<1>1. ASSUME NEW e \in Execs, Launch(e) PROVE Handled'
  BY <1>1, ThreadsAssumption DEF TypeInv, Durable, Handled, Drained, TypeOK, Recorded,
       Stored, Launch, executions, state, outside, adding, joins
<1>2. ASSUME NEW e \in Execs, Audit(e) PROVE Handled'
  BY <1>2, ThreadsAssumption DEF TypeInv, Durable, Handled, Drained, TypeOK, Recorded,
       Stored, Audit, executions, state, outside, adding, joins
<1>3. ASSUME NEW e \in Execs, Report(e) PROVE Handled'
  BY <1>3, ThreadsAssumption DEF TypeInv, Durable, Handled, Drained, TypeOK, Recorded,
       Stored, Report, executions, state, outside, adding, joins
<1>4. CASE AcceptEnd
  BY <1>4, ThreadsAssumption DEF TypeInv, Durable, Handled, Drained, TypeOK, Recorded,
       Stored, AcceptEnd, executions, state, outside, adding, joins
<1>5. ASSUME NEW p \in Threads, Record(p) PROVE Handled'
  BY <1>5, ThreadsAssumption DEF TypeInv, Durable, Handled, Drained, TypeOK, Recorded,
       Stored, Record, executions, state, outside, adding, joins
<1>6. ASSUME NEW p \in Threads, Queue(p) PROVE Handled'
  BY <1>6, ThreadsAssumption DEF TypeInv, Durable, Handled, Drained, TypeOK, Recorded,
       Stored, Queue, executions, state, outside, adding, joins
<1>7. ASSUME NEW p \in Threads, BeginSave(p) PROVE Handled'
  BY <1>7, ThreadsAssumption DEF TypeInv, Durable, Handled, Drained, TypeOK, Recorded,
       Stored, BeginSave, executions, state, outside, adding, joins
<1>8. ASSUME NEW p \in Threads, SaveSucceeds(p) PROVE Handled'
  BY <1>8, ThreadsAssumption DEF TypeInv, Durable, Handled, Drained, TypeOK, Recorded,
       Stored, SaveSucceeds, executions, state, outside, adding, joins
<1>9. ASSUME NEW p \in Threads, SaveFails(p) PROVE Handled'
  BY <1>9, ThreadsAssumption DEF TypeInv, Durable, Handled, Drained, TypeOK, Recorded,
       Stored, SaveFails, AfterSave, executions, state, outside, adding, joins
<1>10. ASSUME NEW p \in Threads, Take(p) PROVE Handled'
  BY <1>10, ThreadsAssumption DEF TypeInv, Durable, Handled, Drained, TypeOK, Recorded,
       Stored, Take, executions, state, outside, adding, joins
<1>11. ASSUME NEW p \in Threads, NEW e \in Execs, Announce(p, e) PROVE Handled'
  BY <1>11, ThreadsAssumption DEF TypeInv, Durable, Handled, Drained, TypeOK, Recorded,
       Stored, Announce, executions, state, outside, adding, joins
<1>12. ASSUME NEW p \in Threads, Mark(p) PROVE Handled'
  BY <1>12, ThreadsAssumption DEF TypeInv, Durable, Handled, Drained, TypeOK, Recorded,
       Stored, Mark, executions, state, outside, adding, joins
<1>13. ASSUME NEW p \in Threads, Announced(p) PROVE Handled'
  BY <1>13, ThreadsAssumption DEF TypeInv, Durable, Handled, Drained, TypeOK, Recorded,
       Stored, Announced, AfterSave, executions, state, outside, adding, joins
<1>14. ASSUME NEW p \in Threads, Settle(p) PROVE Handled'
  BY <1>14, ThreadsAssumption DEF TypeInv, Durable, Handled, Drained, TypeOK, Recorded,
       Stored, Settle, executions, state, outside, adding, joins
<1>15. ASSUME NEW k \in Joiners, NEW afterJoin \in BOOLEAN, RetrySaves(k, afterJoin) PROVE Handled'
  BY <1>15, ThreadsAssumption DEF TypeInv, Durable, Handled, Drained, TypeOK, Recorded,
       Stored, RetrySaves, executions, state, outside, adding, joins
<1>16. ASSUME NEW k \in Joiners, ReturnEarly(k) PROVE Handled'
  BY <1>16, ThreadsAssumption DEF TypeInv, Durable, Handled, Drained, TypeOK, Recorded,
       Stored, ReturnEarly, executions, state, outside, adding, joins
<1>17. ASSUME NEW k \in Joiners, CopyLedger(k) PROVE Handled'
  BY <1>17, ThreadsAssumption DEF TypeInv, Durable, Handled, Drained, TypeOK, Recorded,
       Stored, CopyLedger, executions, state, outside, adding, joins
<1>18. ASSUME NEW k \in Joiners, NEW e \in Execs, Offer(k, e) PROVE Handled'
  BY <1>18, ThreadsAssumption DEF TypeInv, Durable, Handled, Drained, TypeOK, Recorded,
       Stored, Offer, executions, state, outside, adding, joins
<1>19. ASSUME NEW k \in Joiners, JoinReports(k) PROVE Handled'
  BY <1>19, ThreadsAssumption DEF TypeInv, Durable, Handled, Drained, TypeOK, Recorded,
       Stored, JoinReports, executions, state, outside, adding, joins
<1>20. ASSUME NEW loaded \in BOOLEAN, Restart(loaded) PROVE Handled'
  BY <1>20, ThreadsAssumption DEF TypeInv, Durable, Handled, Drained, TypeOK, Recorded,
       Stored, Restart, executions, state, outside, adding, joins
<1>21. CASE UNCHANGED vars
  BY <1>21 DEF TypeInv, Durable, Handled, Drained, TypeOK, Recorded, Stored, vars,
       executions, state, outside, adding, joins
<1> QED
  BY <1>1, <1>2, <1>3, <1>4, <1>5, <1>6, <1>7, <1>8, <1>9, <1>10, <1>11, <1>12, <1>13,
       <1>14, <1>15, <1>16, <1>17, <1>18, <1>19, <1>20, <1>21 DEF Next, Add, Join

\* An end join that reports success left nothing undurable.
THEOREM SuccessfulJoinIsDurable == ASSUME ~LoadMayFail PROVE Spec => []JoinFinalizes
<1>1. Handled => JoinFinalizes
  BY DEF Handled, JoinFinalizes
<1>2. TypeInv /\ Durable /\ [Next]_vars => Durable'
  BY DurableStep
<1>3. TypeInv /\ Durable /\ Handled /\ [Next]_vars => Handled'
  BY HandledStep
<1> QED
  BY <1>1, <1>2, <1>3, TypeInit, TypeStep, DurableInit, HandledInit, PTL DEF Spec
-----------------------------------------------------------------------------
\* Whatever is recorded, owed, offered or being added was launched, and what is
\* owed or added belongs to this life of the process.
Launched ==
  /\ \A e \in records : phase[e] # "new"
  /\ \A e \in ledger : phase[e] \in {"running", "settled"}
  /\ \A k \in Joiners : \A e \in todo[k] : phase[e] \in {"running", "settled"}
  /\ \A p \in Threads : cur[p] # None => phase[cur[p]] \in {"running", "settled"}
  /\ \A e \in Execs : cur[e] \in {None, e}

LEMMA LaunchedInit == Init => Launched
BY DEF Init, Launched

LEMMA LaunchedStep == ~LoadMayFail /\ TypeInv /\ Durable /\ Launched /\ [Next]_vars => Launched'
<1> SUFFICES ASSUME ~LoadMayFail, TypeInv, Durable, Launched, [Next]_vars PROVE Launched'
  OBVIOUS
<1>1. ASSUME NEW e \in Execs, Launch(e) PROVE Launched'
  BY <1>1, ThreadsAssumption DEF TypeInv, Durable, Launched, TypeOK, Launch, executions,
       state, outside, adding, joins
<1>2. ASSUME NEW e \in Execs, Audit(e) PROVE Launched'
  BY <1>2, ThreadsAssumption DEF TypeInv, Durable, Launched, TypeOK, Audit, executions,
       state, outside, adding, joins
<1>3. ASSUME NEW e \in Execs, Report(e) PROVE Launched'
  BY <1>3, ThreadsAssumption DEF TypeInv, Durable, Launched, TypeOK, Report, executions,
       state, outside, adding, joins
<1>4. CASE AcceptEnd
  BY <1>4, ThreadsAssumption DEF TypeInv, Durable, Launched, TypeOK, AcceptEnd, executions,
       state, outside, adding, joins
<1>5. ASSUME NEW p \in Threads, Record(p) PROVE Launched'
  BY <1>5, ThreadsAssumption DEF TypeInv, Durable, Launched, TypeOK, Record, executions,
       state, outside, adding, joins
<1>6. ASSUME NEW p \in Threads, Queue(p) PROVE Launched'
  BY <1>6, ThreadsAssumption DEF TypeInv, Durable, Launched, TypeOK, Queue, executions,
       state, outside, adding, joins
<1>7. ASSUME NEW p \in Threads, BeginSave(p) PROVE Launched'
  BY <1>7, ThreadsAssumption DEF TypeInv, Durable, Launched, TypeOK, BeginSave, executions,
       state, outside, adding, joins
<1>8. ASSUME NEW p \in Threads, SaveSucceeds(p) PROVE Launched'
  BY <1>8, ThreadsAssumption DEF TypeInv, Durable, Launched, TypeOK, SaveSucceeds,
       executions, state, outside, adding, joins
<1>9. ASSUME NEW p \in Threads, SaveFails(p) PROVE Launched'
  BY <1>9, ThreadsAssumption DEF TypeInv, Durable, Launched, TypeOK, SaveFails, AfterSave,
       executions, state, outside, adding, joins
<1>10. ASSUME NEW p \in Threads, Take(p) PROVE Launched'
  BY <1>10, ThreadsAssumption DEF TypeInv, Durable, Launched, TypeOK, Take, executions,
       state, outside, adding, joins
<1>11. ASSUME NEW p \in Threads, NEW e \in Execs, Announce(p, e) PROVE Launched'
  BY <1>11, ThreadsAssumption DEF TypeInv, Durable, Launched, TypeOK, Announce, executions,
       state, outside, adding, joins
<1>12. ASSUME NEW p \in Threads, Mark(p) PROVE Launched'
  BY <1>12, ThreadsAssumption DEF TypeInv, Durable, Launched, TypeOK, Mark, executions,
       state, outside, adding, joins
<1>13. ASSUME NEW p \in Threads, Announced(p) PROVE Launched'
  BY <1>13, ThreadsAssumption DEF TypeInv, Durable, Launched, TypeOK, Announced, AfterSave,
       executions, state, outside, adding, joins
<1>14. ASSUME NEW p \in Threads, Settle(p) PROVE Launched'
  <2>1. PICK c \in Execs : c = cur[p]
    BY <1>14, ThreadsAssumption DEF TypeInv, TypeOK, Settle
  <2>2. \A e \in Execs : phase'[e] = phase[e] \/ phase'[e] = "settled"
    BY <1>14 DEF Settle, TypeInv, TypeOK
  <2>3. /\ records' = records /\ todo' = todo
        /\ ledger' \subseteq ledger \cup {c}
        /\ cur' = [cur EXCEPT ![p] = None]
    BY <1>14, <2>1 DEF Settle, state, joins
  <2>4. phase[c] \in {"running", "settled"}
    BY <2>1, ThreadsAssumption DEF Launched
  <2> QED
    BY <2>2, <2>3, <2>4, ThreadsAssumption DEF Launched, TypeInv, TypeOK
<1>15. ASSUME NEW k \in Joiners, NEW afterJoin \in BOOLEAN, RetrySaves(k, afterJoin) PROVE Launched'
  BY <1>15, ThreadsAssumption DEF TypeInv, Durable, Launched, TypeOK, RetrySaves,
       executions, state, outside, adding, joins
<1>16. ASSUME NEW k \in Joiners, ReturnEarly(k) PROVE Launched'
  BY <1>16, ThreadsAssumption DEF TypeInv, Durable, Launched, TypeOK, ReturnEarly,
       executions, state, outside, adding, joins
<1>17. ASSUME NEW k \in Joiners, CopyLedger(k) PROVE Launched'
  BY <1>17, ThreadsAssumption DEF TypeInv, Durable, Launched, TypeOK, CopyLedger,
       executions, state, outside, adding, joins
<1>18. ASSUME NEW k \in Joiners, NEW e \in Execs, Offer(k, e) PROVE Launched'
  BY <1>18, ThreadsAssumption DEF TypeInv, Durable, Launched, TypeOK, Offer, executions,
       state, outside, adding, joins
<1>19. ASSUME NEW k \in Joiners, JoinReports(k) PROVE Launched'
  BY <1>19, ThreadsAssumption DEF TypeInv, Durable, Launched, TypeOK, JoinReports,
       executions, state, outside, adding, joins
<1>20. ASSUME NEW loaded \in BOOLEAN, Restart(loaded) PROVE Launched'
  BY <1>20, ThreadsAssumption DEF TypeInv, Durable, Launched, TypeOK, Restart, executions,
       state, outside, adding, joins
<1>21. CASE UNCHANGED vars
  BY <1>21 DEF TypeInv, Durable, Launched, TypeOK, vars, executions, state, outside, adding,
       joins
<1> QED
  BY <1>1, <1>2, <1>3, <1>4, <1>5, <1>6, <1>7, <1>8, <1>9, <1>10, <1>11, <1>12, <1>13,
       <1>14, <1>15, <1>16, <1>17, <1>18, <1>19, <1>20, <1>21 DEF Next, Add, Join

\* Settling takes no execution to or from a former life.
LEMMA SettlePhase ==
  ASSUME TypeInv, Launched, NEW p \in Threads, Settle(p)
  PROVE  \A e \in Execs : phase'[e] = "dead" <=> phase[e] = "dead"
<1>1. ASSUME p \in Execs PROVE cur[p] = p
  BY <1>1, ThreadsAssumption DEF TypeInv, TypeOK, Launched, Settle
<1>2. ASSUME p \in Execs PROVE phase[p] # "dead"
  BY <1>1, <1>2, ThreadsAssumption DEF Launched
<1> QED
  BY <1>2 DEF Settle, TypeInv, TypeOK


\* What was announced was announced: the mark follows the event.
Told ==
  /\ AnnouncementOwed
  /\ \A e \in published : events[e] > 0
  /\ \A p \in Threads : telling[p] # None => events[telling[p]] > 0
  /\ \A p \in Threads : pc[p] \notin {"announce", "mark"} => batch[p] = {}

LEMMA ToldInit == Init => Told
BY DEF Init, Told, AnnouncementOwed

LEMMA ToldStep ==
  ~LoadMayFail /\ TypeInv /\ Durable /\ Launched /\ Told /\ [Next]_vars => Told'
<1> SUFFICES ASSUME ~LoadMayFail, TypeInv, Durable, Launched, Told, [Next]_vars PROVE Told'
  OBVIOUS
<1>1. ASSUME NEW e \in Execs, Launch(e) PROVE Told'
  BY <1>1, ThreadsAssumption DEF TypeInv, Durable, Launched, Told, AnnouncementOwed, TypeOK,
       Launch, executions, state, outside, adding, joins
<1>2. ASSUME NEW e \in Execs, Audit(e) PROVE Told'
  BY <1>2, ThreadsAssumption DEF TypeInv, Durable, Launched, Told, AnnouncementOwed, TypeOK,
       Audit, executions, state, outside, adding, joins
<1>3. ASSUME NEW e \in Execs, Report(e) PROVE Told'
  BY <1>3, ThreadsAssumption DEF TypeInv, Durable, Launched, Told, AnnouncementOwed, TypeOK,
       Report, executions, state, outside, adding, joins
<1>4. CASE AcceptEnd
  BY <1>4, ThreadsAssumption DEF TypeInv, Durable, Launched, Told, AnnouncementOwed, TypeOK,
       AcceptEnd, executions, state, outside, adding, joins
<1>5. ASSUME NEW p \in Threads, Record(p) PROVE Told'
  BY <1>5, ThreadsAssumption DEF TypeInv, Durable, Launched, Told, AnnouncementOwed, TypeOK,
       Record, executions, state, outside, adding, joins
<1>6. ASSUME NEW p \in Threads, Queue(p) PROVE Told'
  BY <1>6, ThreadsAssumption DEF TypeInv, Durable, Launched, Told, AnnouncementOwed, TypeOK,
       Queue, executions, state, outside, adding, joins
<1>7. ASSUME NEW p \in Threads, BeginSave(p) PROVE Told'
  BY <1>7, ThreadsAssumption DEF TypeInv, Durable, Launched, Told, AnnouncementOwed, TypeOK,
       BeginSave, executions, state, outside, adding, joins
<1>8. ASSUME NEW p \in Threads, SaveSucceeds(p) PROVE Told'
  BY <1>8, ThreadsAssumption DEF TypeInv, Durable, Launched, Told, AnnouncementOwed, TypeOK,
       SaveSucceeds, executions, state, outside, adding, joins
<1>9. ASSUME NEW p \in Threads, SaveFails(p) PROVE Told'
  BY <1>9, ThreadsAssumption DEF TypeInv, Durable, Launched, Told, AnnouncementOwed, TypeOK,
       SaveFails, AfterSave, executions, state, outside, adding, joins
<1>10. ASSUME NEW p \in Threads, Take(p) PROVE Told'
  <2>1. UNCHANGED <<phase, records, events, published, cur, telling>>
    BY <1>10 DEF Take, executions, outside
  <2>2. \A q \in Threads : \A e \in Execs :
          cur[q] = e /\ pc[q] = "queue" => pc'[q] = "queue"
    BY <1>10 DEF Take, TypeInv, TypeOK
  <2>3. batch[p] = {}
    BY <1>10 DEF Take, Told
  <2>4. /\ unpublished \subseteq batch'[p]
        /\ \A q \in Threads : batch[q] \subseteq batch'[q]
    BY <1>10, <2>3 DEF Take, TypeInv, TypeOK
  <2>5. records \subseteq Execs
    BY DEF TypeInv, TypeOK
  <2>6. \A q \in Threads : pc'[q] \notin {"announce", "mark"} =>
          pc[q] \notin {"announce", "mark"} /\ batch'[q] = batch[q]
    BY <1>10 DEF Take, TypeInv, TypeOK
  <2>7. AnnouncementOwed'
    BY <2>1, <2>2, <2>4, <2>5 DEF Told, AnnouncementOwed
  <2> QED
    BY <2>1, <2>6, <2>7 DEF Told
<1>11. ASSUME NEW p \in Threads, NEW e \in Execs, Announce(p, e) PROVE Told'
  BY <1>11, ThreadsAssumption DEF TypeInv, Durable, Launched, Told, AnnouncementOwed,
       TypeOK, Announce, executions, state, outside, adding, joins
<1>12. ASSUME NEW p \in Threads, Mark(p) PROVE Told'
  BY <1>12, ThreadsAssumption DEF TypeInv, Durable, Launched, Told, AnnouncementOwed,
       TypeOK, Mark, executions, state, outside, adding, joins
<1>13. ASSUME NEW p \in Threads, Announced(p) PROVE Told'
  BY <1>13, ThreadsAssumption DEF TypeInv, Durable, Launched, Told, AnnouncementOwed,
       TypeOK, Announced, AfterSave, executions, state, outside, adding, joins
<1>14. ASSUME NEW p \in Threads, Settle(p) PROVE Told'
  <2>1. \A e \in Execs : phase'[e] = "dead" <=> phase[e] = "dead"
    BY SettlePhase, <1>14
  <2>2. UNCHANGED <<records, events, unpublished, published, batch, telling>>
    BY <1>14 DEF Settle, state
  <2>3. \A q \in Threads : \A e \in Execs :
          cur[q] = e /\ pc[q] = "queue" => cur'[q] = e /\ pc'[q] = "queue"
    BY <1>14 DEF Settle, TypeInv, TypeOK
  <2>4. records \subseteq Execs
    BY DEF TypeInv, TypeOK
  <2>5. \A q \in Threads : pc'[q] \notin {"announce", "mark"} => pc[q] \notin {"announce", "mark"}
    BY <1>14 DEF Settle, TypeInv, TypeOK
  <2>6. AnnouncementOwed'
    BY <2>1, <2>2, <2>3, <2>4 DEF Told, AnnouncementOwed
  <2> QED
    BY <2>2, <2>5, <2>6 DEF Told
<1>15. ASSUME NEW k \in Joiners, NEW afterJoin \in BOOLEAN, RetrySaves(k, afterJoin) PROVE Told'
  BY <1>15, ThreadsAssumption DEF TypeInv, Durable, Launched, Told, AnnouncementOwed,
       TypeOK, RetrySaves, executions, state, outside, adding, joins
<1>16. ASSUME NEW k \in Joiners, ReturnEarly(k) PROVE Told'
  BY <1>16, ThreadsAssumption DEF TypeInv, Durable, Launched, Told, AnnouncementOwed,
       TypeOK, ReturnEarly, executions, state, outside, adding, joins
<1>17. ASSUME NEW k \in Joiners, CopyLedger(k) PROVE Told'
  BY <1>17, ThreadsAssumption DEF TypeInv, Durable, Launched, Told, AnnouncementOwed,
       TypeOK, CopyLedger, executions, state, outside, adding, joins
<1>18. ASSUME NEW k \in Joiners, NEW e \in Execs, Offer(k, e) PROVE Told'
  BY <1>18, ThreadsAssumption DEF TypeInv, Durable, Launched, Told, AnnouncementOwed,
       TypeOK, Offer, executions, state, outside, adding, joins
<1>19. ASSUME NEW k \in Joiners, JoinReports(k) PROVE Told'
  BY <1>19, ThreadsAssumption DEF TypeInv, Durable, Launched, Told, AnnouncementOwed,
       TypeOK, JoinReports, executions, state, outside, adding, joins
<1>20. ASSUME NEW loaded \in BOOLEAN, Restart(loaded) PROVE Told'
  BY <1>20, ThreadsAssumption DEF TypeInv, Durable, Launched, Told, AnnouncementOwed,
       TypeOK, Restart, executions, state, outside, adding, joins
<1>21. CASE UNCHANGED vars
  BY <1>21 DEF TypeInv, Durable, Launched, Told, AnnouncementOwed, TypeOK, vars, executions,
       state, outside, adding, joins
<1> QED
  BY <1>1, <1>2, <1>3, <1>4, <1>5, <1>6, <1>7, <1>8, <1>9, <1>10, <1>11, <1>12, <1>13,
       <1>14, <1>15, <1>16, <1>17, <1>18, <1>19, <1>20, <1>21 DEF Next, Add, Join

\* A completion that was recorded is announced, or somebody has it to announce.
THEOREM AnnouncementsAreOwed == ASSUME ~LoadMayFail PROVE Spec => []AnnouncementOwed
<1>1. Told => AnnouncementOwed
  BY DEF Told
<1>2. TypeInv /\ Durable /\ Launched /\ [Next]_vars => Launched'
  BY LaunchedStep
<1>3. TypeInv /\ Durable /\ Launched /\ Told /\ [Next]_vars => Told'
  BY ToldStep
<1>4. TypeInv /\ Durable /\ [Next]_vars => Durable'
  BY DurableStep
<1> QED
  BY <1>1, <1>2, <1>3, <1>4, TypeInit, TypeStep, DurableInit, LaunchedInit, ToldInit, PTL
     DEF Spec
-----------------------------------------------------------------------------
\* The refinement of the sink, one completion at a time.
SinkVal == [e \in Execs |-> SinkOf(e)]

LEMMA SinkFrame ==
  ASSUME \A e \in Execs : SinkOf(e)' = SinkOf(e)
  PROVE  SinkVal' = SinkVal
BY DEF SinkVal

LEMMA SinkStep ==
  ~LoadMayFail /\ TypeInv /\ Durable /\ Launched /\ [Next]_vars => [Sink!Next]_SinkVal
<1> SUFFICES ASSUME ~LoadMayFail, TypeInv, Durable, Launched, [Next]_vars
             PROVE  [Sink!Next]_SinkVal
  OBVIOUS
<1> DEFINE Same == \A e \in Execs : SinkOf(e)' = SinkOf(e)
<1>a. Same => [Sink!Next]_SinkVal
  BY SinkFrame
<1>1. ASSUME NEW e \in Execs, Launch(e) PROVE [Sink!Next]_SinkVal
  BY <1>1, <1>a, ThreadsAssumption DEF TypeInv, TypeOK, SinkOf, Launch, executions, state,
       outside, adding, joins
<1>2. ASSUME NEW e \in Execs, Audit(e) PROVE [Sink!Next]_SinkVal
  BY <1>2, <1>a, ThreadsAssumption DEF TypeInv, TypeOK, SinkOf, Audit, executions, state,
       outside, adding, joins
<1>3. ASSUME NEW e \in Execs, Report(e) PROVE [Sink!Next]_SinkVal
  BY <1>3, <1>a, ThreadsAssumption DEF TypeInv, TypeOK, SinkOf, Report, executions, state,
       outside, adding, joins
<1>4. CASE AcceptEnd
  BY <1>4, <1>a, ThreadsAssumption DEF TypeInv, TypeOK, SinkOf, AcceptEnd, executions,
       state, outside, adding, joins
<1>5. ASSUME NEW p \in Threads, Record(p) PROVE [Sink!Next]_SinkVal
  BY <1>5, <1>a, ThreadsAssumption DEF TypeInv, TypeOK, SinkOf, Record, executions, state,
       outside, adding, joins
<1>6. ASSUME NEW p \in Threads, Queue(p) PROVE [Sink!Next]_SinkVal
  BY <1>6, <1>a, ThreadsAssumption DEF TypeInv, TypeOK, SinkOf, Queue, executions, state,
       outside, adding, joins
<1>7. ASSUME NEW p \in Threads, BeginSave(p) PROVE [Sink!Next]_SinkVal
  BY <1>7, <1>a, ThreadsAssumption DEF TypeInv, TypeOK, SinkOf, BeginSave, executions,
       state, outside, adding, joins
<1>8. ASSUME NEW p \in Threads, SaveSucceeds(p) PROVE [Sink!Next]_SinkVal
  <2>1. stored \subseteq stored'
    BY <1>8 DEF SaveSucceeds, Durable
  <2>2. Same
    BY <1>8, <2>1 DEF SaveSucceeds, Durable, SinkOf, executions
  <2> QED
    BY <1>a, <2>2
<1>9. ASSUME NEW p \in Threads, SaveFails(p) PROVE [Sink!Next]_SinkVal
  BY <1>9, <1>a, ThreadsAssumption DEF TypeInv, TypeOK, SinkOf, SaveFails, AfterSave,
       executions, state, outside, adding, joins
<1>10. ASSUME NEW p \in Threads, Take(p) PROVE [Sink!Next]_SinkVal
  BY <1>10, <1>a, ThreadsAssumption DEF TypeInv, TypeOK, SinkOf, Take, executions, state,
       outside, adding, joins
<1>11. ASSUME NEW p \in Threads, NEW e \in Execs, Announce(p, e) PROVE [Sink!Next]_SinkVal
  BY <1>11, <1>a, ThreadsAssumption DEF TypeInv, TypeOK, SinkOf, Announce, executions,
       state, outside, adding, joins
<1>12. ASSUME NEW p \in Threads, Mark(p) PROVE [Sink!Next]_SinkVal
  BY <1>12, <1>a, ThreadsAssumption DEF TypeInv, TypeOK, SinkOf, Mark, executions, state,
       outside, adding, joins
<1>13. ASSUME NEW p \in Threads, Announced(p) PROVE [Sink!Next]_SinkVal
  BY <1>13, <1>a, ThreadsAssumption DEF TypeInv, TypeOK, SinkOf, Announced, AfterSave,
       executions, state, outside, adding, joins
<1>14. ASSUME NEW p \in Threads, Settle(p) PROVE [Sink!Next]_SinkVal
  <2>1. PICK c \in Execs : c = cur[p]
    BY <1>14, ThreadsAssumption DEF TypeInv, TypeOK, Settle
  <2>2. phase[c] \in {"running", "settled"}
    BY <2>1, ThreadsAssumption DEF Launched
  <2>3. \A e \in Execs : phase'[e] = "dead" <=> phase[e] = "dead"
    BY SettlePhase, <1>14
  <2>4. /\ stored' = stored
        /\ ledger' = IF ok[p] THEN ledger \ {c} ELSE ledger \cup {c}
        /\ accepted' = IF ok[p] THEN accepted \cup {c} ELSE accepted
    BY <1>14, <2>1 DEF Settle
  <2>5. \A e \in Execs \ {c} : SinkOf(e)' = SinkOf(e)
    BY <2>3, <2>4 DEF SinkOf
  <2>6. SinkOf(c) \in {"none", "failed", "stored"}
    BY <2>2 DEF SinkOf
  <2>7. CASE ok[p]
    <3>1. c \in stored
      BY <1>14, <2>1, <2>7, ThreadsAssumption DEF Settle, Durable
    <3>2. SinkOf(c)' = "stored"
      BY <2>4, <2>7, <3>1 DEF SinkOf
    <3>3. SinkVal' = [SinkVal EXCEPT ![c] = "stored"]
      BY <2>5, <3>2 DEF SinkVal
    <3>4. SinkVal[c] = SinkOf(c)
      BY DEF SinkVal
    <3> QED
      BY <2>6, <3>3, <3>4 DEF SinkVal, Sink!Next, Sink!Accept
  <2>8. CASE ~ok[p]
    <3>1. SinkOf(c)' = IF SinkOf(c) = "stored" THEN "stored" ELSE "failed"
      BY <2>2, <2>3, <2>4, <2>8 DEF SinkOf
    <3>2. CASE SinkOf(c) = "none"
      <4>1. SinkVal' = [SinkVal EXCEPT ![c] = "failed"]
        BY <2>5, <3>1, <3>2 DEF SinkVal
      <4>2. SinkVal[c] = "none"
        BY <3>2 DEF SinkVal
      <4> QED
        BY <4>1, <4>2 DEF SinkVal, Sink!Next, Sink!Refuse
    <3>3. CASE SinkOf(c) # "none"
      <4>1. SinkOf(c)' = SinkOf(c)
        BY <2>6, <3>1, <3>3
      <4> QED
        BY <1>a, <2>5, <4>1
    <3> QED
      BY <3>2, <3>3
  <2> QED
    BY <2>7, <2>8
<1>15. ASSUME NEW k \in Joiners, NEW afterJoin \in BOOLEAN, RetrySaves(k, afterJoin) PROVE [Sink!Next]_SinkVal
  BY <1>15, <1>a, ThreadsAssumption DEF TypeInv, TypeOK, SinkOf, RetrySaves, executions,
       state, outside, adding, joins
<1>16. ASSUME NEW k \in Joiners, ReturnEarly(k) PROVE [Sink!Next]_SinkVal
  BY <1>16, <1>a, ThreadsAssumption DEF TypeInv, TypeOK, SinkOf, ReturnEarly, executions,
       state, outside, adding, joins
<1>17. ASSUME NEW k \in Joiners, CopyLedger(k) PROVE [Sink!Next]_SinkVal
  BY <1>17, <1>a, ThreadsAssumption DEF TypeInv, TypeOK, SinkOf, CopyLedger, executions,
       state, outside, adding, joins
<1>18. ASSUME NEW k \in Joiners, NEW e \in Execs, Offer(k, e) PROVE [Sink!Next]_SinkVal
  BY <1>18, <1>a, ThreadsAssumption DEF TypeInv, TypeOK, SinkOf, Offer, executions, state,
       outside, adding, joins
<1>19. ASSUME NEW k \in Joiners, JoinReports(k) PROVE [Sink!Next]_SinkVal
  BY <1>19, <1>a, ThreadsAssumption DEF TypeInv, TypeOK, SinkOf, JoinReports, executions,
       state, outside, adding, joins
<1>20. ASSUME NEW loaded \in BOOLEAN, Restart(loaded) PROVE [Sink!Next]_SinkVal
  <2> DEFINE running == {e \in Execs : phase[e] # "new"}
  <2>1. \A e \in Execs : SinkOf(e)' =
          IF SinkOf(e) = "failed" \/ (SinkOf(e) = "none" /\ e \in running) THEN "gone"
          ELSE SinkOf(e)
    BY <1>20 DEF TypeInv, TypeOK, Restart, SinkOf, Durable, Launched
  <2>2. SinkVal' = [e \in Execs |->
          IF SinkVal[e] = "failed" \/ (SinkVal[e] = "none" /\ e \in running) THEN "gone"
          ELSE SinkVal[e]]
    BY <2>1 DEF SinkVal
  <2> QED
    BY <2>2 DEF SinkVal, Sink!Next, Sink!Crash
<1>21. CASE UNCHANGED vars
  BY <1>21 DEF SinkOf, SinkVal, vars, executions, state, outside, adding, joins
<1> QED
  BY <1>1, <1>2, <1>3, <1>4, <1>5, <1>6, <1>7, <1>8, <1>9, <1>10, <1>11, <1>12, <1>13,
       <1>14, <1>15, <1>16, <1>17, <1>18, <1>19, <1>20, <1>21 DEF Next, Add, Join

\* The session's list is the sink the command service relies on, as long as a
\* resume can load it.
THEOREM ImplementsSink == ASSUME ~LoadMayFail PROVE Spec => ImplementsExitSink
<1>1. Init => SinkVal = [e \in Execs |-> "none"]
  BY DEF Init, SinkVal, SinkOf
<1>2. Init => Sink!Init
  BY <1>1 DEF Sink!Init, SinkVal
<1>3. TypeInv /\ Durable /\ Launched /\ [Next]_vars => [Sink!Next]_[e \in Execs |-> SinkOf(e)]
  BY SinkStep DEF SinkVal
<1>4. TypeInv /\ Durable /\ Launched /\ [Next]_vars => Launched'
  BY LaunchedStep
<1>5. TypeInv /\ Durable /\ [Next]_vars => Durable'
  BY DurableStep
<1> QED
  BY <1>2, <1>3, <1>4, <1>5, TypeInit, TypeStep, DurableInit, LaunchedInit, PTL
     DEF Spec, ImplementsExitSink, Sink!Spec
=============================================================================
