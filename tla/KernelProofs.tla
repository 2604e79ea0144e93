----------------------------- MODULE KernelProofs -----------------------------
(***************************************************************************)
(* The kernel, for any number of sessions, runs and slots: its types, the  *)
(* exclusion of sessions, its bookkeeping, and that it implements the      *)
(* ledger of runs.                                                         *)
(***************************************************************************)
EXTENDS KernelLedger, DataLemmas

USE SlotsAssumption, NoneAssumption

-----------------------------------------------------------------------------
(* What the queue operations of the kernel do *)

QueueInv ==
    /\ phase \in [Runs -> Phases]
    /\ queue \in Seq(Runs)
    /\ NoRepeat(queue)
    /\ \A r \in Runs : r \in QueuedRuns <=> phase[r] = "queued"

\* releaseSlot() wakes at most one run, the head, and wakes one whenever the
\* queue is not empty.
LEMMA ReleaseSlotFacts ==
    ASSUME QueueInv, NEW r \in Runs, phase[r] \in {"freed", "failing"}, ReleaseSlot(r)
    PROVE  /\ QueueInv'
           /\ phase'[r] = "done"
           /\ \A q \in Runs \ {r} :
                 phase'[q] = phase[q] \/ (phase[q] = "queued" /\ phase'[q] = "granted")
           /\ queue' # <<>> => \E q \in Runs : phase'[q] = "granted"
<1>1. CASE queue = <<>>
  <2>1. phase' = [phase EXCEPT ![r] = "done"] /\ queue' = queue
    BY <1>1 DEF ReleaseSlot
  <2>2. phase' \in [Runs -> Phases]
    BY <2>1 DEF QueueInv, Phases, InFlight, Holding
  <2>3. \A q \in Runs : phase'[q] = IF q = r THEN "done" ELSE phase[q]
    BY <2>1 DEF QueueInv
  <2>4. \A q \in Runs : q \in Range(queue') <=> phase'[q] = "queued"
    BY <2>1, <2>3 DEF QueueInv, QueuedRuns
  <2>5. QueueInv'
    BY <2>1, <2>2, <2>4 DEF QueueInv, QueuedRuns
  <2> QED
    BY <1>1, <2>1, <2>3, <2>5
<1>2. CASE queue # <<>>
  <2> DEFINE h == Head(queue)
  <2>1. /\ h \in Runs /\ Tail(queue) \in Seq(Runs)
        /\ h \in Range(queue)
        /\ Range(Tail(queue)) = Range(queue) \ {h}
        /\ NoRepeat(Tail(queue))
    BY <1>2, HeadTailFacts DEF QueueInv
  <2>2. /\ phase' = [phase EXCEPT ![r] = "done", ![h] = "granted"]
        /\ queue' = Tail(queue)
    BY <1>2 DEF ReleaseSlot
  <2> HIDE DEF h
  <2>3. phase[h] = "queued" /\ h # r
    BY <2>1 DEF QueueInv, QueuedRuns
  <2>4. phase' \in [Runs -> Phases]
    BY <2>1, <2>2 DEF QueueInv, Phases, InFlight, Holding
  <2>5. \A q \in Runs : phase'[q] = IF q = r THEN "done"
                                    ELSE IF q = h THEN "granted" ELSE phase[q]
    BY <2>1, <2>2, <2>3 DEF QueueInv
  <2>6. \A q \in Runs : q \in Range(Tail(queue)) <=> phase'[q] = "queued"
    BY <2>1, <2>3, <2>5 DEF QueueInv, QueuedRuns
  <2>7. QueueInv'
    BY <2>1, <2>2, <2>4, <2>6 DEF QueueInv, QueuedRuns
  <2>8. phase'[h] = "granted" /\ phase'[r] = "done"
    BY <2>1, <2>3, <2>5
  <2>9. \A q \in Runs \ {r} : phase'[q] = phase[q] \/ (phase[q] = "queued" /\ phase'[q] = "granted")
    BY <2>3, <2>5
  <2> QED
    BY <2>1, <2>7, <2>8, <2>9
<1> QED
  BY <1>1, <1>2

\* The queue holds exactly the runs whose coroutine is parked in it.
LEMMA QueueStep == QueueInv /\ [Next]_vars => QueueInv'
<1> SUFFICES ASSUME QueueInv, [Next]_vars PROVE QueueInv'
  OBVIOUS
<1> USE DEF QueueInv, QueuedRuns, Phases, InFlight, Holding
<1>1. ASSUME NEW r \in Runs, NEW s \in Sessions, Submit(r, s) PROVE QueueInv'
  BY <1>1 DEF Submit
<1>2. ASSUME NEW r \in Runs, Admit(r) PROVE QueueInv'
  <2>1. CASE queue' = queue /\ phase' = [phase EXCEPT ![r] = "admitted"]
    BY <1>2, <2>1 DEF Admit
  <2>2. CASE queue' = Append(queue, r) /\ phase' = [phase EXCEPT ![r] = "queued"]
    <3>1. r \notin Range(queue)
      BY <1>2 DEF Admit
    <3>2. queue' \in Seq(Runs) /\ Range(queue') = Range(queue) \cup {r} /\ NoRepeat(queue')
      BY <2>2, <3>1, AppendFacts
    <3> QED
      BY <2>2, <3>2
  <2> QED
    BY <1>2, <2>1, <2>2 DEF Admit
<1>3. ASSUME NEW r \in Runs, RejectAdmission(r) PROVE QueueInv'
  BY <1>3 DEF RejectAdmission
<1>4. ASSUME NEW r \in Runs, Start(r) PROVE QueueInv'
  BY <1>4 DEF Start
<1>5. ASSUME NEW r \in Runs, GoLive(r) PROVE QueueInv'
  BY <1>5 DEF GoLive
<1>6. ASSUME NEW r \in Runs, PrepareThrows(r) PROVE QueueInv'
  BY <1>6 DEF PrepareThrows
<1>7. ASSUME NEW r \in Runs, RecordOutcome(r) PROVE QueueInv'
  BY <1>7 DEF RecordOutcome, Outcomes
<1>8. ASSUME NEW r \in Runs, RecordThrows(r) PROVE QueueInv'
  BY <1>8 DEF RecordThrows, Outcomes
<1>9. ASSUME NEW r \in Runs, LeaveActive(r) PROVE QueueInv'
  BY <1>9 DEF LeaveActive
<1>10. ASSUME NEW r \in Runs, Release(r) PROVE QueueInv'
  BY <1>10, ReleaseSlotFacts DEF Release
<1>11. ASSUME NEW r \in Runs, FailAndRelease(r) PROVE QueueInv'
  BY <1>11, ReleaseSlotFacts DEF FailAndRelease
<1>12. ASSUME NEW r \in Runs, Cancelled(r) PROVE QueueInv'
  BY <1>12 DEF Cancelled
<1>13. ASSUME NEW r \in Runs, InterruptActive(r) PROVE QueueInv'
  BY <1>13 DEF InterruptActive
<1>14. ASSUME NEW r \in Runs, InterruptQueued(r) PROVE QueueInv'
  BY <1>14, RemoveAtFacts DEF InterruptQueued, QueuedRuns
<1>15. ASSUME NEW r \in Runs, GraceExpires(r) PROVE QueueInv'
  BY <1>15 DEF GraceExpires
<1>16. ASSUME NEW r \in Runs, CeilingStops(r) PROVE QueueInv'
  BY <1>16 DEF CeilingStops
<1>17. ASSUME NEW s \in Sessions, RewindBegin(s) PROVE QueueInv'
  BY <1>17 DEF RewindBegin
<1>18. ASSUME NEW s \in Sessions, RewindEnd(s) PROVE QueueInv'
  BY <1>18 DEF RewindEnd
<1>19. ASSUME NEW m \in 1..MaxSlots, SetSlots(m) PROVE QueueInv'
  BY <1>19 DEF SetSlots
<1>20. ASSUME Shutdown PROVE QueueInv'
  <2>1. queue' = <<>> /\ Range(queue') = {} /\ NoRepeat(queue')
    BY <1>20 DEF Shutdown, Range, NoRepeat
  <2>2. phase' = [r \in Runs |-> IF r \in Range(queue) THEN "cancelled" ELSE phase[r]]
    BY <1>20 DEF Shutdown
  <2>3. phase' \in [Runs -> Phases] /\ \A r \in Runs : phase'[r] # "queued"
    BY <2>2
  <2> QED
    BY <2>1, <2>3
<1>21. ASSUME Crash PROVE QueueInv'
  <2>1. queue' = <<>> /\ Range(queue') = {} /\ NoRepeat(queue')
    BY <1>21 DEF Crash, Range, NoRepeat
  <2>2. phase' = [r \in Runs |-> IF phase[r] = "new" THEN "new" ELSE "done"]
    BY <1>21 DEF Crash
  <2> QED
    BY <2>1, <2>2
<1>22. ASSUME Boot PROVE QueueInv'
  BY <1>22 DEF Boot
<1>23. ASSUME UNCHANGED vars PROVE QueueInv'
  BY <1>23 DEF vars
<1> QED
  BY <1>1, <1>2, <1>3, <1>4, <1>5, <1>6, <1>7, <1>8, <1>9, <1>10, <1>11, <1>12, <1>13, <1>14, <1>15, <1>16, <1>17, <1>18, <1>19, <1>20, <1>21, <1>22, <1>23 DEF Next, Coroutine, Operator

-----------------------------------------------------------------------------
(* The rows *)

\* Every write to a row stores one of its legal values.
LEMMA RowsTyped == RowsTypeOK /\ [Next]_vars => RowsTypeOK'
<1> SUFFICES ASSUME RowsTypeOK, [Next]_vars PROVE RowsTypeOK'
  OBVIOUS
<1> USE DEF RowsTypeOK, rows, Unfinished, Terminal
<1>1. ASSUME NEW r \in Runs, NEW s \in Sessions, Submit(r, s) PROVE RowsTypeOK'
  BY <1>1 DEF Submit
<1>2. ASSUME NEW r \in Runs, Admit(r) PROVE RowsTypeOK'
  BY <1>2 DEF Admit
<1>3. ASSUME NEW r \in Runs, RejectAdmission(r) PROVE RowsTypeOK'
  BY <1>3 DEF RejectAdmission
<1>4. ASSUME NEW r \in Runs, Start(r) PROVE RowsTypeOK'
  BY <1>4 DEF Start
<1>5. ASSUME NEW r \in Runs, GoLive(r) PROVE RowsTypeOK'
  BY <1>5 DEF GoLive
<1>6. ASSUME NEW r \in Runs, PrepareThrows(r) PROVE RowsTypeOK'
  BY <1>6 DEF PrepareThrows
<1>7. ASSUME NEW r \in Runs, RecordOutcome(r) PROVE RowsTypeOK'
  BY <1>7 DEF RecordOutcome, Outcomes
<1>8. ASSUME NEW r \in Runs, RecordThrows(r) PROVE RowsTypeOK'
  BY <1>8 DEF RecordThrows, Outcomes
<1>9. ASSUME NEW r \in Runs, LeaveActive(r) PROVE RowsTypeOK'
  BY <1>9 DEF LeaveActive
<1>10. ASSUME NEW r \in Runs, Release(r) PROVE RowsTypeOK'
  BY <1>10 DEF Release, ReleaseSlot
<1>11. ASSUME NEW r \in Runs, FailAndRelease(r) PROVE RowsTypeOK'
  BY <1>11 DEF FailAndRelease, ReleaseSlot
<1>12. ASSUME NEW r \in Runs, Cancelled(r) PROVE RowsTypeOK'
  BY <1>12 DEF Cancelled
<1>13. ASSUME NEW r \in Runs, InterruptActive(r) PROVE RowsTypeOK'
  BY <1>13 DEF InterruptActive
<1>14. ASSUME NEW r \in Runs, InterruptQueued(r) PROVE RowsTypeOK'
  BY <1>14 DEF InterruptQueued
<1>15. ASSUME NEW r \in Runs, GraceExpires(r) PROVE RowsTypeOK'
  BY <1>15 DEF GraceExpires
<1>16. ASSUME NEW r \in Runs, CeilingStops(r) PROVE RowsTypeOK'
  BY <1>16 DEF CeilingStops
<1>17. ASSUME NEW s \in Sessions, RewindBegin(s) PROVE RowsTypeOK'
  BY <1>17 DEF RewindBegin
<1>18. ASSUME NEW s \in Sessions, RewindEnd(s) PROVE RowsTypeOK'
  BY <1>18 DEF RewindEnd
<1>19. ASSUME NEW m \in 1..MaxSlots, SetSlots(m) PROVE RowsTypeOK'
  BY <1>19 DEF SetSlots
<1>20. ASSUME Shutdown PROVE RowsTypeOK'
  BY <1>20 DEF Shutdown
<1>21. ASSUME Crash PROVE RowsTypeOK'
  BY <1>21 DEF Crash
<1>22. ASSUME Boot PROVE RowsTypeOK'
  BY <1>22 DEF Boot
<1>23. ASSUME UNCHANGED vars PROVE RowsTypeOK'
  BY <1>23 DEF vars
<1> QED
  BY <1>1, <1>2, <1>3, <1>4, <1>5, <1>6, <1>7, <1>8, <1>9, <1>10, <1>11, <1>12, <1>13, <1>14, <1>15, <1>16, <1>17, <1>18, <1>19, <1>20, <1>21, <1>22, <1>23 DEF Next, Coroutine, Operator

-----------------------------------------------------------------------------
(* Memory *)

MemoryInv ==
    /\ sess \in [Runs -> Sessions \cup {None}]
    /\ reserved \in SUBSET Sessions
    /\ active \in SUBSET Runs
    /\ \A r \in Runs : r \in active <=> phase[r] \in Executing
    /\ \A r \in Runs : phase[r] \in InFlight => up /\ sess[r] \in Sessions

\* `active` holds exactly the executing runs, and nothing is in flight in a
\* dead process.
LEMMA MemoryStep == QueueInv /\ MemoryInv /\ [Next]_vars => MemoryInv'
<1> SUFFICES ASSUME QueueInv, MemoryInv, [Next]_vars PROVE MemoryInv'
  OBVIOUS
<1> USE DEF MemoryInv, QueueInv, QueuedRuns, InFlight, Holding, Executing, process
<1>1. ASSUME NEW r \in Runs, NEW s \in Sessions, Submit(r, s) PROVE MemoryInv'
  BY <1>1 DEF Submit
<1>2. ASSUME NEW r \in Runs, Admit(r) PROVE MemoryInv'
  BY <1>2 DEF Admit
<1>3. ASSUME NEW r \in Runs, RejectAdmission(r) PROVE MemoryInv'
  BY <1>3 DEF RejectAdmission
<1>4. ASSUME NEW r \in Runs, Start(r) PROVE MemoryInv'
  BY <1>4 DEF Start
<1>5. ASSUME NEW r \in Runs, GoLive(r) PROVE MemoryInv'
  BY <1>5 DEF GoLive
<1>6. ASSUME NEW r \in Runs, PrepareThrows(r) PROVE MemoryInv'
  BY <1>6 DEF PrepareThrows
<1>7. ASSUME NEW r \in Runs, RecordOutcome(r) PROVE MemoryInv'
  BY <1>7 DEF RecordOutcome, Outcomes
<1>8. ASSUME NEW r \in Runs, RecordThrows(r) PROVE MemoryInv'
  BY <1>8 DEF RecordThrows, Outcomes
<1>9. ASSUME NEW r \in Runs, LeaveActive(r) PROVE MemoryInv'
  BY <1>9 DEF LeaveActive
<1>10. ASSUME NEW r \in Runs, Release(r) PROVE MemoryInv'
  BY <1>10, ReleaseSlotFacts DEF Release
<1>11. ASSUME NEW r \in Runs, FailAndRelease(r) PROVE MemoryInv'
  BY <1>11, ReleaseSlotFacts DEF FailAndRelease
<1>12. ASSUME NEW r \in Runs, Cancelled(r) PROVE MemoryInv'
  BY <1>12 DEF Cancelled
<1>13. ASSUME NEW r \in Runs, InterruptActive(r) PROVE MemoryInv'
  BY <1>13 DEF InterruptActive
<1>14. ASSUME NEW r \in Runs, InterruptQueued(r) PROVE MemoryInv'
  <2>1. phase[r] = "queued" /\ phase' = [phase EXCEPT ![r] = "cancelled"]
    BY <1>14, InRange DEF InterruptQueued
  <2> QED
    BY <1>14, <2>1 DEF InterruptQueued
<1>15. ASSUME NEW r \in Runs, GraceExpires(r) PROVE MemoryInv'
  BY <1>15 DEF GraceExpires
<1>16. ASSUME NEW r \in Runs, CeilingStops(r) PROVE MemoryInv'
  BY <1>16 DEF CeilingStops
<1>17. ASSUME NEW s \in Sessions, RewindBegin(s) PROVE MemoryInv'
  BY <1>17 DEF RewindBegin
<1>18. ASSUME NEW s \in Sessions, RewindEnd(s) PROVE MemoryInv'
  BY <1>18 DEF RewindEnd
<1>19. ASSUME NEW m \in 1..MaxSlots, SetSlots(m) PROVE MemoryInv'
  BY <1>19 DEF SetSlots
<1>20. ASSUME Shutdown PROVE MemoryInv'
  <2>1. \A r \in Runs : phase'[r] = IF phase[r] = "queued" THEN "cancelled" ELSE phase[r]
    BY <1>20 DEF Shutdown
  <2> QED
    BY <1>20, <2>1 DEF Shutdown
<1>21. ASSUME Crash PROVE MemoryInv'
  BY <1>21 DEF Crash
<1>22. ASSUME Boot PROVE MemoryInv'
  BY <1>22 DEF Boot
<1>23. ASSUME UNCHANGED vars PROVE MemoryInv'
  BY <1>23 DEF vars
<1> QED
  BY <1>1, <1>2, <1>3, <1>4, <1>5, <1>6, <1>7, <1>8, <1>9, <1>10, <1>11, <1>12, <1>13, <1>14, <1>15, <1>16, <1>17, <1>18, <1>19, <1>20, <1>21, <1>22, <1>23 DEF Next, Coroutine, Operator

\* The kernel's control flags are well typed.
LEMMA ControlTyped ==
    ControlTypeOK /\ MemoryInv /\ [Next]_vars => ControlTypeOK'
<1> SUFFICES ASSUME ControlTypeOK, MemoryInv, [Next]_vars PROVE ControlTypeOK'
  OBVIOUS
<1> USE DEF ControlTypeOK, MemoryInv, control, process
<1>1. ASSUME NEW r \in Runs, NEW s \in Sessions, Submit(r, s) PROVE ControlTypeOK'
  BY <1>1 DEF Submit
<1>2. ASSUME NEW r \in Runs, Admit(r) PROVE ControlTypeOK'
  BY <1>2 DEF Admit
<1>3. ASSUME NEW r \in Runs, RejectAdmission(r) PROVE ControlTypeOK'
  BY <1>3 DEF RejectAdmission
<1>4. ASSUME NEW r \in Runs, Start(r) PROVE ControlTypeOK'
  BY <1>4 DEF Start
<1>5. ASSUME NEW r \in Runs, GoLive(r) PROVE ControlTypeOK'
  BY <1>5 DEF GoLive
<1>6. ASSUME NEW r \in Runs, PrepareThrows(r) PROVE ControlTypeOK'
  BY <1>6 DEF PrepareThrows
<1>7. ASSUME NEW r \in Runs, RecordOutcome(r) PROVE ControlTypeOK'
  BY <1>7 DEF RecordOutcome, Outcomes
<1>8. ASSUME NEW r \in Runs, RecordThrows(r) PROVE ControlTypeOK'
  BY <1>8 DEF RecordThrows, Outcomes
<1>9. ASSUME NEW r \in Runs, LeaveActive(r) PROVE ControlTypeOK'
  BY <1>9 DEF LeaveActive
<1>10. ASSUME NEW r \in Runs, Release(r) PROVE ControlTypeOK'
  BY <1>10 DEF Release, ReleaseSlot
<1>11. ASSUME NEW r \in Runs, FailAndRelease(r) PROVE ControlTypeOK'
  BY <1>11 DEF FailAndRelease, ReleaseSlot
<1>12. ASSUME NEW r \in Runs, Cancelled(r) PROVE ControlTypeOK'
  BY <1>12 DEF Cancelled
<1>13. ASSUME NEW r \in Runs, InterruptActive(r) PROVE ControlTypeOK'
  BY <1>13 DEF InterruptActive
<1>14. ASSUME NEW r \in Runs, InterruptQueued(r) PROVE ControlTypeOK'
  BY <1>14 DEF InterruptQueued
<1>15. ASSUME NEW r \in Runs, GraceExpires(r) PROVE ControlTypeOK'
  BY <1>15 DEF GraceExpires
<1>16. ASSUME NEW r \in Runs, CeilingStops(r) PROVE ControlTypeOK'
  BY <1>16 DEF CeilingStops
<1>17. ASSUME NEW s \in Sessions, RewindBegin(s) PROVE ControlTypeOK'
  BY <1>17 DEF RewindBegin
<1>18. ASSUME NEW s \in Sessions, RewindEnd(s) PROVE ControlTypeOK'
  BY <1>18 DEF RewindEnd
<1>19. ASSUME NEW m \in 1..MaxSlots, SetSlots(m) PROVE ControlTypeOK'
  BY <1>19 DEF SetSlots
<1>20. ASSUME Shutdown PROVE ControlTypeOK'
  BY <1>20 DEF Shutdown
<1>21. ASSUME Crash PROVE ControlTypeOK'
  BY <1>21 DEF Crash
<1>22. ASSUME Boot PROVE ControlTypeOK'
  BY <1>22 DEF Boot
<1>23. ASSUME UNCHANGED vars PROVE ControlTypeOK'
  BY <1>23 DEF vars
<1> QED
  BY <1>1, <1>2, <1>3, <1>4, <1>5, <1>6, <1>7, <1>8, <1>9, <1>10, <1>11, <1>12, <1>13, <1>14, <1>15, <1>16, <1>17, <1>18, <1>19, <1>20, <1>21, <1>22, <1>23 DEF Next, Coroutine, Operator

-----------------------------------------------------------------------------
(* Session exclusion *)

\* What a step does to the set of runs in flight, whatever the action.
Claims(r, s) ==
    /\ s \notin reserved /\ reserved' = reserved \cup {s}
    /\ phase[r] = "new" /\ phase'[r] = "classifying"
    /\ sess' = [sess EXCEPT ![r] = s]
    /\ \A q \in Runs \ {r} : phase'[q] = phase[q]

Leaves(r) ==
    /\ phase[r] \in InFlight /\ phase'[r] = "done"
    /\ sess' = sess /\ reserved' = reserved \ {sess[r]}
    /\ \A q \in Runs \ {r} : phase'[q] \in InFlight <=> phase[q] \in InFlight

Stays ==
    /\ sess' = sess /\ reserved' = reserved
    /\ \A q \in Runs : phase'[q] \in InFlight <=> phase[q] \in InFlight

Empties ==
    /\ sess' = sess /\ reserved' = {}
    /\ \A q \in Runs : phase'[q] \notin InFlight

FlightStep ==
    \/ \E r \in Runs, s \in Sessions : Claims(r, s)
    \/ \E r \in Runs : Leaves(r)
    \/ Stays
    \/ Empties

LEMMA StepIsFlightStep == QueueInv /\ MemoryInv /\ [Next]_vars => FlightStep
<1> SUFFICES ASSUME QueueInv, MemoryInv, [Next]_vars PROVE FlightStep
  OBVIOUS
<1> USE DEF FlightStep, QueueInv, MemoryInv, QueuedRuns, InFlight, Holding
<1>1. ASSUME NEW r \in Runs, NEW s \in Sessions, Submit(r, s) PROVE FlightStep
  <2>1. Claims(r, s)
    BY <1>1 DEF Claims, Submit, HasActiveRunForSession
  <2> QED
    BY <2>1
<1>2. ASSUME NEW r \in Runs, Admit(r) PROVE FlightStep
  <2>1. Stays
    BY <1>2 DEF Stays, Admit
  <2> QED
    BY <2>1
<1>3. ASSUME NEW r \in Runs, RejectAdmission(r) PROVE FlightStep
  <2>1. Leaves(r)
    BY <1>3 DEF Leaves, RejectAdmission
  <2> QED
    BY <2>1
<1>4. ASSUME NEW r \in Runs, Start(r) PROVE FlightStep
  <2>1. Stays
    BY <1>4 DEF Stays, Start
  <2> QED
    BY <2>1
<1>5. ASSUME NEW r \in Runs, GoLive(r) PROVE FlightStep
  <2>1. Stays
    BY <1>5 DEF Stays, GoLive
  <2> QED
    BY <2>1
<1>6. ASSUME NEW r \in Runs, PrepareThrows(r) PROVE FlightStep
  <2>1. Stays
    BY <1>6 DEF Stays, PrepareThrows
  <2> QED
    BY <2>1
<1>7. ASSUME NEW r \in Runs, RecordOutcome(r) PROVE FlightStep
  <2>1. Stays
    BY <1>7 DEF Stays, RecordOutcome
  <2> QED
    BY <2>1
<1>8. ASSUME NEW r \in Runs, RecordThrows(r) PROVE FlightStep
  <2>1. Stays
    BY <1>8 DEF Stays, RecordThrows
  <2> QED
    BY <2>1
<1>9. ASSUME NEW r \in Runs, LeaveActive(r) PROVE FlightStep
  <2>1. Stays
    BY <1>9 DEF Stays, LeaveActive
  <2> QED
    BY <2>1
<1>10. ASSUME NEW r \in Runs, Release(r) PROVE FlightStep
  <2>1. Leaves(r)
    BY <1>10, ReleaseSlotFacts DEF Leaves, Release
  <2> QED
    BY <2>1
<1>11. ASSUME NEW r \in Runs, FailAndRelease(r) PROVE FlightStep
  <2>1. Leaves(r)
    BY <1>11, ReleaseSlotFacts DEF Leaves, FailAndRelease
  <2> QED
    BY <2>1
<1>12. ASSUME NEW r \in Runs, Cancelled(r) PROVE FlightStep
  <2>1. Leaves(r)
    BY <1>12 DEF Leaves, Cancelled
  <2> QED
    BY <2>1
<1>13. ASSUME NEW r \in Runs, InterruptActive(r) PROVE FlightStep
  <2>1. Stays
    BY <1>13 DEF Stays, InterruptActive
  <2> QED
    BY <2>1
<1>14. ASSUME NEW r \in Runs, InterruptQueued(r) PROVE FlightStep
  <2>1. phase[r] = "queued" /\ phase' = [phase EXCEPT ![r] = "cancelled"]
    BY <1>14, InRange DEF InterruptQueued
  <2>2. Stays
    BY <1>14, <2>1 DEF Stays, InterruptQueued
  <2> QED
    BY <2>2
<1>15. ASSUME NEW r \in Runs, GraceExpires(r) PROVE FlightStep
  <2>1. Stays
    BY <1>15 DEF Stays, GraceExpires
  <2> QED
    BY <2>1
<1>16. ASSUME NEW r \in Runs, CeilingStops(r) PROVE FlightStep
  <2>1. Stays
    BY <1>16 DEF Stays, CeilingStops
  <2> QED
    BY <2>1
<1>17. ASSUME NEW s \in Sessions, RewindBegin(s) PROVE FlightStep
  <2>1. Stays
    BY <1>17 DEF Stays, RewindBegin
  <2> QED
    BY <2>1
<1>18. ASSUME NEW s \in Sessions, RewindEnd(s) PROVE FlightStep
  <2>1. Stays
    BY <1>18 DEF Stays, RewindEnd
  <2> QED
    BY <2>1
<1>19. ASSUME NEW m \in 1..MaxSlots, SetSlots(m) PROVE FlightStep
  <2>1. Stays
    BY <1>19 DEF Stays, SetSlots
  <2> QED
    BY <2>1
<1>20. ASSUME Shutdown PROVE FlightStep
  <2>1. \A r \in Runs : phase'[r] = IF phase[r] = "queued" THEN "cancelled" ELSE phase[r]
    BY <1>20 DEF Shutdown
  <2>2. Stays
    BY <1>20, <2>1 DEF Stays, Shutdown
  <2> QED
    BY <2>2
<1>21. ASSUME Crash PROVE FlightStep
  <2>1. Empties
    BY <1>21 DEF Empties, Crash
  <2> QED
    BY <2>1
<1>22. ASSUME Boot PROVE FlightStep
  <2>1. Stays
    BY <1>22 DEF Stays, Boot
  <2> QED
    BY <2>1
<1>23. ASSUME UNCHANGED vars PROVE FlightStep
  <2>1. Stays
    BY <1>23 DEF Stays, vars
  <2> QED
    BY <2>1
<1> QED
  BY <1>1, <1>2, <1>3, <1>4, <1>5, <1>6, <1>7, <1>8, <1>9, <1>10, <1>11, <1>12, <1>13, <1>14, <1>15, <1>16, <1>17, <1>18, <1>19, <1>20, <1>21, <1>22, <1>23 DEF Next, Coroutine, Operator

\* One run per session at most, and the claim is held exactly as long.
LEMMA ExclusionStep ==
    QueueInv /\ MemoryInv /\ OneRunPerSession /\ ReservationExact /\ [Next]_vars
        => OneRunPerSession' /\ ReservationExact'
<1> SUFFICES ASSUME QueueInv, MemoryInv, OneRunPerSession, ReservationExact, [Next]_vars
             PROVE  OneRunPerSession' /\ ReservationExact'
  OBVIOUS
<1>0. FlightStep
  BY StepIsFlightStep
<1>1. ASSUME NEW r \in Runs, NEW s \in Sessions, Claims(r, s)
      PROVE  OneRunPerSession' /\ ReservationExact'
  <2>1. \A q \in Runs : phase[q] \in InFlight => sess[q] # s
    BY <1>1 DEF ReservationExact, Claims, InFlightOf
  <2>2. "classifying" \in InFlight /\ "new" \notin InFlight
    BY DEF InFlight, Holding
  <2>3. sess'[r] = s /\ \A q \in Runs \ {r} : sess'[q] = sess[q] /\ phase'[q] = phase[q]
    BY <1>1 DEF Claims, MemoryInv
  <2>4. phase[r] \notin InFlight /\ phase'[r] \in InFlight
    BY <1>1, <2>2 DEF Claims
  <2>5. OneRunPerSession'
    BY <2>1, <2>3 DEF OneRunPerSession
  <2>6. ASSUME NEW t \in Sessions PROVE t \in reserved' <=> InFlightOf(t)' # {}
    <3>1. CASE t = s
      BY <1>1, <2>3, <2>4, <3>1 DEF Claims, InFlightOf
    <3>2. CASE t # s
      <4>1. \A q \in Runs : q \in InFlightOf(t)' <=> q \in InFlightOf(t)
        BY <2>3, <2>4, <3>2 DEF InFlightOf
      <4>2. InFlightOf(t)' = InFlightOf(t)
        BY <4>1 DEF InFlightOf
      <4> QED
        BY <1>1, <3>2, <4>2 DEF Claims, ReservationExact
    <3> QED
      BY <3>1, <3>2
  <2> QED
    BY <2>5, <2>6 DEF ReservationExact
<1>2. ASSUME NEW r \in Runs, Leaves(r)
      PROVE  OneRunPerSession' /\ ReservationExact'
  <2>1. phase'[r] \notin InFlight /\ sess[r] \in Sessions
    BY <1>2 DEF Leaves, InFlight, Holding, MemoryInv
  <2>2. OneRunPerSession'
    BY <1>2, <2>1 DEF OneRunPerSession, Leaves
  <2>3. ASSUME NEW t \in Sessions PROVE t \in reserved' <=> InFlightOf(t)' # {}
    <3>1. CASE t = sess[r]
      <4>1. InFlightOf(t)' = {}
        BY <1>2, <2>1, <3>1 DEF Leaves, InFlightOf, OneRunPerSession
      <4> QED
        BY <1>2, <3>1, <4>1 DEF Leaves
    <3>2. CASE t # sess[r]
      <4>1. \A q \in Runs : q \in InFlightOf(t)' <=> q \in InFlightOf(t)
        BY <1>2, <2>1, <3>2 DEF Leaves, InFlightOf
      <4>2. InFlightOf(t)' = InFlightOf(t)
        BY <4>1 DEF InFlightOf
      <4> QED
        BY <1>2, <3>2, <4>2 DEF Leaves, ReservationExact
    <3> QED
      BY <3>1, <3>2
  <2> QED
    BY <2>2, <2>3 DEF ReservationExact
<1>3. CASE Stays
  <2>1. \A t \in Sessions : InFlightOf(t)' = InFlightOf(t)
    BY <1>3 DEF Stays, InFlightOf
  <2> QED
    BY <1>3, <2>1 DEF Stays, OneRunPerSession, ReservationExact
<1>4. CASE Empties
  BY <1>4 DEF Empties, OneRunPerSession, ReservationExact, InFlightOf
<1> QED
  BY <1>0, <1>1, <1>2, <1>3, <1>4 DEF FlightStep

-----------------------------------------------------------------------------
(* The queue is never stranded *)

\* A run joins the queue only behind executing runs, and whoever leaves
\* wakes the head.
LEMMA StrandedStep ==
    QueueInv /\ MemoryInv /\ ControlTypeOK /\ NoStrandedQueue /\ [Next]_vars => NoStrandedQueue'
<1> SUFFICES ASSUME QueueInv, MemoryInv, ControlTypeOK, NoStrandedQueue, [Next]_vars
             PROVE  NoStrandedQueue'
  OBVIOUS
<1> USE DEF NoStrandedQueue, Holding
<1>1. ASSUME NEW r \in Runs, NEW s \in Sessions, Submit(r, s) PROVE NoStrandedQueue'
  BY <1>1 DEF Submit, QueueInv
<1>2. ASSUME NEW r \in Runs, Admit(r) PROVE NoStrandedQueue'
  <2>1. CASE phase' = [phase EXCEPT ![r] = "admitted"]
    BY <2>1 DEF QueueInv
  <2>2. CASE Cardinality(active) >= slots /\ phase' = [phase EXCEPT ![r] = "queued"]
    <3>1. active # {}
      <4>1. Cardinality({}) = 0
        BY FS_EmptySet
      <4>2. slots \in Nat /\ slots >= 1
        BY DEF ControlTypeOK
      <4>3. ASSUME active = {} PROVE FALSE
        <5>1. Cardinality(active) = 0
          BY <4>1, <4>3, Zenon
        <5>2. ~(0 >= slots)
          BY <4>2
        <5> QED
          BY <2>2, <5>1, <5>2, Zenon
      <4> QED
        BY <4>3
    <3>2. PICK q \in Runs : phase[q] \in Executing
      BY <3>1 DEF MemoryInv
    <3>3. phase'[q] = phase[q]
      BY <1>2, <2>2, <3>2 DEF Admit, QueueInv, Executing
    <3> QED
      BY <3>2, <3>3 DEF Executing
  <2> QED
    BY <1>2, <2>1, <2>2 DEF Admit
<1>3. ASSUME NEW r \in Runs, RejectAdmission(r) PROVE NoStrandedQueue'
  BY <1>3 DEF RejectAdmission, QueueInv
<1>4. ASSUME NEW r \in Runs, Start(r) PROVE NoStrandedQueue'
  BY <1>4 DEF Start, QueueInv
<1>5. ASSUME NEW r \in Runs, GoLive(r) PROVE NoStrandedQueue'
  BY <1>5 DEF GoLive, QueueInv
<1>6. ASSUME NEW r \in Runs, PrepareThrows(r) PROVE NoStrandedQueue'
  BY <1>6 DEF PrepareThrows, QueueInv
<1>7. ASSUME NEW r \in Runs, RecordOutcome(r) PROVE NoStrandedQueue'
  BY <1>7 DEF RecordOutcome, QueueInv
<1>8. ASSUME NEW r \in Runs, RecordThrows(r) PROVE NoStrandedQueue'
  BY <1>8 DEF RecordThrows, QueueInv
<1>9. ASSUME NEW r \in Runs, LeaveActive(r) PROVE NoStrandedQueue'
  BY <1>9 DEF LeaveActive, QueueInv
<1>10. ASSUME NEW r \in Runs, Release(r) PROVE NoStrandedQueue'
  BY <1>10, ReleaseSlotFacts DEF Release
<1>11. ASSUME NEW r \in Runs, FailAndRelease(r) PROVE NoStrandedQueue'
  BY <1>11, ReleaseSlotFacts DEF FailAndRelease
<1>12. ASSUME NEW r \in Runs, Cancelled(r) PROVE NoStrandedQueue'
  BY <1>12 DEF Cancelled, QueueInv
<1>13. ASSUME NEW r \in Runs, InterruptActive(r) PROVE NoStrandedQueue'
  BY <1>13 DEF InterruptActive, QueueInv
<1>14. ASSUME NEW r \in Runs, InterruptQueued(r) PROVE NoStrandedQueue'
  <2>1. phase[r] = "queued" /\ phase' = [phase EXCEPT ![r] = "cancelled"] /\ queue # <<>>
    BY <1>14, InRange DEF InterruptQueued, QueueInv, QueuedRuns
  <2> QED
    BY <2>1 DEF QueueInv
<1>15. ASSUME NEW r \in Runs, GraceExpires(r) PROVE NoStrandedQueue'
  BY <1>15 DEF GraceExpires, QueueInv
<1>16. ASSUME NEW r \in Runs, CeilingStops(r) PROVE NoStrandedQueue'
  BY <1>16 DEF CeilingStops, QueueInv
<1>17. ASSUME NEW s \in Sessions, RewindBegin(s) PROVE NoStrandedQueue'
  BY <1>17 DEF RewindBegin, QueueInv
<1>18. ASSUME NEW s \in Sessions, RewindEnd(s) PROVE NoStrandedQueue'
  BY <1>18 DEF RewindEnd, QueueInv
<1>19. ASSUME NEW m \in 1..MaxSlots, SetSlots(m) PROVE NoStrandedQueue'
  BY <1>19 DEF SetSlots, QueueInv
<1>20. ASSUME Shutdown PROVE NoStrandedQueue'
  BY <1>20 DEF Shutdown, QueueInv
<1>21. ASSUME Crash PROVE NoStrandedQueue'
  BY <1>21 DEF Crash, QueueInv
<1>22. ASSUME Boot PROVE NoStrandedQueue'
  BY <1>22 DEF Boot, QueueInv
<1>23. ASSUME UNCHANGED vars PROVE NoStrandedQueue'
  BY <1>23 DEF vars, QueueInv
<1> QED
  BY <1>1, <1>2, <1>3, <1>4, <1>5, <1>6, <1>7, <1>8, <1>9, <1>10, <1>11, <1>12, <1>13, <1>14, <1>15, <1>16, <1>17, <1>18, <1>19, <1>20, <1>21, <1>22, <1>23 DEF Next, Coroutine, Operator

-----------------------------------------------------------------------------
(* Rows and memory agree *)

\* The row of a run says where its coroutine is, in every reachable state.
LEMMA TruthStep ==
    QueueInv /\ MemoryInv /\ RowsTypeOK /\ RowsTellTheTruth /\ [Next]_vars => RowsTellTheTruth'
<1> SUFFICES ASSUME QueueInv, MemoryInv, RowsTypeOK, RowsTellTheTruth, [Next]_vars
             PROVE  RowsTellTheTruth'
  OBVIOUS
<1> USE DEF RowsTellTheTruth, rows, process
<1>1. ASSUME NEW r \in Runs, NEW s \in Sessions, Submit(r, s) PROVE RowsTellTheTruth'
  BY <1>1 DEF Submit, QueueInv, RowsTypeOK, MemoryInv, InFlight, Holding, Phases, Unfinished, Terminal
<1>2. ASSUME NEW r \in Runs, Admit(r) PROVE RowsTellTheTruth'
  BY <1>2 DEF Admit, QueueInv, RowsTypeOK, MemoryInv, InFlight, Holding, Phases, Unfinished, Terminal
<1>3. ASSUME NEW r \in Runs, RejectAdmission(r) PROVE RowsTellTheTruth'
  BY <1>3 DEF RejectAdmission, QueueInv, RowsTypeOK, MemoryInv, InFlight, Holding, Phases, Unfinished, Terminal
<1>4. ASSUME NEW r \in Runs, Start(r) PROVE RowsTellTheTruth'
  BY <1>4 DEF Start, QueueInv, RowsTypeOK, MemoryInv, InFlight, Holding, Phases, Unfinished, Terminal
<1>5. ASSUME NEW r \in Runs, GoLive(r) PROVE RowsTellTheTruth'
  BY <1>5 DEF GoLive, QueueInv, RowsTypeOK, MemoryInv, InFlight, Holding, Phases, Unfinished, Terminal
<1>6. ASSUME NEW r \in Runs, PrepareThrows(r) PROVE RowsTellTheTruth'
  BY <1>6 DEF PrepareThrows, QueueInv, RowsTypeOK, MemoryInv, InFlight, Holding, Phases, Unfinished, Terminal
<1>7. ASSUME NEW r \in Runs, RecordOutcome(r) PROVE RowsTellTheTruth'
  BY <1>7 DEF RecordOutcome, Outcomes, QueueInv, RowsTypeOK, MemoryInv, InFlight, Holding, Phases, Unfinished, Terminal
<1>8. ASSUME NEW r \in Runs, RecordThrows(r) PROVE RowsTellTheTruth'
  BY <1>8 DEF RecordThrows, Outcomes, QueueInv, RowsTypeOK, MemoryInv, InFlight, Holding, Phases, Unfinished, Terminal
<1>9. ASSUME NEW r \in Runs, LeaveActive(r) PROVE RowsTellTheTruth'
  BY <1>9 DEF LeaveActive, QueueInv, RowsTypeOK, MemoryInv, InFlight, Holding, Phases, Unfinished, Terminal
<1>10. ASSUME NEW r \in Runs, Release(r) PROVE RowsTellTheTruth'
  <2>1. phase'[r] = "done" /\ \A q \in Runs \ {r} : phase'[q] = phase[q] \/ (phase[q] = "queued" /\ phase'[q] = "granted")
    BY <1>10, ReleaseSlotFacts DEF Release
  <2> QED
    BY <1>10, <2>1 DEF Release, RowsTypeOK
<1>11. ASSUME NEW r \in Runs, FailAndRelease(r) PROVE RowsTellTheTruth'
  <2>1. phase'[r] = "done" /\ \A q \in Runs \ {r} : phase'[q] = phase[q] \/ (phase[q] = "queued" /\ phase'[q] = "granted")
    BY <1>11, ReleaseSlotFacts DEF FailAndRelease
  <2> QED
    BY <1>11, <2>1 DEF FailAndRelease, RowsTypeOK
<1>12. ASSUME NEW r \in Runs, Cancelled(r) PROVE RowsTellTheTruth'
  BY <1>12 DEF Cancelled, QueueInv, RowsTypeOK, MemoryInv, InFlight, Holding, Phases, Unfinished, Terminal
<1>13. ASSUME NEW r \in Runs, InterruptActive(r) PROVE RowsTellTheTruth'
  BY <1>13 DEF InterruptActive, QueueInv, RowsTypeOK, MemoryInv, InFlight, Holding, Phases, Unfinished, Terminal
<1>14. ASSUME NEW r \in Runs, InterruptQueued(r) PROVE RowsTellTheTruth'
  <2>1. phase[r] = "queued" /\ phase' = [phase EXCEPT ![r] = "cancelled"]
    BY <1>14, InRange DEF InterruptQueued, QueueInv, QueuedRuns
  <2> QED
    BY <1>14, <2>1 DEF InterruptQueued, QueueInv
<1>15. ASSUME NEW r \in Runs, GraceExpires(r) PROVE RowsTellTheTruth'
  BY <1>15 DEF GraceExpires, QueueInv, RowsTypeOK, MemoryInv, InFlight, Holding, Phases, Unfinished, Terminal
<1>16. ASSUME NEW r \in Runs, CeilingStops(r) PROVE RowsTellTheTruth'
  BY <1>16 DEF CeilingStops, QueueInv, RowsTypeOK, MemoryInv, InFlight, Holding, Phases, Unfinished, Terminal
<1>17. ASSUME NEW s \in Sessions, RewindBegin(s) PROVE RowsTellTheTruth'
  BY <1>17 DEF RewindBegin, QueueInv, RowsTypeOK, MemoryInv, InFlight, Holding, Phases, Unfinished, Terminal
<1>18. ASSUME NEW s \in Sessions, RewindEnd(s) PROVE RowsTellTheTruth'
  BY <1>18 DEF RewindEnd, QueueInv, RowsTypeOK, MemoryInv, InFlight, Holding, Phases, Unfinished, Terminal
<1>19. ASSUME NEW m \in 1..MaxSlots, SetSlots(m) PROVE RowsTellTheTruth'
  BY <1>19 DEF SetSlots, QueueInv, RowsTypeOK, MemoryInv, InFlight, Holding, Phases, Unfinished, Terminal
<1>20. ASSUME Shutdown PROVE RowsTellTheTruth'
  <2>1. \A r \in Runs : phase'[r] = IF phase[r] = "queued" THEN "cancelled" ELSE phase[r]
    BY <1>20 DEF Shutdown, QueueInv
  <2> QED
    BY <1>20, <2>1 DEF Shutdown
<1>21. ASSUME Crash PROVE RowsTellTheTruth'
  BY <1>21 DEF Crash, QueueInv, RowsTypeOK, MemoryInv, InFlight, Holding, Phases, Unfinished, Terminal
<1>22. ASSUME Boot PROVE RowsTellTheTruth'
  BY <1>22 DEF Boot, QueueInv, RowsTypeOK, MemoryInv, InFlight, Holding, Phases, Unfinished, Terminal
<1>23. ASSUME UNCHANGED vars PROVE RowsTellTheTruth'
  BY <1>23 DEF vars, QueueInv, RowsTypeOK, MemoryInv, InFlight, Holding, Phases, Unfinished, Terminal
<1> QED
  BY <1>1, <1>2, <1>3, <1>4, <1>5, <1>6, <1>7, <1>8, <1>9, <1>10, <1>11, <1>12, <1>13, <1>14, <1>15, <1>16, <1>17, <1>18, <1>19, <1>20, <1>21, <1>22, <1>23 DEF Next, Coroutine, Operator

\* A session shown as running has a run of its own that holds a slot.
LEMMA ShownStep ==
    QueueInv /\ MemoryInv /\ RowsTypeOK /\ SessionShowsItsRun /\ [Next]_vars => SessionShowsItsRun'
<1> SUFFICES ASSUME QueueInv, MemoryInv, RowsTypeOK, SessionShowsItsRun, [Next]_vars
             PROVE  SessionShowsItsRun'
  OBVIOUS
<1> USE DEF SessionShowsItsRun, InFlightOf, InFlight, Holding, rows, process
<1>1. ASSUME NEW r \in Runs, NEW s \in Sessions, Submit(r, s) PROVE SessionShowsItsRun'
  BY <1>1 DEF Submit, QueueInv, RowsTypeOK, MemoryInv
<1>2. ASSUME NEW r \in Runs, Admit(r) PROVE SessionShowsItsRun'
  BY <1>2 DEF Admit, QueueInv, RowsTypeOK, MemoryInv
<1>3. ASSUME NEW r \in Runs, RejectAdmission(r) PROVE SessionShowsItsRun'
  BY <1>3 DEF RejectAdmission, QueueInv, RowsTypeOK, MemoryInv
<1>4. ASSUME NEW r \in Runs, Start(r) PROVE SessionShowsItsRun'
  BY <1>4 DEF Start, QueueInv, RowsTypeOK, MemoryInv
<1>5. ASSUME NEW r \in Runs, GoLive(r) PROVE SessionShowsItsRun'
  BY <1>5 DEF GoLive, QueueInv, RowsTypeOK, MemoryInv
<1>6. ASSUME NEW r \in Runs, PrepareThrows(r) PROVE SessionShowsItsRun'
  BY <1>6 DEF PrepareThrows, QueueInv, RowsTypeOK, MemoryInv
<1>7. ASSUME NEW r \in Runs, RecordOutcome(r) PROVE SessionShowsItsRun'
  BY <1>7 DEF RecordOutcome, QueueInv, RowsTypeOK, MemoryInv
<1>8. ASSUME NEW r \in Runs, RecordThrows(r) PROVE SessionShowsItsRun'
  BY <1>8 DEF RecordThrows, QueueInv, RowsTypeOK, MemoryInv
<1>9. ASSUME NEW r \in Runs, LeaveActive(r) PROVE SessionShowsItsRun'
  BY <1>9 DEF LeaveActive, QueueInv, RowsTypeOK, MemoryInv
<1>10. ASSUME NEW r \in Runs, Release(r) PROVE SessionShowsItsRun'
  <2>1. phase'[r] = "done" /\ \A q \in Runs \ {r} : phase'[q] = phase[q] \/ (phase[q] = "queued" /\ phase'[q] = "granted")
    BY <1>10, ReleaseSlotFacts DEF Release
  <2> QED
    BY <1>10, <2>1 DEF Release, RowsTypeOK, MemoryInv
<1>11. ASSUME NEW r \in Runs, FailAndRelease(r) PROVE SessionShowsItsRun'
  <2>1. phase'[r] = "done" /\ \A q \in Runs \ {r} : phase'[q] = phase[q] \/ (phase[q] = "queued" /\ phase'[q] = "granted")
    BY <1>11, ReleaseSlotFacts DEF FailAndRelease
  <2> QED
    BY <1>11, <2>1 DEF FailAndRelease, RowsTypeOK, MemoryInv
<1>12. ASSUME NEW r \in Runs, Cancelled(r) PROVE SessionShowsItsRun'
  BY <1>12 DEF Cancelled, QueueInv, RowsTypeOK, MemoryInv
<1>13. ASSUME NEW r \in Runs, InterruptActive(r) PROVE SessionShowsItsRun'
  BY <1>13 DEF InterruptActive, QueueInv, RowsTypeOK, MemoryInv
<1>14. ASSUME NEW r \in Runs, InterruptQueued(r) PROVE SessionShowsItsRun'
  <2>1. phase[r] = "queued" /\ phase' = [phase EXCEPT ![r] = "cancelled"]
    BY <1>14, InRange DEF InterruptQueued, QueueInv, QueuedRuns
  <2> QED
    BY <1>14, <2>1 DEF InterruptQueued, QueueInv
<1>15. ASSUME NEW r \in Runs, GraceExpires(r) PROVE SessionShowsItsRun'
  BY <1>15 DEF GraceExpires, QueueInv, RowsTypeOK, MemoryInv
<1>16. ASSUME NEW r \in Runs, CeilingStops(r) PROVE SessionShowsItsRun'
  BY <1>16 DEF CeilingStops, QueueInv, RowsTypeOK, MemoryInv
<1>17. ASSUME NEW s \in Sessions, RewindBegin(s) PROVE SessionShowsItsRun'
  BY <1>17 DEF RewindBegin, QueueInv, RowsTypeOK, MemoryInv
<1>18. ASSUME NEW s \in Sessions, RewindEnd(s) PROVE SessionShowsItsRun'
  BY <1>18 DEF RewindEnd, QueueInv, RowsTypeOK, MemoryInv
<1>19. ASSUME NEW m \in 1..MaxSlots, SetSlots(m) PROVE SessionShowsItsRun'
  BY <1>19 DEF SetSlots, QueueInv, RowsTypeOK, MemoryInv
<1>20. ASSUME Shutdown PROVE SessionShowsItsRun'
  <2>1. \A r \in Runs : phase'[r] = IF phase[r] = "queued" THEN "cancelled" ELSE phase[r]
    BY <1>20 DEF Shutdown, QueueInv
  <2> QED
    BY <1>20, <2>1 DEF Shutdown
<1>21. ASSUME Crash PROVE SessionShowsItsRun'
  BY <1>21 DEF Crash, QueueInv, RowsTypeOK, MemoryInv
<1>22. ASSUME Boot PROVE SessionShowsItsRun'
  BY <1>22 DEF Boot, QueueInv, RowsTypeOK, MemoryInv
<1>23. ASSUME UNCHANGED vars PROVE SessionShowsItsRun'
  BY <1>23 DEF vars, QueueInv, RowsTypeOK, MemoryInv
<1> QED
  BY <1>1, <1>2, <1>3, <1>4, <1>5, <1>6, <1>7, <1>8, <1>9, <1>10, <1>11, <1>12, <1>13, <1>14, <1>15, <1>16, <1>17, <1>18, <1>19, <1>20, <1>21, <1>22, <1>23 DEF Next, Coroutine, Operator

-----------------------------------------------------------------------------
(* The inductive invariant and what it gives *)

IInv ==
    /\ RowsTypeOK /\ ControlTypeOK
    /\ QueueInv /\ MemoryInv
    /\ OneRunPerSession /\ ReservationExact
    /\ NoStrandedQueue
    /\ RowsTellTheTruth /\ SessionShowsItsRun

LEMMA InitIInv == Init => IInv
<1> SUFFICES ASSUME Init PROVE IInv
  OBVIOUS
<1>1. RowsTypeOK
  BY DEF Init, RowsTypeOK
<1>2. ControlTypeOK
  BY DEF Init, ControlTypeOK
<1>3. QueueInv
  <2>1. queue = <<>> /\ Range(queue) = {} /\ NoRepeat(queue)
    BY DEF Init, Range, NoRepeat
  <2> QED
    BY <2>1 DEF Init, QueueInv, QueuedRuns, Phases
<1>4. MemoryInv
  BY DEF Init, MemoryInv, Executing, InFlight, Holding
<1>5. OneRunPerSession /\ ReservationExact
  BY DEF Init, OneRunPerSession, ReservationExact, InFlightOf, InFlight, Holding
<1>6. NoStrandedQueue /\ RowsTellTheTruth /\ SessionShowsItsRun
  BY DEF Init, NoStrandedQueue, RowsTellTheTruth, SessionShowsItsRun
<1> QED
  BY <1>1, <1>2, <1>3, <1>4, <1>5, <1>6 DEF IInv

LEMMA StepIInv == IInv /\ [Next]_vars => IInv'
  BY RowsTyped, ControlTyped, QueueStep, MemoryStep, ExclusionStep, StrandedStep,
     TruthStep, ShownStep DEF IInv

LEMMA Inductive == Spec => []IInv
  BY InitIInv, StepIInv, PTL DEF Spec

\* The kernel's state is well typed in every reachable state.
THEOREM TypeCorrect == Spec => []TypeOK
<1>1. IInv => TypeOK
  BY DEF IInv, QueueInv, MemoryInv, TypeOK, CoroutinesTypeOK
<1> QED
  BY <1>1, Inductive, PTL

\* Whatever the number of sessions, runs and slots, and however submits,
\* stops, failures, shutdowns and crashes interleave, a session never has
\* two runs in flight.
THEOREM SessionExclusion == Spec => []OneRunPerSession
<1>1. IInv => OneRunPerSession
  BY DEF IInv
<1> QED
  BY <1>1, Inductive, PTL

\* No path leaves a session claimed without a run, or a run without its claim.
THEOREM NoLeakedReservation == Spec => []ReservationExact
<1>1. IInv => ReservationExact
  BY DEF IInv
<1> QED
  BY <1>1, Inductive, PTL

\* Waiting work always has a run ahead of it whose end will wake it.
THEOREM QueueNeverStranded == Spec => []NoStrandedQueue
<1>1. IInv => NoStrandedQueue
  BY DEF IInv
<1> QED
  BY <1>1, Inductive, PTL

\* The queue, `active` and the reservations agree with the coroutines.
THEOREM BookkeepingAgrees == Spec => []BookkeepingExact
<1>1. IInv => BookkeepingExact
  BY DEF IInv, QueueInv, MemoryInv, BookkeepingExact, NoRepeat
<1> QED
  BY <1>1, Inductive, PTL

\* The rows of runs and sessions never contradict the kernel's memory.
THEOREM RowsAgree == Spec => [](RowsTellTheTruth /\ SessionShowsItsRun)
<1>1. IInv => RowsTellTheTruth /\ SessionShowsItsRun
  BY DEF IInv
<1> QED
  BY <1>1, Inductive, PTL

\* A session's row says "running" only while a run of its own holds a slot,
\* whatever setStatus, stops, failures and restarts did to it in between.
THEOREM SessionRowAgrees == Spec => []SessionShowsItsRun
<1>1. IInv => SessionShowsItsRun
  BY DEF IInv
<1> QED
  BY <1>1, Inductive, PTL

-----------------------------------------------------------------------------
(* The age of a row *)

\* How old a row can be for where its coroutine is: what RowsTellTheTruth
\* leaves open at both ends of a run's life.
RowAge ==
    \A r \in Runs :
        /\ phase[r] \in {"new", "classifying"} => runStatus[r] = "absent"
        /\ phase[r] \in {"recorded", "freed"} => runStatus[r] \in Terminal
        /\ phase[r] \in {"threw", "failing"} => runStatus[r] \in {"running"} \cup Terminal

LEMMA RowAgeStep ==
    QueueInv /\ MemoryInv /\ RowsTypeOK /\ RowsTellTheTruth /\ RowAge /\ [Next]_vars => RowAge'
<1> SUFFICES ASSUME QueueInv, MemoryInv, RowsTypeOK, RowsTellTheTruth, RowAge, [Next]_vars
             PROVE  RowAge'
  OBVIOUS
<1> USE DEF RowAge, QueueInv, QueuedRuns, RowsTypeOK, RowsTellTheTruth, rows, process, Phases, Terminal, Unfinished
<1>1. ASSUME NEW r \in Runs, NEW s \in Sessions, Submit(r, s) PROVE RowAge'
  BY <1>1 DEF Submit
<1>2. ASSUME NEW r \in Runs, Admit(r) PROVE RowAge'
  BY <1>2 DEF Admit
<1>3. ASSUME NEW r \in Runs, RejectAdmission(r) PROVE RowAge'
  BY <1>3 DEF RejectAdmission
<1>4. ASSUME NEW r \in Runs, Start(r) PROVE RowAge'
  BY <1>4 DEF Start
<1>5. ASSUME NEW r \in Runs, GoLive(r) PROVE RowAge'
  BY <1>5 DEF GoLive
<1>6. ASSUME NEW r \in Runs, PrepareThrows(r) PROVE RowAge'
  BY <1>6 DEF PrepareThrows, MemoryInv, InFlight, Holding
<1>7. ASSUME NEW r \in Runs, RecordOutcome(r) PROVE RowAge'
  BY <1>7 DEF RecordOutcome, Outcomes
<1>8. ASSUME NEW r \in Runs, RecordThrows(r) PROVE RowAge'
  BY <1>8 DEF RecordThrows, Outcomes
<1>9. ASSUME NEW r \in Runs, LeaveActive(r) PROVE RowAge'
  BY <1>9 DEF LeaveActive
<1>10. ASSUME NEW r \in Runs, Release(r) PROVE RowAge'
  <2>1. phase'[r] = "done" /\ \A q \in Runs \ {r} : phase'[q] = phase[q] \/ (phase[q] = "queued" /\ phase'[q] = "granted")
    BY <1>10, ReleaseSlotFacts DEF Release
  <2> QED
    BY <1>10, <2>1 DEF Release
<1>11. ASSUME NEW r \in Runs, FailAndRelease(r) PROVE RowAge'
  <2>1. phase'[r] = "done" /\ \A q \in Runs \ {r} : phase'[q] = phase[q] \/ (phase[q] = "queued" /\ phase'[q] = "granted")
    BY <1>11, ReleaseSlotFacts DEF FailAndRelease
  <2> QED
    BY <1>11, <2>1 DEF FailAndRelease
<1>12. ASSUME NEW r \in Runs, Cancelled(r) PROVE RowAge'
  BY <1>12 DEF Cancelled
<1>13. ASSUME NEW r \in Runs, InterruptActive(r) PROVE RowAge'
  BY <1>13 DEF InterruptActive
<1>14. ASSUME NEW r \in Runs, InterruptQueued(r) PROVE RowAge'
  <2>1. phase[r] = "queued" /\ phase' = [phase EXCEPT ![r] = "cancelled"]
    BY <1>14, InRange DEF InterruptQueued, QueuedRuns
  <2> QED
    BY <1>14, <2>1 DEF InterruptQueued
<1>15. ASSUME NEW r \in Runs, GraceExpires(r) PROVE RowAge'
  BY <1>15 DEF GraceExpires
<1>16. ASSUME NEW r \in Runs, CeilingStops(r) PROVE RowAge'
  BY <1>16 DEF CeilingStops
<1>17. ASSUME NEW s \in Sessions, RewindBegin(s) PROVE RowAge'
  BY <1>17 DEF RewindBegin
<1>18. ASSUME NEW s \in Sessions, RewindEnd(s) PROVE RowAge'
  BY <1>18 DEF RewindEnd
<1>19. ASSUME NEW m \in 1..MaxSlots, SetSlots(m) PROVE RowAge'
  BY <1>19 DEF SetSlots
<1>20. ASSUME Shutdown PROVE RowAge'
  <2>1. \A r \in Runs : phase'[r] = IF phase[r] = "queued" THEN "cancelled" ELSE phase[r]
    BY <1>20 DEF Shutdown
  <2> QED
    BY <1>20, <2>1 DEF Shutdown
<1>21. ASSUME Crash PROVE RowAge'
  BY <1>21 DEF Crash
<1>22. ASSUME Boot PROVE RowAge'
  BY <1>22 DEF Boot, MemoryInv, InFlight, Holding
<1>23. ASSUME UNCHANGED vars PROVE RowAge'
  BY <1>23 DEF vars
<1> QED
  BY <1>1, <1>2, <1>3, <1>4, <1>5, <1>6, <1>7, <1>8, <1>9, <1>10, <1>11, <1>12, <1>13, <1>14, <1>15, <1>16, <1>17, <1>18, <1>19, <1>20, <1>21, <1>22, <1>23 DEF Next, Coroutine, Operator

LEMMA RowAgeHolds == Spec => [](IInv /\ RowAge)
<1>1. Init => RowAge
  BY DEF Init, RowAge
<1>2. IInv /\ RowAge /\ [Next]_vars => RowAge'
  BY RowAgeStep DEF IInv
<1> QED
  BY <1>1, <1>2, InitIInv, StepIInv, PTL DEF Spec

-----------------------------------------------------------------------------
(* The refinement *)

\* Every step of the kernel is a step of the ledger, or leaves the rows as
\* they are.
LEMMA StepRefines ==
    IInv /\ RowAge /\ [Next]_vars => Ledger!Next \/ UNCHANGED <<runStatus, RowOwner>>
<1> SUFFICES ASSUME RowsTypeOK, QueueInv, MemoryInv, OneRunPerSession, RowsTellTheTruth, RowAge,
                    [Next]_vars
             PROVE  Ledger!Next \/ UNCHANGED <<runStatus, RowOwner>>
  BY DEF IInv
<1>1. ASSUME NEW r \in Runs, NEW s \in Sessions, Submit(r, s) PROVE Ledger!Next \/ UNCHANGED <<runStatus, RowOwner>>
  <2>1. runStatus[r] = "absent" /\ runStatus' = runStatus
    BY <1>1 DEF Submit, RowAge, rows
  <2>2. \A q \in Runs \ {r} : sess'[q] = sess[q]
    BY <1>1 DEF Submit, MemoryInv
  <2>3. RowOwner' = RowOwner
    BY <2>1, <2>2 DEF RowOwner
  <2> QED
    BY <2>1, <2>3
<1>2. ASSUME NEW r \in Runs, Admit(r) PROVE Ledger!Next \/ UNCHANGED <<runStatus, RowOwner>>
  <2>1. phase[r] = "classifying" /\ runStatus[r] = "absent" /\ sess[r] \in Sessions /\ up
    BY <1>2 DEF Admit, RowAge, MemoryInv, InFlight, Holding
  <2>2. runStatus' = [runStatus EXCEPT ![r] = "queued"] /\ sess' = sess
    BY <1>2 DEF Admit
  <2>3. RowOwner' = [RowOwner EXCEPT ![r] = sess[r]]
    BY <2>1, <2>2, NoneAssumption DEF RowOwner, RowsTypeOK
  <2>4. ASSUME NEW q \in Runs, RowOwner[q] = sess[r], runStatus[q] \in Unfinished PROVE FALSE
    <3>1. phase[q] \in InFlight /\ sess[q] = sess[r] /\ q # r
      BY <2>1, <2>4 DEF RowsTellTheTruth, RowOwner, Unfinished, InFlight, Holding, RowAge, QueueInv, RowsTypeOK
    <3> QED
      BY <2>1, <3>1 DEF OneRunPerSession, InFlight
  <2>5. Ledger!UnfinishedOf(sess[r]) = {}
    BY <2>4 DEF Ledger!UnfinishedOf, Ledger!Unfinished, Unfinished
  <2>6. Ledger!Create(r, sess[r])
    BY <2>1, <2>2, <2>3, <2>5 DEF Ledger!Create
  <2> QED
    BY <2>1, <2>6 DEF Ledger!Next
<1>3. ASSUME NEW r \in Runs, RejectAdmission(r) PROVE Ledger!Next \/ UNCHANGED <<runStatus, RowOwner>>
  <2>1. runStatus[r] = "absent" /\ sess[r] \in Sessions /\ sess' = sess
    BY <1>3 DEF RejectAdmission, RowAge, MemoryInv, InFlight
  <2>2. CASE runStatus' = [runStatus EXCEPT ![r] = "absent"]
    <3>1. runStatus' = runStatus
      BY <2>1, <2>2 DEF RowsTypeOK
    <3> QED
      BY <2>1, <3>1 DEF RowOwner
  <2>3. CASE runStatus' = [runStatus EXCEPT ![r] = "failed"]
    <3>1. RowOwner' = [RowOwner EXCEPT ![r] = sess[r]]
      BY <2>1, <2>3 DEF RowOwner, RowsTypeOK
    <3>2. Ledger!CreateFailed(r, sess[r])
      BY <2>1, <2>3, <3>1 DEF Ledger!CreateFailed
    <3> QED
      BY <2>1, <3>2 DEF Ledger!Next
  <2> QED
    BY <1>3, <2>2, <2>3 DEF RejectAdmission
<1>4. ASSUME NEW r \in Runs, Start(r) PROVE Ledger!Next \/ UNCHANGED <<runStatus, RowOwner>>
  <2>1. runStatus[r] = "queued"
    BY <1>4 DEF Start, RowsTellTheTruth, MemoryInv, InFlight, Holding
  <2>2. PICK st \in {"running"} : runStatus' = [runStatus EXCEPT ![r] = st]
    BY <1>4 DEF Start
  <2>3. sess' = sess
    BY <1>4 DEF Start
  <2>4. RowOwner' = RowOwner
    BY <2>1, <2>2, <2>3 DEF RowOwner, RowsTypeOK, Terminal
  <2>5. Ledger!Begin(r)
    BY <2>1, <2>2, <2>4 DEF Ledger!Begin, Ledger!Move, Ledger!Outcomes, Terminal
  <2> QED
    BY <2>5 DEF Ledger!Next
<1>5. ASSUME NEW r \in Runs, GoLive(r) PROVE Ledger!Next \/ UNCHANGED <<runStatus, RowOwner>>
  <2>1. runStatus' = runStatus /\ sess' = sess
    BY <1>5 DEF GoLive, rows
  <2> QED
    BY <2>1 DEF RowOwner
<1>6. ASSUME NEW r \in Runs, PrepareThrows(r) PROVE Ledger!Next \/ UNCHANGED <<runStatus, RowOwner>>
  <2>1. runStatus' = runStatus /\ sess' = sess
    BY <1>6 DEF PrepareThrows, rows
  <2> QED
    BY <2>1 DEF RowOwner
<1>7. ASSUME NEW r \in Runs, RecordOutcome(r) PROVE Ledger!Next \/ UNCHANGED <<runStatus, RowOwner>>
  <2>1. runStatus[r] = "running"
    BY <1>7 DEF RecordOutcome, RowsTellTheTruth, MemoryInv, InFlight, Holding
  <2>2. PICK st \in Terminal : runStatus' = [runStatus EXCEPT ![r] = st]
    BY <1>7 DEF RecordOutcome, Outcomes
  <2>3. sess' = sess
    BY <1>7 DEF RecordOutcome
  <2>4. RowOwner' = RowOwner
    BY <2>1, <2>2, <2>3 DEF RowOwner, RowsTypeOK, Terminal
  <2>5. Ledger!Finish(r)
    BY <2>1, <2>2, <2>4 DEF Ledger!Finish, Ledger!Move, Ledger!Outcomes, Terminal
  <2> QED
    BY <2>5 DEF Ledger!Next
<1>8. ASSUME NEW r \in Runs, RecordThrows(r) PROVE Ledger!Next \/ UNCHANGED <<runStatus, RowOwner>>
  <2>1. runStatus[r] = "running"
    BY <1>8 DEF RecordThrows, RowsTellTheTruth, MemoryInv, InFlight, Holding
  <2>2. PICK st \in Terminal : runStatus' = [runStatus EXCEPT ![r] = st]
    BY <1>8 DEF RecordThrows, Outcomes
  <2>3. sess' = sess
    BY <1>8 DEF RecordThrows
  <2>4. RowOwner' = RowOwner
    BY <2>1, <2>2, <2>3 DEF RowOwner, RowsTypeOK, Terminal
  <2>5. Ledger!Finish(r)
    BY <2>1, <2>2, <2>4 DEF Ledger!Finish, Ledger!Move, Ledger!Outcomes, Terminal
  <2> QED
    BY <2>5 DEF Ledger!Next
<1>9. ASSUME NEW r \in Runs, LeaveActive(r) PROVE Ledger!Next \/ UNCHANGED <<runStatus, RowOwner>>
  <2>1. runStatus' = runStatus /\ sess' = sess
    BY <1>9 DEF LeaveActive, rows
  <2> QED
    BY <2>1 DEF RowOwner
<1>10. ASSUME NEW r \in Runs, Release(r) PROVE Ledger!Next \/ UNCHANGED <<runStatus, RowOwner>>
  <2>1. runStatus' = runStatus /\ sess' = sess
    BY <1>10 DEF Release, rows
  <2> QED
    BY <2>1 DEF RowOwner
<1>11. ASSUME NEW r \in Runs, FailAndRelease(r) PROVE Ledger!Next \/ UNCHANGED <<runStatus, RowOwner>>
  <2>1. runStatus' = [runStatus EXCEPT ![r] = "failed"] /\ sess' = sess
    BY <1>11 DEF FailAndRelease
  <2>2. runStatus[r] \in {"running"} \cup Terminal
    BY <1>11 DEF FailAndRelease, RowAge
  <2>3. RowOwner' = RowOwner
    BY <2>1, <2>2 DEF RowOwner, RowsTypeOK, Terminal
  <2>4. Ledger!Finish(r) \/ Ledger!Overrule(r)
    BY <2>1, <2>2, <2>3 DEF Ledger!Finish, Ledger!Overrule, Ledger!Move, Ledger!Outcomes, Terminal
  <2> QED
    BY <2>4 DEF Ledger!Next
<1>12. ASSUME NEW r \in Runs, Cancelled(r) PROVE Ledger!Next \/ UNCHANGED <<runStatus, RowOwner>>
  <2>1. runStatus[r] = "queued"
    BY <1>12 DEF Cancelled, RowsTellTheTruth, MemoryInv, InFlight, Holding
  <2>2. PICK st \in {"interrupted"} : runStatus' = [runStatus EXCEPT ![r] = st]
    BY <1>12 DEF Cancelled
  <2>3. sess' = sess
    BY <1>12 DEF Cancelled
  <2>4. RowOwner' = RowOwner
    BY <2>1, <2>2, <2>3 DEF RowOwner, RowsTypeOK, Terminal
  <2>5. Ledger!Cancel(r)
    BY <2>1, <2>2, <2>4 DEF Ledger!Cancel, Ledger!Move, Ledger!Outcomes, Terminal
  <2> QED
    BY <2>5 DEF Ledger!Next
<1>13. ASSUME NEW r \in Runs, InterruptActive(r) PROVE Ledger!Next \/ UNCHANGED <<runStatus, RowOwner>>
  <2>1. runStatus' = runStatus /\ sess' = sess
    BY <1>13 DEF InterruptActive, rows
  <2> QED
    BY <2>1 DEF RowOwner
<1>14. ASSUME NEW r \in Runs, InterruptQueued(r) PROVE Ledger!Next \/ UNCHANGED <<runStatus, RowOwner>>
  <2>1. runStatus' = runStatus /\ sess' = sess
    BY <1>14 DEF InterruptQueued, rows
  <2> QED
    BY <2>1 DEF RowOwner
<1>15. ASSUME NEW r \in Runs, GraceExpires(r) PROVE Ledger!Next \/ UNCHANGED <<runStatus, RowOwner>>
  <2>1. runStatus' = runStatus /\ sess' = sess
    BY <1>15 DEF GraceExpires, rows
  <2> QED
    BY <2>1 DEF RowOwner
<1>16. ASSUME NEW r \in Runs, CeilingStops(r) PROVE Ledger!Next \/ UNCHANGED <<runStatus, RowOwner>>
  <2>1. runStatus' = runStatus /\ sess' = sess
    BY <1>16 DEF CeilingStops, rows
  <2> QED
    BY <2>1 DEF RowOwner
<1>17. ASSUME NEW s \in Sessions, RewindBegin(s) PROVE Ledger!Next \/ UNCHANGED <<runStatus, RowOwner>>
  <2>1. runStatus' = runStatus /\ sess' = sess
    BY <1>17 DEF RewindBegin, rows
  <2> QED
    BY <2>1 DEF RowOwner
<1>18. ASSUME NEW s \in Sessions, RewindEnd(s) PROVE Ledger!Next \/ UNCHANGED <<runStatus, RowOwner>>
  <2>1. runStatus' = runStatus /\ sess' = sess
    BY <1>18 DEF RewindEnd, rows
  <2> QED
    BY <2>1 DEF RowOwner
<1>19. ASSUME NEW m \in 1..MaxSlots, SetSlots(m) PROVE Ledger!Next \/ UNCHANGED <<runStatus, RowOwner>>
  <2>1. runStatus' = runStatus /\ sess' = sess
    BY <1>19 DEF SetSlots, rows
  <2> QED
    BY <2>1 DEF RowOwner
<1>20. ASSUME Shutdown PROVE Ledger!Next \/ UNCHANGED <<runStatus, RowOwner>>
  <2>1. runStatus' = runStatus /\ sess' = sess
    BY <1>20 DEF Shutdown, rows
  <2> QED
    BY <2>1 DEF RowOwner
<1>21. ASSUME Crash PROVE Ledger!Next \/ UNCHANGED <<runStatus, RowOwner>>
  <2>1. runStatus' = runStatus /\ sess' = sess
    BY <1>21 DEF Crash, rows
  <2> QED
    BY <2>1 DEF RowOwner
<1>22. ASSUME Boot PROVE Ledger!Next \/ UNCHANGED <<runStatus, RowOwner>>
  <2>1. /\ runStatus' = [r \in Runs |-> IF runStatus[r] \in Unfinished THEN "interrupted" ELSE runStatus[r]]
        /\ sess' = sess
    BY <1>22 DEF Boot
  <2>2. RowOwner' = RowOwner
    BY <2>1 DEF RowOwner, Unfinished
  <2>3. Ledger!Recover
    BY <2>1, <2>2 DEF Ledger!Recover, Ledger!Unfinished, Unfinished
  <2> QED
    BY <2>3 DEF Ledger!Next
<1>23. ASSUME UNCHANGED vars PROVE Ledger!Next \/ UNCHANGED <<runStatus, RowOwner>>
  <2>1. runStatus' = runStatus /\ sess' = sess
    BY <1>23 DEF vars, rows
  <2> QED
    BY <2>1 DEF RowOwner
<1> QED
  BY <1>1, <1>2, <1>3, <1>4, <1>5, <1>6, <1>7, <1>8, <1>9, <1>10, <1>11, <1>12, <1>13, <1>14, <1>15, <1>16, <1>17, <1>18, <1>19, <1>20, <1>21, <1>22, <1>23 DEF Next, Coroutine, Operator

\* The kernel's rows only ever move as the ledger allows.
THEOREM KernelImplementsLedger == Spec => ImplementsLedger
<1>1. Init => Ledger!Init
  BY DEF Init, Ledger!Init, RowOwner
<1>2. IInv /\ RowAge /\ [Next]_vars => [Ledger!Next]_<<runStatus, RowOwner>>
  BY StepRefines
<1> QED
  BY <1>1, <1>2, RowAgeHolds, PTL DEF Spec, ImplementsLedger, Ledger!Spec

-----------------------------------------------------------------------------
(* Outcomes are final *)

Keeps(q) ==
    runStatus[q] \in Terminal /\ runStatus'[q] # runStatus[q] =>
        phase[q] = "failing" /\ runStatus'[q] = "failed"

\* Of the actions that write a row, only the failure path meets an outcome:
\* the others find the row absent, queued or running.
LEMMA FinalStep ==
    ASSUME IInv, RowAge, [Next]_vars, NEW q \in Runs PROVE Keeps(q)
<1> USE DEF IInv, RowsTypeOK, RowsTellTheTruth, MemoryInv, RowAge, InFlight, Holding, Terminal,
            Unfinished, Keeps
<1>1. ASSUME runStatus' = runStatus PROVE Keeps(q)
  BY <1>1
<1>2. ASSUME NEW r \in Runs, Admit(r) \/ RejectAdmission(r) PROVE Keeps(q)
  BY <1>2 DEF Admit, RejectAdmission
<1>3. ASSUME NEW r \in Runs, Start(r) PROVE Keeps(q)
  BY <1>3 DEF Start
<1>4. ASSUME NEW r \in Runs, RecordOutcome(r) \/ RecordThrows(r) PROVE Keeps(q)
  BY <1>4 DEF RecordOutcome, RecordThrows
<1>5. ASSUME NEW r \in Runs, FailAndRelease(r) PROVE Keeps(q)
  BY <1>5 DEF FailAndRelease
<1>6. ASSUME NEW r \in Runs, Cancelled(r) PROVE Keeps(q)
  BY <1>6 DEF Cancelled
<1>7. ASSUME Boot PROVE Keeps(q)
  BY <1>7 DEF Boot
<1>8. ASSUME NEW r \in Runs,
             \/ \E s \in Sessions : Submit(r, s)
             \/ GoLive(r) \/ PrepareThrows(r) \/ LeaveActive(r) \/ Release(r) \/ Operator(r)
      PROVE  runStatus' = runStatus
  BY <1>8 DEF Submit, GoLive, PrepareThrows, LeaveActive, Release, Operator, InterruptActive,
              InterruptQueued, GraceExpires, CeilingStops, rows
<1>9. ASSUME \/ \E s \in Sessions : RewindBegin(s) \/ RewindEnd(s)
             \/ \E n \in 1..MaxSlots : SetSlots(n)
             \/ Shutdown \/ Crash \/ UNCHANGED vars
      PROVE  runStatus' = runStatus
  BY <1>9 DEF RewindBegin, RewindEnd, SetSlots, Shutdown, Crash, vars, rows
<1> QED
  BY <1>1, <1>2, <1>3, <1>4, <1>5, <1>6, <1>7, <1>8, <1>9 DEF Next, Coroutine

\* A finished run keeps its outcome across late timers, stops, retries of the
\* queue and restarts; only a record that threw is turned into a failure.
THEOREM OutcomesAreFinal == Spec => OutcomeIsFinal
<1>1. IInv /\ RowAge /\ [Next]_vars =>
        [\A r \in Runs : runStatus[r] \in Terminal /\ runStatus'[r] # runStatus[r] =>
             phase[r] = "failing" /\ runStatus'[r] = "failed"]_vars
  BY FinalStep DEF Keeps
<1> QED
  BY <1>1, RowAgeHolds, PTL DEF Spec, OutcomeIsFinal
=============================================================================
