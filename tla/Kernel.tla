-------------------------------- MODULE Kernel --------------------------------
(***************************************************************************)
(* The run kernel, apps/api/src/kernel/kernel.ts: how a prompt becomes a   *)
(* run, waits for one of `slots` concurrency slots, executes, and leaves.  *)
(*                                                                         *)
(* Node runs one JavaScript callback at a time, so an action here is the   *)
(* code between two consecutive awaits of one coroutine.  phase[r] is      *)
(* where run r's coroutine (submit, then schedule, then execute) is        *)
(* parked.  Phases in Micro are parked on a promise that is already        *)
(* settled: the coroutine resumes before Node polls for I/O again, hence   *)
(* before any timer fires and before any new request is read (Quiet), but  *)
(* other settled coroutines may run first, in any order.                   *)
(*                                                                         *)
(* runStatus and sessionStatus are the database rows, which survive a      *)
(* crash; everything else is the process's memory.                         *)
(***************************************************************************)
EXTENDS Naturals, FiniteSets, SequencesExt

CONSTANTS
    Sessions,   \* session rows
    Runs,       \* run ids the model may use, each at most once
    MaxSlots,   \* largest value the setting maxConcurrentRuns takes here
    None        \* "no session yet"

ASSUME SlotsAssumption == MaxSlots \in Nat \ {0}
ASSUME NoneAssumption == None \notin Sessions

VARIABLES
    phase,              \* where each run's coroutine is parked
    sess,               \* the session each run belongs to
    runStatus,          \* runs.status; "absent" while there is no row
    sessionStatus,      \* sessions.status
    reserved,           \* Kernel.reserved
    active,             \* the keys of Kernel.active
    queue,              \* Kernel.queue, oldest first
    slots,              \* deps.maxConcurrentRuns(), read live
    interruptRequested, \* live supervisor entries asked to stop their turn
    graceTimer,         \* runs whose INTERRUPT_GRACE_MS timer is armed
    aborted,            \* executing runs whose abort controller has fired
    rewinding,          \* sessions whose files a rewind is restoring
    anchored,           \* runs whose row carries a rewind_point
    notified,           \* runs deps.onRunFinished was called for
    shuttingDown,       \* Kernel.shuttingDown
    up                  \* the process is alive

rows    == <<runStatus, sessionStatus, anchored>>
control == <<interruptRequested, graceTimer, aborted>>
process == <<slots, rewinding, shuttingDown, up>>
vars == <<phase, sess, rows, reserved, active, queue, control, notified, process>>

Terminal == {"succeeded", "failed", "interrupted"}
Unfinished == {"queued", "running"}

\* Parked on a settled promise.
Micro == {"admitted", "granted", "cancelled", "recorded", "threw", "freed", "failing"}
\* Past acquireSlot and not yet through releaseSlot.
Holding == {"admitted", "granted", "preparing", "live", "recorded", "threw", "freed", "failing"}
\* In Kernel.active.
Executing == {"preparing", "live", "recorded", "threw"}
InFlight == Holding \cup {"classifying", "queued", "cancelled"}
Phases == InFlight \cup {"new", "done"}

\* Node is back in its event loop: timers and new requests can run.
Quiet == \A r \in Runs : phase[r] \notin Micro

QueuedRuns == Range(queue)

InFlightOf(s) == {r \in Runs : phase[r] \in InFlight /\ sess[r] = s}

-----------------------------------------------------------------------------
HasActiveRunForSession_IgnoringReserved(s) ==
    \E r \in active \cup QueuedRuns : sess[r] = s

HasActiveRunForSession(s) ==
    s \in reserved \/ \E r \in active \cup QueuedRuns : sess[r] = s

Init ==
    /\ phase = [r \in Runs |-> "new"]
    /\ sess = [r \in Runs |-> None]
    /\ runStatus = [r \in Runs |-> "absent"]
    /\ sessionStatus = [s \in Sessions |-> "idle"]
    /\ reserved = {}
    /\ active = {}
    /\ queue = <<>>
    /\ slots \in 1..MaxSlots
    /\ interruptRequested = {}
    /\ graceTimer = {}
    /\ aborted = {}
    /\ rewinding = {}
    /\ anchored = {}
    /\ notified = {}
    /\ shuttingDown = FALSE
    /\ up = TRUE

-----------------------------------------------------------------------------
(* Submission *)

\* submit() up to its first await: the session is claimed synchronously.
Submit(r, s) ==
    /\ up /\ ~shuttingDown
    /\ phase[r] = "new"
    /\ ~HasActiveRunForSession(s)
    /\ phase' = [phase EXCEPT ![r] = "classifying"]
    /\ sess' = [sess EXCEPT ![r] = s]
    /\ reserved' = reserved \cup {s}
    /\ UNCHANGED <<rows, active, queue, control, notified, process>>

\* The classifier answered: the row is created and schedule() runs up to
\* acquireSlot, which takes a slot at once or joins the queue.
Admit(r) ==
    /\ phase[r] = "classifying"
    /\ runStatus' = [runStatus EXCEPT ![r] = "queued"]
    /\ \/ /\ Cardinality(active) < slots
          /\ phase' = [phase EXCEPT ![r] = "admitted"]
          /\ UNCHANGED queue
       \/ /\ Cardinality(active) >= slots
          /\ phase' = [phase EXCEPT ![r] = "queued"]
          /\ queue' = Append(queue, r)
    /\ UNCHANGED <<anchored, sess, sessionStatus, reserved, active, control, notified, process>>

RejectAdmission_KeepingReservation(r) ==
    /\ phase[r] = "classifying"
    /\ phase' = [phase EXCEPT ![r] = "done"]
    /\ \E st \in {"absent", "failed"} : runStatus' = [runStatus EXCEPT ![r] = st]
    /\ UNCHANGED <<anchored, sess, sessionStatus, reserved, active, queue, control, notified, process>>

\* submit() throws after the classifier: before the row exists, or because
\* the attachments could not be bound, which records the row as failed.
RejectAdmission(r) ==
    /\ phase[r] = "classifying"
    /\ phase' = [phase EXCEPT ![r] = "done"]
    /\ \E st \in {"absent", "failed"} : runStatus' = [runStatus EXCEPT ![r] = st]
    /\ reserved' = reserved \ {sess[r]}
    /\ UNCHANGED <<anchored, sess, sessionStatus, active, queue, control, notified, process>>

-----------------------------------------------------------------------------
(* Execution *)

\* schedule() resumes with a slot; execute() registers the run and marks it
\* running, then awaits memory, knowledge and the workspace's preparation.
Start(r) ==
    /\ phase[r] \in {"admitted", "granted"}
    /\ phase' = [phase EXCEPT ![r] = "preparing"]
    /\ active' = active \cup {r}
    /\ runStatus' = [runStatus EXCEPT ![r] = "running"]
    /\ sessionStatus' = [sessionStatus EXCEPT ![sess[r]] = "running"]
    /\ UNCHANGED <<anchored, sess, reserved, queue, control, notified, process>>

\* The supervisor holds a CLI for this run.
GoLive(r) ==
    /\ phase[r] = "preparing"
    /\ phase' = [phase EXCEPT ![r] = "live"]
    /\ UNCHANGED <<sess, rows, reserved, active, queue, control, notified, process>>

\* contextProvider.resolve or buildOptions throws before the CLI exists.
PrepareThrows(r) ==
    /\ phase[r] = "preparing"
    /\ phase' = [phase EXCEPT ![r] = "threw"]
    /\ UNCHANGED <<sess, rows, reserved, active, queue, control, notified, process>>

\* What the supervisor may report of run r: an iterator that throws is
\* "interrupted" exactly when the controller was aborted, and a result is
\* "interrupted" when a stop was asked of the live entry.
Outcomes(r) ==
    {st \in Terminal :
        /\ st = "succeeded" => r \notin interruptRequested
        /\ st = "interrupted" => r \in aborted \cup interruptRequested
        /\ st = "failed" => ~(r \in aborted /\ r \in interruptRequested)}

\* The CLI's turn ended: the row, the session and the listeners, in one
\* synchronous section.
RecordOutcome(r) ==
    /\ phase[r] = "live"
    /\ \E st \in Outcomes(r) :
        /\ runStatus' = [runStatus EXCEPT ![r] = st]
        /\ sessionStatus' = [sessionStatus EXCEPT ![sess[r]] =
                               IF st = "failed" THEN "error" ELSE "idle"]
    /\ phase' = [phase EXCEPT ![r] = "recorded"]
    /\ anchored' = anchored \cup {r}
    /\ notified' = notified \cup {r}
    /\ interruptRequested' = interruptRequested \ {r}
    /\ UNCHANGED <<sess, reserved, active, queue, graceTimer, aborted, process>>

\* The same section, when a statement after runs.finish throws (a busy
\* database): the outcome is on the row and nobody is told.
RecordThrows(r) ==
    /\ phase[r] = "live"
    /\ \E st \in Outcomes(r) : runStatus' = [runStatus EXCEPT ![r] = st]
    /\ phase' = [phase EXCEPT ![r] = "threw"]
    /\ anchored' = anchored \cup {r}
    /\ interruptRequested' = interruptRequested \ {r}
    /\ UNCHANGED <<sess, sessionStatus, reserved, active, queue, graceTimer, aborted, notified, process>>

\* execute()'s finally.
LeaveActive(r) ==
    /\ phase[r] \in {"recorded", "threw"}
    /\ phase' = [phase EXCEPT ![r] = IF @ = "recorded" THEN "freed" ELSE "failing"]
    /\ active' = active \ {r}
    /\ aborted' = aborted \ {r}
    /\ UNCHANGED <<sess, rows, reserved, queue, interruptRequested, graceTimer, notified, process>>

\* releaseSlot(): r is finished and the head of the queue, if any, is resolved.
ReleaseSlot_WithoutWaking(r) ==
    /\ phase' = [phase EXCEPT ![r] = "done"]
    /\ UNCHANGED queue

ReleaseSlot(r) ==
    IF queue = <<>>
    THEN /\ phase' = [phase EXCEPT ![r] = "done"]
         /\ UNCHANGED queue
    ELSE /\ phase' = [phase EXCEPT ![r] = "done", ![Head(queue)] = "granted"]
         /\ queue' = Tail(queue)

\* schedule()'s catch records the failure and its finally frees the slot.
FailAndRelease_KeepingSession(r) ==
    /\ phase[r] = "failing"
    /\ runStatus' = [runStatus EXCEPT ![r] = "failed"]
    /\ reserved' = reserved \ {sess[r]}
    /\ ReleaseSlot(r)
    /\ UNCHANGED <<anchored, sess, sessionStatus, active, control, notified, process>>

FailAndRelease(r) ==
    /\ phase[r] = "failing"
    /\ runStatus' = [runStatus EXCEPT ![r] = "failed"]
    /\ sessionStatus' = [sessionStatus EXCEPT ![sess[r]] = "error"]
    /\ reserved' = reserved \ {sess[r]}
    /\ ReleaseSlot(r)
    /\ UNCHANGED <<anchored, sess, active, control, notified, process>>

\* schedule()'s finally.
Release(r) ==
    /\ phase[r] = "freed"
    /\ reserved' = reserved \ {sess[r]}
    /\ ReleaseSlot(r)
    /\ UNCHANGED <<sess, rows, active, control, notified, process>>

\* schedule()'s first catch: the run was rejected while it was queued.
Cancelled(r) ==
    /\ phase[r] = "cancelled"
    /\ phase' = [phase EXCEPT ![r] = "done"]
    /\ reserved' = reserved \ {sess[r]}
    /\ runStatus' = [runStatus EXCEPT ![r] = "interrupted"]
    /\ sessionStatus' = [sessionStatus EXCEPT ![sess[r]] = "idle"]
    /\ UNCHANGED <<anchored, sess, active, queue, control, notified, process>>

-----------------------------------------------------------------------------
(* Control *)

\* interrupt() on an executing run.  The clean stop reaches only a live
\* supervisor entry; if asking throws, the controller is aborted at once.
\* The kill timer is armed either way.
InterruptActive(r) ==
    /\ up /\ Quiet
    /\ r \in active
    /\ graceTimer' = graceTimer \cup {r}
    /\ IF phase[r] = "live"
       THEN /\ interruptRequested' = interruptRequested \cup {r}
            /\ \E kill \in SUBSET {r} : aborted' = aborted \cup kill
       ELSE UNCHANGED <<interruptRequested, aborted>>
    /\ UNCHANGED <<phase, sess, rows, reserved, active, queue, notified, process>>

\* interrupt() on a queued run: out of the queue, and its promise rejected.
InterruptQueued(r) ==
    /\ up /\ Quiet
    /\ \E i \in DOMAIN queue : queue[i] = r /\ queue' = RemoveAt(queue, i)
    /\ phase' = [phase EXCEPT ![r] = "cancelled"]
    /\ UNCHANGED <<sess, rows, reserved, active, control, notified, process>>

GraceExpires_WithoutKill(r) ==
    /\ Quiet
    /\ r \in graceTimer
    /\ graceTimer' = graceTimer \ {r}
    /\ UNCHANGED <<phase, sess, rows, reserved, active, queue, interruptRequested, aborted, notified, process>>

\* The kill timer: a no-op on a run that has ended.
GraceExpires(r) ==
    /\ Quiet
    /\ r \in graceTimer
    /\ graceTimer' = graceTimer \ {r}
    /\ aborted' = aborted \cup ({r} \cap active)
    /\ UNCHANGED <<phase, sess, rows, reserved, active, queue, interruptRequested, notified, process>>

\* The supervisor's idle or absolute ceiling stops the CLI.
CeilingStops(r) ==
    /\ Quiet
    /\ phase[r] = "live"
    /\ aborted' = aborted \cup {r}
    /\ UNCHANGED <<phase, sess, rows, reserved, active, queue, interruptRequested, graceTimer, notified, process>>

\* rewindRun() up to its await, for a session with a finished run.  Nothing
\* reserves the session while the supervisor restores the files.
RewindBegin(s) ==
    /\ up /\ Quiet
    /\ ~HasActiveRunForSession(s)
    /\ \E r \in anchored : sess[r] = s /\ runStatus[r] \in Terminal
    /\ rewinding' = rewinding \cup {s}
    /\ UNCHANGED <<phase, sess, rows, reserved, active, queue, control, notified, slots, shuttingDown, up>>

RewindEnd(s) ==
    /\ s \in rewinding
    /\ rewinding' = rewinding \ {s}
    /\ UNCHANGED <<phase, sess, rows, reserved, active, queue, control, notified, slots, shuttingDown, up>>

\* The operator changes maxConcurrentRuns.  Nothing is woken.
SetSlots(n) ==
    /\ up /\ Quiet
    /\ n # slots
    /\ slots' = n
    /\ UNCHANGED <<phase, sess, rows, reserved, active, queue, control, notified, rewinding, shuttingDown, up>>

\* shutdown() up to its polling loop.
Shutdown ==
    /\ up /\ Quiet /\ ~shuttingDown
    /\ shuttingDown' = TRUE
    /\ phase' = [r \in Runs |-> IF r \in QueuedRuns THEN "cancelled" ELSE phase[r]]
    /\ queue' = <<>>
    /\ aborted' = aborted \cup active
    /\ UNCHANGED <<sess, rows, reserved, active, interruptRequested, graceTimer, notified, slots, rewinding, up>>

-----------------------------------------------------------------------------
(* The process *)

\* The process ends, cleanly or not; memory is gone and rows stay.
Crash ==
    /\ up
    /\ up' = FALSE
    /\ shuttingDown' = FALSE
    /\ phase' = [r \in Runs |-> IF phase[r] = "new" THEN "new" ELSE "done"]
    /\ reserved' = {} /\ active' = {} /\ queue' = <<>>
    /\ interruptRequested' = {} /\ graceTimer' = {} /\ aborted' = {}
    /\ rewinding' = {}
    /\ UNCHANGED <<sess, rows, notified, slots>>

Boot_WithoutRecovery ==
    /\ ~up
    /\ up' = TRUE
    /\ UNCHANGED <<phase, sess, rows, reserved, active, queue, control, notified, slots, rewinding, shuttingDown>>

\* RunRepo.recoverOrphaned and SessionRepo.recoverOrphaned, before the
\* kernel exists.
Boot ==
    /\ ~up
    /\ up' = TRUE
    /\ runStatus' = [r \in Runs |-> IF runStatus[r] \in Unfinished THEN "interrupted" ELSE runStatus[r]]
    /\ sessionStatus' = [s \in Sessions |-> IF sessionStatus[s] = "running" THEN "idle" ELSE sessionStatus[s]]
    /\ UNCHANGED <<anchored, phase, sess, reserved, active, queue, control, notified, slots, rewinding, shuttingDown>>

-----------------------------------------------------------------------------
Coroutine(r) ==
    \/ Admit(r) \/ RejectAdmission(r)
    \/ Start(r) \/ GoLive(r) \/ PrepareThrows(r)
    \/ RecordOutcome(r) \/ RecordThrows(r)
    \/ LeaveActive(r) \/ Release(r) \/ FailAndRelease(r) \/ Cancelled(r)

Operator(r) ==
    \/ InterruptActive(r) \/ InterruptQueued(r)
    \/ GraceExpires(r) \/ CeilingStops(r)

Next ==
    \/ \E r \in Runs, s \in Sessions : Submit(r, s)
    \/ \E r \in Runs : Coroutine(r) \/ Operator(r)
    \/ \E s \in Sessions : RewindBegin(s) \/ RewindEnd(s)
    \/ \E n \in 1..MaxSlots : SetSlots(n)
    \/ Shutdown \/ Crash \/ Boot

Spec == Init /\ [][Next]_vars

\* The classifier and the preparation answer, settled promises resume, and
\* an armed timer fires.  A turn ends by itself only once it is stopped:
\* nothing else obliges a CLI to finish.
StoppedTurnEnds(r) == r \in aborted /\ (RecordOutcome(r) \/ RecordThrows(r))

Fairness ==
    \A r \in Runs :
        /\ WF_vars(Admit(r) \/ RejectAdmission(r))
        /\ WF_vars(GoLive(r) \/ PrepareThrows(r))
        /\ WF_vars(Start(r) \/ LeaveActive(r) \/ Release(r) \/ FailAndRelease(r) \/ Cancelled(r))
        /\ WF_vars(GraceExpires(r))
        /\ WF_vars(StoppedTurnEnds(r))

FairSpec == Spec /\ Fairness

-----------------------------------------------------------------------------
(* Properties *)

RowsTypeOK ==
    /\ runStatus \in [Runs -> {"absent"} \cup Unfinished \cup Terminal]
    /\ sessionStatus \in [Sessions -> {"idle", "running", "error"}]
    /\ anchored \in SUBSET Runs

CoroutinesTypeOK ==
    /\ phase \in [Runs -> Phases]
    /\ sess \in [Runs -> Sessions \cup {None}]
    /\ reserved \in SUBSET Sessions
    /\ active \in SUBSET Runs
    /\ queue \in Seq(Runs)

ControlTypeOK ==
    /\ interruptRequested \in SUBSET Runs
    /\ graceTimer \in SUBSET Runs
    /\ aborted \in SUBSET Runs
    /\ notified \in SUBSET Runs
    /\ rewinding \in SUBSET Sessions
    /\ slots \in 1..MaxSlots
    /\ shuttingDown \in BOOLEAN
    /\ up \in BOOLEAN

TypeOK == RowsTypeOK /\ CoroutinesTypeOK /\ ControlTypeOK

\* Two runs of one session are never in flight together, whatever the
\* interleaving of submits, cancellations, failures and restarts: they would
\* resume one Claude session id and interleave their transcripts.
OneRunPerSession ==
    \A r1, r2 \in Runs :
        phase[r1] \in InFlight /\ phase[r2] \in InFlight /\ sess[r1] = sess[r2] => r1 = r2

\* A session is claimed exactly while one of its runs is in flight: no path
\* out of submit, schedule or execute leaves a session that can never run
\* again, and none frees it early.
ReservationExact ==
    \A s \in Sessions : s \in reserved <=> InFlightOf(s) # {}

\* The three structures the kernel keeps agree with where its coroutines
\* are, and a dead process holds none of them.
BookkeepingExact ==
    /\ \A r \in Runs : r \in active <=> phase[r] \in Executing
    /\ \A r \in Runs : r \in QueuedRuns <=> phase[r] = "queued"
    /\ \A i, j \in 1..Len(queue) : queue[i] = queue[j] => i = j
    /\ \A r \in Runs : phase[r] \in InFlight => up /\ sess[r] \in Sessions

\* Work that waits in the queue always has a run past acquireSlot whose end
\* will wake it, even after the slot count is raised or lowered.
NoStrandedQueue ==
    queue # <<>> => \E r \in Runs : phase[r] \in Holding

\* While the process is up, a row that says queued or running belongs to a
\* coroutine that will finish it, and no coroutine waits behind a row that
\* already says otherwise.
RowsTellTheTruth ==
    up => \A r \in Runs :
        /\ runStatus[r] = "queued" <=> phase[r] \in {"admitted", "queued", "granted", "cancelled"}
        /\ runStatus[r] = "running" => phase[r] \in {"preparing", "live", "threw", "failing"}
        /\ phase[r] \in {"preparing", "live"} => runStatus[r] = "running"

\* A session shows "running" only while a run of its own holds a slot.
SessionShowsItsRun ==
    up => \A s \in Sessions :
        sessionStatus[s] = "running" =>
            \E r \in InFlightOf(s) : phase[r] \in {"preparing", "live", "threw", "failing"}

\* A finished run keeps its outcome across late timers, stops and restarts.
\* Only a record that threw may still be turned into a failure.
OutcomeIsFinal ==
    [][\A r \in Runs :
         runStatus[r] \in Terminal /\ runStatus'[r] # runStatus[r] =>
             phase[r] = "failing" /\ runStatus'[r] = "failed"]_vars

\* Stop on an executing run is a guarantee: within its grace period the run
\* leaves `active`, though nothing obliges the CLI to end its turn.
StopAlwaysStops ==
    \A r \in Runs : r \in graceTimer ~> r \notin active

\* Every CLI's turn ends, of itself or at a ceiling.
TurnsEnd == \A r \in Runs : phase[r] = "live" ~> phase[r] # "live"

\* If turns end, every run that was submitted is over in the end, and so is
\* the wait of whatever was queued behind it.
EveryRunEnds ==
    TurnsEnd => \A r \in Runs : phase[r] = "classifying" ~> phase[r] = "done"

-----------------------------------------------------------------------------
(* What the documentation promises and the code does not keep *)

\* docs/ARCHITECTURE.md: "A FIFO queue behind a semaphore".  A semaphore of
\* `slots` never admits more, as long as nobody changes it.
Semaphore == Cardinality(active) <= MaxSlots

\* kernel.ts, KernelDeps.onRunFinished: "Called once per run, after it
\* reaches a terminal state".  A run that leaves the scheduler was announced.
FinishIsAnnounced ==
    [][\A r \in Runs :
         phase[r] \in InFlight \ {"classifying"} /\ phase'[r] = "done" /\ up' => r \in notified]_vars

\* supervisor.ts: "A stop the operator asked for is an interruption, however
\* politely the CLI ended".  A stopped run is not recorded as a success.
StopIsNeverSuccess ==
    \A r \in Runs : phase[r] = "recorded" /\ r \in graceTimer => runStatus[r] # "succeeded"

\* kernel.ts, rewindRun(): no rewind restores files under a live CLI of the
\* same session.
NoRunUnderRewind ==
    \A r \in Runs : phase[r] = "live" => sess[r] \notin rewinding
=============================================================================
