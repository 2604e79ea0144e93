------------------------------ MODULE Delegation ------------------------------
(***************************************************************************)
(* Callers that block on a run: `delegate`, by which a live run asks       *)
(* another workspace, and the MCP gateway's `ask_workspace`.  The asked    *)
(* run is an ordinary run of the kernel; what is added is how its outcome  *)
(* reaches the caller, who may come for it before or after it exists, may  *)
(* give up, and may itself be holding the slot the asked run is waiting    *)
(* for.                                                                    *)
(***************************************************************************)
EXTENDS Kernel

CONSTANT Outside    \* the gateway: a caller that is not a run

ASSUME OutsideAssumption == Outside \notin Runs /\ Outside # None

VARIABLES
    asker,                  \* who blocks on each run; None for an ordinary one
    waiter,                 \* how far that caller is
    delivered,              \* the status the caller was given
    awaitedRuns,            \* Kernel.awaitedRuns
    delegationSettled,      \* Kernel.delegationSettled
    delegationAbandoned     \* Kernel.delegationAbandoned

kernel == vars
stashes == <<awaitedRuns, delegationSettled, delegationAbandoned>>
dvars == <<asker, waiter, delivered, stashes>>
allVars == <<vars, dvars>>

NoStash == [status |-> "absent", ready |-> FALSE]
Stash(status, ready) == [status |-> status, ready |-> ready]

\* "returning": submit() has resolved and its caller is about to wait.
Blocked == {"asking", "returning", "waiting"}

DInit ==
    /\ Init
    /\ asker = [r \in Runs |-> None]
    /\ waiter = [r \in Runs |-> "none"]
    /\ delivered = [r \in Runs |-> "absent"]
    /\ awaitedRuns = {}
    /\ delegationSettled = [r \in Runs |-> NoStash]
    /\ delegationAbandoned = {}

-----------------------------------------------------------------------------
(* Asking *)

\* admitPeerRun and startForToken, up to submit()'s first await.  A run asks
\* another workspace only, and only if nobody delegated to it.
Ask(who, r, s) ==
    /\ who \in Runs => /\ phase[who] = "live"
                       /\ asker[who] \notin Runs
                       /\ sess[who] # s
    /\ Submit(r, s)
    /\ asker' = [asker EXCEPT ![r] = who]
    /\ waiter' = [waiter EXCEPT ![r] = "asking"]
    /\ UNCHANGED <<delivered, stashes>>

Admitted(r) ==
    /\ Admit(r)
    /\ IF asker[r] = None THEN UNCHANGED <<waiter, awaitedRuns>>
       ELSE /\ awaitedRuns' = awaitedRuns \cup {r}
            /\ waiter' = [waiter EXCEPT ![r] = "returning"]
    /\ UNCHANGED <<asker, delivered, delegationSettled, delegationAbandoned>>

\* An awaited submission carries no attachments, so it fails without a row.
Refused(r) ==
    /\ RejectAdmission(r)
    /\ asker[r] # None => runStatus' = runStatus
    /\ waiter' = [waiter EXCEPT ![r] = IF asker[r] = None THEN "none" ELSE "refused"]
    /\ UNCHANGED <<asker, delivered, stashes>>

\* waitForDelegation: take a ready stash, or leave a waiter and a timer.
Register(r) ==
    /\ waiter[r] = "returning"
    /\ IF delegationSettled[r].ready
       THEN /\ waiter' = [waiter EXCEPT ![r] = "answered"]
            /\ delivered' = [delivered EXCEPT ![r] = delegationSettled[r].status]
            /\ delegationSettled' = [delegationSettled EXCEPT ![r] = NoStash]
       ELSE /\ waiter' = [waiter EXCEPT ![r] = "waiting"]
            /\ UNCHANGED <<delivered, delegationSettled>>
    /\ UNCHANGED <<kernel, asker, awaitedRuns, delegationAbandoned>>

TimesOut_Forgetting(r) ==
    /\ Quiet
    /\ waiter[r] = "waiting"
    /\ waiter' = [waiter EXCEPT ![r] = "gaveup"]
    /\ UNCHANGED <<kernel, asker, delivered, stashes>>

\* The caller's own timer.
TimesOut(r) ==
    /\ Quiet
    /\ waiter[r] = "waiting"
    /\ waiter' = [waiter EXCEPT ![r] = "gaveup"]
    /\ delegationAbandoned' = delegationAbandoned \cup {r}
    /\ UNCHANGED <<kernel, asker, delivered, awaitedRuns, delegationSettled>>

-----------------------------------------------------------------------------
(* Settling *)

\* A run blocked inside a delegation ends its turn only when it is stopped.
MayEnd(p) ==
    \/ p \in aborted \cup interruptRequested
    \/ \A r \in Runs : asker[r] = p => waiter[r] \notin Blocked

\* The outcome is stashed with the record, not handed over yet.
Recorded_HandingOver(r) ==
    /\ MayEnd(r)
    /\ RecordOutcome(r)
    /\ IF waiter[r] = "waiting"
       THEN /\ waiter' = [waiter EXCEPT ![r] = "answered"]
            /\ delivered' = [delivered EXCEPT ![r] = runStatus'[r]]
            /\ awaitedRuns' = awaitedRuns \ {r}
            /\ UNCHANGED <<asker, delegationSettled, delegationAbandoned>>
       ELSE /\ delegationSettled' = [delegationSettled EXCEPT
                 ![r] = IF r \in awaitedRuns THEN Stash(runStatus'[r], FALSE) ELSE @]
            /\ UNCHANGED <<asker, waiter, delivered, awaitedRuns, delegationAbandoned>>

Recorded_BeforeFinish(r) ==
    /\ MayEnd(r)
    /\ RecordOutcome(r)
    /\ delegationSettled' = [delegationSettled EXCEPT
         ![r] = IF r \in awaitedRuns THEN Stash(runStatus[r], FALSE) ELSE @]
    /\ UNCHANGED <<asker, waiter, delivered, awaitedRuns, delegationAbandoned>>

Recorded(r) ==
    /\ MayEnd(r)
    /\ RecordOutcome(r)
    /\ delegationSettled' = [delegationSettled EXCEPT
         ![r] = IF r \in awaitedRuns THEN Stash(runStatus'[r], FALSE) ELSE @]
    /\ UNCHANGED <<asker, waiter, delivered, awaitedRuns, delegationAbandoned>>

RecordFails(r) == MayEnd(r) /\ RecordThrows(r) /\ UNCHANGED dvars

\* settleDelegation: discard for a caller that gave up, hand over to one that
\* waits, else leave it ready.  Without a stash it reads the row.
Settle(r) ==
    LET stashed == delegationSettled[r]
        status == IF stashed = NoStash THEN runStatus'[r] ELSE stashed.status
    IN /\ awaitedRuns' = awaitedRuns \ {r}
       /\ IF r \in delegationAbandoned
          THEN /\ delegationAbandoned' = delegationAbandoned \ {r}
               /\ delegationSettled' = [delegationSettled EXCEPT ![r] = NoStash]
               /\ UNCHANGED <<asker, waiter, delivered>>
          ELSE /\ IF waiter[r] = "waiting"
                  THEN /\ waiter' = [waiter EXCEPT ![r] = "answered"]
                       /\ delivered' = [delivered EXCEPT ![r] = status]
                       /\ delegationSettled' = [delegationSettled EXCEPT ![r] = NoStash]
                  ELSE /\ delegationSettled' = [delegationSettled EXCEPT ![r] = Stash(status, TRUE)]
                       /\ UNCHANGED <<waiter, delivered>>
               /\ UNCHANGED <<asker, delegationAbandoned>>

Settled(r) == IF r \in awaitedRuns THEN Settle(r) ELSE UNCHANGED dvars

\* execute()'s finally, and a run cancelled while it was queued.
Left(r) == LeaveActive(r) /\ Settled(r)

CancelledInQueue_Unsettled(r) == Cancelled(r) /\ UNCHANGED dvars

CancelledInQueue(r) == Cancelled(r) /\ Settled(r)

-----------------------------------------------------------------------------
\* The callers die with the process.
Died ==
    /\ Crash
    /\ waiter' = [r \in Runs |-> IF waiter[r] = "none" THEN "none" ELSE "lost"]
    /\ awaitedRuns' = {} /\ delegationAbandoned' = {}
    /\ delegationSettled' = [r \in Runs |-> NoStash]
    /\ UNCHANGED <<asker, delivered>>

\* What the kernel does without touching a delegation.
Untouched ==
    /\ \/ \E r \in Runs, s \in Sessions : Submit(r, s)
       \/ \E r \in Runs : Start(r) \/ GoLive(r) \/ PrepareThrows(r) \/ Release(r) \/ FailAndRelease(r)
       \/ \E r \in Runs : Operator(r)
       \/ \E s \in Sessions : RewindBegin(s) \/ RewindEnd(s)
       \/ \E n \in 1..MaxSlots : SetSlots(n)
       \/ Shutdown \/ Boot
    /\ UNCHANGED dvars

DNext ==
    \/ \E who \in Runs \cup {Outside}, r \in Runs, s \in Sessions : Ask(who, r, s)
    \/ \E r \in Runs :
         \/ Admitted(r) \/ Refused(r) \/ Register(r) \/ TimesOut(r)
         \/ Recorded(r) \/ RecordFails(r) \/ Left(r) \/ CancelledInQueue(r)
    \/ Untouched
    \/ Died

DSpec == DInit /\ [][DNext]_allVars

\* The kernel's fairness, and its ceilings, under a delegation, in a process
\* that stays up and open.  The caller's timer is left out on purpose: a wait ends
\* without it.
DFairSpec ==
    /\ DInit /\ [][DNext /\ up' /\ UNCHANGED <<rewinding, slots, shuttingDown>>]_allVars
    /\ \A r \in Runs :
        /\ WF_allVars(Admitted(r) \/ Refused(r))
        /\ WF_allVars(Register(r))
        /\ WF_allVars((GoLive(r) \/ PrepareThrows(r)) /\ UNCHANGED dvars)
        /\ WF_allVars((Start(r) \/ Release(r) \/ FailAndRelease(r)) /\ UNCHANGED dvars)
        /\ WF_allVars(Left(r) \/ CancelledInQueue(r))
        /\ WF_allVars(r \in aborted /\ (Recorded(r) \/ RecordFails(r)))
        /\ WF_allVars(CeilingStops(r) /\ r \notin aborted /\ UNCHANGED dvars)

-----------------------------------------------------------------------------
(* Properties *)

\* The type invariant.
DTypeOK ==
    /\ asker \in [Runs -> Runs \cup {Outside, None}]
    /\ waiter \in [Runs -> Blocked \cup {"none", "answered", "gaveup", "refused", "lost"}]
    /\ delivered \in [Runs -> {"absent"} \cup Unfinished \cup Terminal]
    /\ awaitedRuns \in SUBSET Runs
    /\ delegationAbandoned \in SUBSET Runs
    /\ delegationSettled \in
         [Runs -> [status : {"absent"} \cup Unfinished \cup Terminal, ready : BOOLEAN]]

\* Nothing is kept for a caller who will not come: every entry of the three
\* maps belongs to a run still in flight, or to a caller about to look.
NothingIsKept ==
    \A r \in Runs :
        \/ r \in awaitedRuns \cup delegationAbandoned
        \/ delegationSettled[r] # NoStash
        => phase[r] \in InFlight \/ waiter[r] = "returning"

\* A caller is answered only once the run it asked for has left `active`, so
\* that its next question finds the standing session idle.
AnsweredAfterLeaving ==
    \A r \in Runs : waiter[r] = "answered" => r \notin active

\* The answer is the outcome on the run's row, unless the kernel itself
\* threw, which the row then records as a failure.
AnswerMatchesRow ==
    up => \A r \in Runs : waiter[r] = "answered" /\ phase[r] \in {"freed", "done"} =>
        delivered[r] = runStatus[r] \/ runStatus[r] = "failed"

\* Nobody blocks for ever, whatever happens to the asked run (cancelled in
\* the queue, thrown, stopped), even when the caller holds the only slot the
\* asked run could take; the caller's own timer is not needed for it.
EveryWaitEnds ==
    \A r \in Runs : waiter[r] \in Blocked ~> waiter[r] \notin Blocked

-----------------------------------------------------------------------------
(* What the comments promise and the code does not keep *)

\* kernel.ts, awaitRun: "Wait for a run somebody is blocked on, then hand back
\* its final text".  What is handed over is an outcome.
AnswerIsAnOutcome ==
    \A r \in Runs : waiter[r] = "answered" => delivered[r] \in Terminal
=============================================================================
