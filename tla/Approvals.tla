------------------------------ MODULE Approvals ------------------------------
(***************************************************************************)
(* Permission prompts: the broker of apps/api/src/kernel/permissions.ts,   *)
(* the two wrappers AgentSupervisor.execute puts around it, and the rows   *)
(* the kernel keeps meanwhile.                                             *)
(*                                                                         *)
(* A tool call is "pending" while its card is open, "settled" once its     *)
(* promise is resolved and the two `finally` blocks around it are still to *)
(* run, and "returned" when the CLI has its answer.  turn[r] follows the   *)
(* run from the supervisor's loop to the kernel's own `finally`.           *)
(***************************************************************************)
EXTENDS Naturals, FiniteSets

CONSTANTS
    Sessions,
    Runs,
    Calls,          \* canUseTool invocations, each at most once
    Tools,
    Preapproved,    \* tools the workspace pre-approves
    Elsewhere,      \* a run of the system workspace that is not among Runs
    None

\* "medium" stands for "low" too: nothing tells the two apart.
Risks == {"medium", "high"}

ASSUME PreapprovedAssumption == Preapproved \subseteq Tools
ASSUME CallsAssumption == IsFiniteSet(Calls)
ASSUME NoneAssumption == None \notin Sessions \cup Runs \cup Tools
ASSUME ElsewhereAssumption == Elsewhere \notin Runs

VARIABLES
    turn,           \* where each run is
    sess,           \* the session of each run
    runStatus,      \* runs.status; "finished" stands for the three outcomes
    sessionStatus,  \* sessions.status
    call,           \* each call's run, tool and assessed risk
    state,          \* where each call is
    answer,         \* what the CLI was told
    decidedBy,      \* who settled it; "withdrawn" is the timer, the signal or a stop
    timers,         \* calls whose APPROVAL_TIMEOUT_MS timer is armed
    listeners,      \* calls with an abort listener on their signal
    sessionGrants,  \* PermissionBroker.sessionGrants: grantKey -> approved
    outstanding,    \* execute()'s counter of calls being asked, per run
    awaitingApproval, \* execute()'s counter holding the idle ceiling
    idleArmed,      \* runs whose idle timer is armed
    aborted,        \* runs whose controller has fired
    deleted,        \* sessions that were deleted
    up

rows   == <<runStatus, sessionStatus>>
calls  == <<call, state, answer, decidedBy, timers, listeners>>
meters == <<outstanding, awaitingApproval, idleArmed>>
vars == <<turn, sess, rows, calls, sessionGrants, meters, aborted, deleted, up>>

InFlight == {"live", "ended", "recorded", "threw", "failing"}
CallsOf(r) == {c \in Calls : call[c].run = r}
PendingOf(r) == {c \in CallsOf(r) : state[c] = "pending"}

\* No coroutine is parked on a settled promise: timers and requests can run.
Quiet ==
    /\ \A c \in Calls : state[c] # "settled"
    /\ \A r \in Runs : turn[r] \notin {"recorded", "threw", "failing"}

GrantKey_WithoutRisk(s, tool, risk) == <<s, tool, "medium">>

\* The verb of a shell command is part of `tool` here.
GrantKey(s, tool, risk) == <<s, tool, risk>>

KeyOf(c) == GrantKey(sess[call[c].run], call[c].tool, call[c].risk)

Init ==
    /\ turn = [r \in Runs |-> "new"]
    /\ sess = [r \in Runs |-> None]
    /\ runStatus = [r \in Runs |-> "queued"]
    /\ sessionStatus = [s \in Sessions |-> "idle"]
    /\ call = [c \in Calls |-> [run |-> None, tool |-> None, risk |-> "medium"]]
    /\ state = [c \in Calls |-> "unused"]
    /\ answer = [c \in Calls |-> "none"]
    /\ decidedBy = [c \in Calls |-> "nobody"]
    /\ timers = {} /\ listeners = {}
    /\ sessionGrants = [k \in {} |-> TRUE]
    /\ outstanding = [r \in Runs |-> 0]
    /\ awaitingApproval = [r \in Runs |-> 0]
    /\ idleArmed = {}
    /\ aborted = {} /\ deleted = {}
    /\ up = TRUE

-----------------------------------------------------------------------------
(* Settling *)

Answered(C, verdict, who) ==
    /\ state' = [c \in Calls |-> IF c \in C THEN "settled" ELSE state[c]]
    /\ answer' = [c \in Calls |-> IF c \in C THEN verdict ELSE answer[c]]
    /\ decidedBy' = [c \in Calls |-> IF c \in C THEN who ELSE decidedBy[c]]

HasEntry_Always(c) == state[c] # "unused"

\* PermissionBroker.pending holds the card: whoever settles it looks first.
HasEntry(c) == state[c] = "pending"

\* settle(): timer, abort listener and entry go together.
Settle(c) ==
    /\ HasEntry(c)
    /\ Answered({c}, "deny", "withdrawn")
    /\ timers' = timers \ {c}
    /\ listeners' = listeners \ {c}
    /\ UNCHANGED call

\* resolve(): the operator's path, and cancelRun's; it leaves the listener.
ResolveAll(C, verdict, who) ==
    /\ Answered(C, verdict, who)
    /\ timers' = timers \ C
    /\ UNCHANGED <<call, listeners>>

-----------------------------------------------------------------------------
(* The run around its calls *)

\* A run reaches the supervisor's loop, after file I/O of its own.  The kernel
\* lets one run per session in (module Kernel, OneRunPerSession).
Begin(r, s) ==
    /\ up /\ Quiet
    /\ turn[r] = "new"
    /\ s \notin deleted
    /\ \A q \in Runs : sess[q] = s => turn[q] \notin InFlight
    /\ turn' = [turn EXCEPT ![r] = "live"]
    /\ sess' = [sess EXCEPT ![r] = s]
    /\ runStatus' = [runStatus EXCEPT ![r] = "running"]
    /\ sessionStatus' = [sessionStatus EXCEPT ![s] = "running"]
    /\ idleArmed' = idleArmed \cup {r}
    /\ UNCHANGED <<calls, sessionGrants, outstanding, awaitingApproval, aborted, deleted, up>>

\* onWaitingChange: both rows.
OnWaitingChange(r, status) ==
    /\ runStatus' = [runStatus EXCEPT ![r] = status]
    /\ sessionStatus' = [sessionStatus EXCEPT ![sess[r]] = status]

\* touch(): a message re-arms the idle timer unless a card is open.
Touched(r, awaiting) == IF awaiting = 0 THEN idleArmed \cup {r} ELSE idleArmed \ {r}

\* A call the workspace pre-approves never reaches the broker.
AskPreapproved(c, r, tool, risk) ==
    /\ turn[r] = "live" /\ state[c] = "unused"
    /\ tool \in Preapproved
    /\ call' = [call EXCEPT ![c] = [run |-> r, tool |-> tool, risk |-> risk]]
    /\ state' = [state EXCEPT ![c] = "returned"]
    /\ answer' = [answer EXCEPT ![c] = "allow"]
    /\ decidedBy' = [decidedBy EXCEPT ![c] = "workspace"]
    /\ UNCHANGED <<turn, sess, rows, timers, listeners, sessionGrants, meters, aborted, deleted, up>>

\* Both wrappers, then PermissionBroker.request up to its promise: a grant
\* or an already aborted signal settles it at once, else a card opens.
Ask(c, r, tool, risk) ==
    /\ turn[r] = "live" /\ state[c] = "unused"
    /\ tool \notin Preapproved
    /\ call' = [call EXCEPT ![c] = [run |-> r, tool |-> tool, risk |-> risk]]
    /\ outstanding' = [outstanding EXCEPT ![r] = @ + 1]
    /\ awaitingApproval' = [awaitingApproval EXCEPT ![r] = @ + 1]
    /\ idleArmed' = Touched(r, awaitingApproval[r] + 1)
    /\ LET key == GrantKey(sess[r], tool, risk)
       IN IF key \in DOMAIN sessionGrants
          THEN /\ Answered({c}, IF sessionGrants[key] THEN "allow" ELSE "deny", "grant")
               /\ UNCHANGED <<timers, listeners>>
          ELSE \/ /\ state' = [state EXCEPT ![c] = "pending"]
                  /\ timers' = timers \cup {c}
                  /\ listeners' = listeners \cup {c}
                  /\ UNCHANGED <<answer, decidedBy>>
               \/ /\ Answered({c}, "deny", "withdrawn")
                  /\ UNCHANGED <<timers, listeners>>
    /\ IF outstanding[r] = 0 \/ state'[c] = "pending"
       THEN OnWaitingChange(r, "waiting_approval")
       ELSE UNCHANGED rows
    /\ UNCHANGED <<turn, sess, sessionGrants, aborted, deleted, up>>

Resume_LoweringEachTime(c) ==
    LET r == call[c].run
    IN /\ state[c] = "settled"
       /\ state' = [state EXCEPT ![c] = "returned"]
       /\ awaitingApproval' = [awaitingApproval EXCEPT ![r] = @ - 1]
       /\ idleArmed' = Touched(r, awaitingApproval[r] - 1)
       /\ outstanding' = [outstanding EXCEPT ![r] = @ - 1]
       /\ OnWaitingChange(r, "running")
       /\ UNCHANGED <<turn, sess, call, answer, decidedBy, timers, listeners, sessionGrants, aborted, deleted, up>>

\* The two finally blocks: the idle ceiling is released, and the last call
\* out lowers the badge.
Resume(c) ==
    LET r == call[c].run
    IN /\ state[c] = "settled"
       /\ state' = [state EXCEPT ![c] = "returned"]
       /\ awaitingApproval' = [awaitingApproval EXCEPT ![r] = @ - 1]
       /\ idleArmed' = Touched(r, awaitingApproval[r] - 1)
       /\ outstanding' = [outstanding EXCEPT ![r] = @ - 1]
       /\ IF outstanding[r] = 1 THEN OnWaitingChange(r, "running") ELSE UNCHANGED rows
       /\ UNCHANGED <<turn, sess, call, answer, decidedBy, timers, listeners, sessionGrants, aborted, deleted, up>>

\* Any message of the CLI is proof of life.
Message_IgnoringCards(r) ==
    /\ turn[r] = "live"
    /\ idleArmed' = idleArmed \cup {r}
    /\ UNCHANGED <<turn, sess, rows, calls, sessionGrants, outstanding, awaitingApproval, aborted, deleted, up>>

Message(r) ==
    /\ turn[r] = "live"
    /\ idleArmed' = Touched(r, awaitingApproval[r])
    /\ UNCHANGED <<turn, sess, rows, calls, sessionGrants, outstanding, awaitingApproval, aborted, deleted, up>>

IdleExpires(r) ==
    /\ Quiet
    /\ r \in idleArmed
    /\ idleArmed' = idleArmed \ {r}
    /\ aborted' = aborted \cup {q \in {r} : turn[q] \in InFlight}
    /\ UNCHANGED <<turn, sess, rows, calls, sessionGrants, outstanding, awaitingApproval, deleted, up>>

\* The absolute ceiling, the kill after a stop, or shutdown.
Abort(r) ==
    /\ Quiet
    /\ turn[r] = "live"
    /\ aborted' = aborted \cup {r}
    /\ UNCHANGED <<turn, sess, rows, calls, sessionGrants, meters, deleted, up>>

\* The loop over the CLI's messages is left: a result with no card open, or
\* an iterator that threw under an abort.  Either takes longer than the
\* promises already settled.
TurnEnds(r) ==
    /\ turn[r] = "live"
    /\ \A c \in CallsOf(r) : state[c] # "settled"
    /\ r \in aborted \/ PendingOf(r) = {}
    /\ turn' = [turn EXCEPT ![r] = "ended"]
    /\ idleArmed' = idleArmed \ {r}
    /\ UNCHANGED <<sess, rows, calls, sessionGrants, outstanding, awaitingApproval, aborted, deleted, up>>

\* runs.finish and the session's status.
Record(r) ==
    /\ turn[r] = "ended"
    /\ turn' = [turn EXCEPT ![r] = "recorded"]
    /\ runStatus' = [runStatus EXCEPT ![r] = "finished"]
    /\ \E st \in {"idle", "error"} : sessionStatus' = [sessionStatus EXCEPT ![sess[r]] = st]
    /\ UNCHANGED <<sess, calls, sessionGrants, meters, aborted, deleted, up>>

RecordThrows(r) ==
    /\ turn[r] = "ended"
    /\ turn' = [turn EXCEPT ![r] = "threw"]
    /\ UNCHANGED <<sess, rows, calls, sessionGrants, meters, aborted, deleted, up>>

Leave_WithoutCancel(r) ==
    /\ turn[r] \in {"recorded", "threw"}
    /\ turn' = [turn EXCEPT ![r] = IF @ = "recorded" THEN "done" ELSE "failing"]
    /\ aborted' = aborted \ {r}
    /\ UNCHANGED <<sess, rows, calls, sessionGrants, meters, deleted, up>>

\* Kernel.execute's finally: every card of the run is declined.
Leave(r) ==
    /\ turn[r] \in {"recorded", "threw"}
    /\ turn' = [turn EXCEPT ![r] = IF @ = "recorded" THEN "done" ELSE "failing"]
    /\ ResolveAll(PendingOf(r), "deny", "withdrawn")
    /\ aborted' = aborted \ {r}
    /\ UNCHANGED <<sess, rows, sessionGrants, meters, deleted, up>>

\* schedule()'s catch.
Fail(r) ==
    /\ turn[r] = "failing"
    /\ turn' = [turn EXCEPT ![r] = "done"]
    /\ runStatus' = [runStatus EXCEPT ![r] = "finished"]
    /\ sessionStatus' = [sessionStatus EXCEPT ![sess[r]] = "error"]
    /\ UNCHANGED <<sess, calls, sessionGrants, meters, aborted, deleted, up>>

-----------------------------------------------------------------------------
(* Deciding *)

MayRemember_AnyRisk(c, approved) == TRUE

\* An allow of a high-risk call is never remembered; a denial always may be.
MayRemember(c, approved) == approved => call[c].risk # "high"

\* decideApproval: the operator answers an open card, over HTTP or the socket.
Decide(c, approved, remember) ==
    /\ Quiet
    /\ HasEntry(c)
    /\ sessionGrants' =
         IF remember /\ MayRemember(c, approved)
         THEN [k \in DOMAIN sessionGrants \cup {KeyOf(c)} |->
                 IF k = KeyOf(c) THEN approved ELSE sessionGrants[k]]
         ELSE sessionGrants
    /\ ResolveAll({c}, IF approved THEN "allow" ELSE "deny", "operator")
    /\ UNCHANGED <<turn, sess, rows, meters, aborted, deleted, up>>

\* approvalDecide: a run of the system workspace answers another run's card.
StewardDecide(actor, c, approved) ==
    /\ actor \in Runs => turn[actor] = "live"
    /\ HasEntry(c)
    /\ call[c].run # actor
    /\ approved => call[c].risk # "high"
    /\ ResolveAll({c}, IF approved THEN "allow" ELSE "deny", "steward")
    /\ UNCHANGED <<turn, sess, rows, sessionGrants, meters, aborted, deleted, up>>

Expire_ClearingOnly(c) ==
    /\ Quiet
    /\ c \in timers
    /\ timers' = timers \ {c}
    /\ UNCHANGED <<turn, sess, rows, call, state, answer, decidedBy, listeners, sessionGrants, meters, aborted, deleted, up>>

\* APPROVAL_TIMEOUT_MS passed: the card is declined.
Expire(c) ==
    /\ Quiet
    /\ c \in timers
    /\ Settle(c)
    /\ UNCHANGED <<turn, sess, rows, sessionGrants, meters, aborted, deleted, up>>

\* The CLI withdraws the request, or the SDK is torn down under it.
SignalFires(c) ==
    /\ c \in listeners
    /\ IF HasEntry(c)
       THEN Settle(c)
       ELSE listeners' = listeners \ {c} /\ UNCHANGED <<call, state, answer, decidedBy, timers>>
    /\ UNCHANGED <<turn, sess, rows, sessionGrants, meters, aborted, deleted, up>>

\* Kernel.interrupt declines every open card of the run it stops.
Interrupt(r) ==
    /\ Quiet
    /\ turn[r] \in {"live", "ended"}
    /\ ResolveAll(PendingOf(r), "deny", "withdrawn")
    /\ UNCHANGED <<turn, sess, rows, sessionGrants, meters, aborted, deleted, up>>

\* DELETE /api/sessions/:id with clearSessionGrants.
DeleteSession(s) ==
    /\ up /\ Quiet /\ s \notin deleted
    /\ \A r \in Runs : sess[r] = s => turn[r] \notin InFlight
    /\ deleted' = deleted \cup {s}
    /\ sessionGrants' = [k \in {k \in DOMAIN sessionGrants : k[1] # s} |-> sessionGrants[k]]
    /\ UNCHANGED <<turn, sess, rows, calls, meters, aborted, up>>

-----------------------------------------------------------------------------
(* The process *)

Crash ==
    /\ up /\ up' = FALSE
    /\ turn' = [r \in Runs |-> IF turn[r] = "new" THEN "new" ELSE "done"]
    /\ state' = [c \in Calls |-> IF state[c] \in {"pending", "settled"} THEN "lost" ELSE state[c]]
    /\ timers' = {} /\ listeners' = {} /\ idleArmed' = {} /\ aborted' = {}
    /\ sessionGrants' = [k \in {} |-> TRUE]
    /\ outstanding' = [r \in Runs |-> 0]
    /\ awaitingApproval' = [r \in Runs |-> 0]
    /\ UNCHANGED <<sess, rows, call, answer, decidedBy, deleted>>

\* RunRepo.recoverOrphaned and SessionRepo.recoverOrphaned.  The rows of runs
\* that have not begun are written after this.
Boot_RunningOnly ==
    /\ ~up /\ up' = TRUE
    /\ runStatus' = [r \in Runs |->
         IF turn[r] = "done" /\ runStatus[r] = "running" THEN "finished" ELSE runStatus[r]]
    /\ sessionStatus' = [s \in Sessions |-> IF sessionStatus[s] = "running" THEN "idle" ELSE sessionStatus[s]]
    /\ UNCHANGED <<turn, sess, calls, sessionGrants, meters, aborted, deleted>>

Boot ==
    /\ ~up /\ up' = TRUE
    /\ runStatus' = [r \in Runs |->
         IF turn[r] = "done" /\ runStatus[r] \in {"running", "waiting_approval"} THEN "finished" ELSE runStatus[r]]
    /\ sessionStatus' = [s \in Sessions |->
         IF sessionStatus[s] \in {"running", "waiting_approval"} THEN "idle" ELSE sessionStatus[s]]
    /\ UNCHANGED <<turn, sess, calls, sessionGrants, meters, aborted, deleted>>

-----------------------------------------------------------------------------
Turn(r) ==
    \/ \E s \in Sessions : Begin(r, s)
    \/ Message(r) \/ TurnEnds(r) \/ Record(r) \/ RecordThrows(r) \/ Leave(r) \/ Fail(r)
    \/ IdleExpires(r) \/ Abort(r) \/ Interrupt(r)

Card(c) ==
    \/ \E r \in Runs, tool \in Tools, risk \in Risks :
         Ask(c, r, tool, risk) \/ AskPreapproved(c, r, tool, risk)
    \/ \E approved, remember \in BOOLEAN : Decide(c, approved, remember)
    \/ \E actor \in Runs \cup {Elsewhere}, approved \in BOOLEAN : StewardDecide(actor, c, approved)
    \/ Expire(c) \/ SignalFires(c) \/ Resume(c)

Next ==
    \/ \E r \in Runs : Turn(r)
    \/ \E c \in Calls : Card(c)
    \/ \E s \in Sessions : DeleteSession(s)
    \/ Crash \/ Boot

Spec == Init /\ [][Next]_vars

\* A timer fires, settled promises resume, and a run past its loop goes on.
\* Nobody is obliged to answer a card and no CLI to end its turn.
FairSpec ==
    /\ Spec
    /\ \A c \in Calls : WF_vars(Expire(c)) /\ WF_vars(Resume(c))
    /\ \A r \in Runs : WF_vars(Record(r) \/ RecordThrows(r) \/ Leave(r) \/ Fail(r))

-----------------------------------------------------------------------------
(* Properties *)

\* The type invariant.
TypeOK ==
    /\ turn \in [Runs -> {"new", "done"} \cup InFlight]
    /\ sess \in [Runs -> Sessions \cup {None}]
    /\ runStatus \in [Runs -> {"queued", "running", "waiting_approval", "finished"}]
    /\ sessionStatus \in [Sessions -> {"idle", "running", "waiting_approval", "error"}]
    /\ call \in [Calls -> [run : Runs \cup {None}, tool : Tools \cup {None}, risk : Risks]]
    /\ state \in [Calls -> {"unused", "pending", "settled", "returned", "lost"}]
    /\ answer \in [Calls -> {"none", "allow", "deny"}]
    /\ decidedBy \in [Calls -> {"nobody", "operator", "steward", "grant", "workspace", "withdrawn"}]
    /\ timers \in SUBSET Calls /\ listeners \in SUBSET Calls
    /\ DOMAIN sessionGrants \subseteq Sessions \X Tools \X Risks
    /\ \A k \in DOMAIN sessionGrants : sessionGrants[k] \in BOOLEAN
    /\ outstanding \in [Runs -> 0..Cardinality(Calls)]
    /\ awaitingApproval \in [Runs -> 0..Cardinality(Calls)]
    /\ idleArmed \in SUBSET Runs /\ aborted \in SUBSET Runs
    /\ deleted \in SUBSET Sessions
    /\ up \in BOOLEAN

\* While a run works, its badge says "waiting" exactly as long as one of its
\* calls is with the broker, however the answers interleave.
BadgeTellsTheTruth ==
    \A r \in Runs : turn[r] = "live" =>
        /\ runStatus[r] = IF outstanding[r] > 0 THEN "waiting_approval" ELSE "running"
        /\ sessionStatus[sess[r]] = runStatus[r]
        /\ outstanding[r] = Cardinality({c \in CallsOf(r) : state[c] \in {"pending", "settled"}})

\* A run is never stopped for its silence while the silence is the
\* operator's: no idle timer is armed as long as a card of it is open.
NoIdleUnderACard ==
    \A r \in Runs : turn[r] = "live" /\ PendingOf(r) # {} => r \notin idleArmed

\* A run that left takes its cards with it, and every open card has the
\* timer that will close it.
NoOrphanCard ==
    \A c \in Calls : state[c] = "pending" =>
        turn[call[c].run] \in {"live", "ended", "recorded", "threw"} /\ c \in timers

\* A run stays marked as waiting only while something can still lower it:
\* its last call, its record, or the failure it is on the way to.
WaitingIsLeft ==
    up => \A r \in Runs : runStatus[r] = "waiting_approval" =>
        turn[r] \in {"live", "ended", "threw", "failing"}

\* A high-risk call is only ever allowed by a person, or by the workspace's
\* own list: no remembered answer to a milder call covers it, and no steward.
HighRiskIsTheOperators ==
    \A c \in Calls : answer[c] = "allow" /\ call[c].risk = "high" =>
        decidedBy[c] \in {"operator", "workspace"}

\* A remembered answer was given by a person to the same tool at the same
\* risk in the same session, and dies with the session.
GrantsWereShown ==
    /\ \A k \in DOMAIN sessionGrants : k[1] \notin deleted
    /\ \A c \in Calls : decidedBy[c] = "grant" =>
         \E d \in Calls :
            /\ decidedBy[d] = "operator" /\ answer[d] = answer[c]
            /\ sess[call[d].run] = sess[call[c].run]
            /\ call[d].tool = call[c].tool /\ call[d].risk = call[c].risk

\* The first of the operator, the steward, the timer, the signal and the
\* stop wins: a card that was answered keeps its answer.
AnswerIsFinal ==
    [][\A c \in Calls : answer[c] # "none" =>
         answer'[c] = answer[c] /\ decidedBy'[c] = decidedBy[c]]_vars

\* A prompt nobody answers does not wedge the run: its call returns, unless
\* the process dies first.
EveryCardCloses ==
    \A c \in Calls : state[c] = "pending" ~> state[c] \in {"returned", "lost"}

-----------------------------------------------------------------------------
(* What the comments promise and the code does not keep *)

\* permissions.ts, request(): without the clean-up "a run with many approvals
\* accumulates one live closure per approval".  A listener lives no longer
\* than its card.
ListenersAreCleaned ==
    \A c \in listeners : state[c] = "pending"
=============================================================================
