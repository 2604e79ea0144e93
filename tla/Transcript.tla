----------------------------- MODULE Transcript -----------------------------
(***************************************************************************)
(* The transcript of one run, from its three writers: StreamState          *)
(* (kernel/supervisor.ts), a fresh one for each attempt at the run, which  *)
(* numbers its events itself; the kernel's notes and the result event,     *)
(* which take the number after the last one stored; and the recovery at    *)
(* boot.  TranscriptRepo (kernel/repositories.ts) refuses a number that is *)
(* taken.                                                                  *)
(*                                                                         *)
(* Abstracted: what an event says, save whether it is a tool call without  *)
(* its result; the choice of the next model (Quota).                       *)
(***************************************************************************)
EXTENDS Naturals, FiniteSets, FiniteSetsExt

CONSTANTS RetryLimit,      \* MAX_QUOTA_SWITCHES
          MaxEvents         \* bound: events of the run

ASSUME TranscriptAssumption == RetryLimit \in Nat /\ MaxEvents \in Nat

VARIABLES
    phase,      \* where the run is: "preparing", "ready", "streaming",
                \* "answered", "concluded", "ended", or "down" with the process
    retries,
    seq,        \* of the StreamState of this attempt
    openCalls,  \* its openToolCalls
    rows,       \* transcript_events of the run
    shown       \* events sent to the clients, numbered as they were made

transcriptVars == <<phase, retries, seq, openCalls, rows, shown>>

Row(n, event, running) == [seq |-> n, event |-> event, running |-> running]

TranscriptInit ==
    /\ phase = "preparing"
    /\ retries = 0 /\ seq = 0 /\ shown = 0
    /\ openCalls = {} /\ rows = {}

-----------------------------------------------------------------------------
(* TranscriptRepo *)

\* An insert on the unique index (run_id, seq); onEvent only logs a failure.
Appended(n, event, running) ==
    IF \E r \in rows : r.seq = n THEN rows ELSE rows \cup {Row(n, event, running)}

NextSeq == 1 + Max({-1} \cup {r.seq : r \in rows})

\* update, with the result of the calls in closing.
Closed(closing) == {IF r.event \in closing THEN [r EXCEPT !.running = FALSE] ELSE r : r \in rows}

\* The kernel's own line, an event like any other.
Note ==
    /\ shown < MaxEvents
    /\ shown' = shown + 1
    /\ rows' = Appended(NextSeq, shown + 1, FALSE)

-----------------------------------------------------------------------------
(* The kernel's part of a run *)

Prepared ==
    /\ phase = "preparing" /\ phase' = "ready"
    /\ UNCHANGED <<retries, seq, openCalls, rows, shown>>

PrepareFails ==
    /\ phase = "preparing" /\ phase' = "ready"
    /\ Note
    /\ UNCHANGED <<retries, seq, openCalls>>

\* supervisor.execute: the prompt opens the transcript of the attempt.
Execute ==
    /\ phase = "ready" /\ phase' = "streaming"
    /\ shown < MaxEvents
    /\ shown' = shown + 1
    /\ rows' = Appended(0, shown + 1, FALSE)
    /\ seq' = 1 /\ openCalls' = {}
    /\ UNCHANGED retries

\* surviveQuota: the attempt was refused.
Switch ==
    /\ phase = "answered" /\ retries < RetryLimit
    /\ phase' = "ready"
    /\ retries' = retries + 1
    /\ Note
    /\ UNCHANGED <<seq, openCalls>>

\* Out of models or of switches.
GiveUp ==
    /\ phase = "answered" /\ phase' = "concluded"
    /\ Note
    /\ UNCHANGED <<retries, seq, openCalls>>

Result ==
    /\ phase \in {"answered", "concluded"} /\ phase' = "ended"
    /\ Note
    /\ UNCHANGED <<retries, seq, openCalls>>

-----------------------------------------------------------------------------
(* StreamState *)

\* An event of the stream, or the supervisor's own note.
Emit(running) ==
    /\ phase = "streaming"
    /\ shown < MaxEvents
    /\ shown' = shown + 1
    /\ seq' = seq + 1
    /\ rows' = Appended(seq, shown + 1, running)
    /\ openCalls' = openCalls \cup (IF running THEN {shown + 1} ELSE {})
    /\ UNCHANGED <<phase, retries>>

ToolReturns(call) ==
    /\ phase = "streaming" /\ call \in openCalls
    /\ openCalls' = openCalls \ {call}
    /\ rows' = Closed({call})
    /\ UNCHANGED <<phase, retries, seq, shown>>

\* The result of TodoWrite also shows the list.
TodoReturns(call) ==
    /\ phase = "streaming" /\ call \in openCalls
    /\ shown < MaxEvents
    /\ shown' = shown + 1
    /\ seq' = seq + 1
    /\ openCalls' = openCalls \ {call}
    /\ LET written == Appended(seq, shown + 1, FALSE)
       IN  rows' = {IF r.event = call THEN [r EXCEPT !.running = FALSE] ELSE r : r \in written}
    /\ UNCHANGED <<phase, retries>>

\* The finally of execute, whether the attempt answers or throws.
Finalise(next) ==
    /\ phase = "streaming" /\ phase' = next
    /\ rows' = Closed(openCalls)
    /\ openCalls' = {}
    /\ UNCHANGED <<retries, seq, shown>>

-----------------------------------------------------------------------------
TranscriptCrash ==
    /\ phase # "down" /\ phase' = "down"
    /\ openCalls' = {} /\ seq' = 0
    /\ UNCHANGED <<retries, rows, shown>>

Rebooted_WithoutRecovery ==
    /\ phase = "down" /\ phase' = "ended"
    /\ UNCHANGED <<retries, seq, openCalls, rows, shown>>

\* recoverOrphaned, before the kernel accepts work.
Rebooted ==
    /\ phase = "down" /\ phase' = "ended"
    /\ rows' = Closed({r.event : r \in rows})
    /\ UNCHANGED <<retries, seq, openCalls, shown>>

TranscriptNext ==
    \/ Prepared \/ PrepareFails \/ Execute \/ Switch \/ GiveUp \/ Result
    \/ \E running \in BOOLEAN : Emit(running)
    \/ \E call \in openCalls : ToolReturns(call) \/ TodoReturns(call)
    \/ \E next \in {"answered", "ended"} : Finalise(next)
    \/ TranscriptCrash \/ Rebooted

TranscriptSpec == TranscriptInit /\ [][TranscriptNext]_transcriptVars

-----------------------------------------------------------------------------
(* Properties *)

\* repositories.ts, of a card that spins for ever: a stored tool call is
\* running only while the attempt that made it streams, or until the boot
\* after a crash, whatever its insert, its result and its end were overtaken
\* by.
ToolCallsClose == \A r \in rows : r.running => phase \in {"streaming", "down"}

(* What the comments promise and the code does not keep *)

\* repositories.ts: "`seq` is allocated inside the same transaction as the
\* insert so concurrent writers on the same run cannot collide".  Each
\* attempt numbers its events from zero again, and a note may have taken
\* zero before the first: what collides was shown live and is not stored.
EveryEventIsKept == \A e \in 1..shown : \E r \in rows : r.event = e
=============================================================================
