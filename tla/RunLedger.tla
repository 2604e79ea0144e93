------------------------------ MODULE RunLedger ------------------------------
(***************************************************************************)
(* What the kernel promises to everything that reads the runs table: the   *)
(* history of each run's row, seen from outside the process that writes    *)
(* it.  Kernel implements it (KernelLedger); the transcript view, the      *)
(* analytics, the board and the retention job rely on it.                  *)
(***************************************************************************)
EXTENDS Naturals

CONSTANTS Sessions, Runs, None

VARIABLES
    status,     \* runs.status, "absent" before the row exists
    owner       \* runs.session_id

Outcomes == {"succeeded", "failed", "interrupted"}
Unfinished == {"queued", "running"}

UnfinishedOf(s) == {r \in Runs : owner[r] = s /\ status[r] \in Unfinished}

Init ==
    /\ status = [r \in Runs |-> "absent"]
    /\ owner = [r \in Runs |-> None]

\* A row is born queued, in a session none of whose rows is unfinished.
Create(r, s) ==
    /\ status[r] = "absent"
    /\ UnfinishedOf(s) = {}
    /\ status' = [status EXCEPT ![r] = "queued"]
    /\ owner' = [owner EXCEPT ![r] = s]

\* Or born failed, when its attachments could not be bound.
CreateFailed(r, s) ==
    /\ status[r] = "absent"
    /\ status' = [status EXCEPT ![r] = "failed"]
    /\ owner' = [owner EXCEPT ![r] = s]

Move(r, from, to) ==
    /\ status[r] \in from
    /\ \E st \in to : status' = [status EXCEPT ![r] = st]
    /\ UNCHANGED owner

Begin(r)  == Move(r, {"queued"}, {"running"})
Finish(r) == Move(r, {"running"}, Outcomes)
Cancel(r) == Move(r, {"queued"}, {"interrupted"})

\* The only way out of an outcome: the record that wrote it threw.
Overrule(r) == Move(r, Outcomes, {"failed"})

\* A restart interrupts what was unfinished, and nothing else.
Recover ==
    /\ status' = [r \in Runs |-> IF status[r] \in Unfinished THEN "interrupted" ELSE status[r]]
    /\ UNCHANGED owner

Next ==
    \/ \E r \in Runs, s \in Sessions : Create(r, s) \/ CreateFailed(r, s)
    \/ \E r \in Runs : Begin(r) \/ Finish(r) \/ Cancel(r) \/ Overrule(r)
    \/ Recover

Spec == Init /\ [][Next]_<<status, owner>>
=============================================================================
