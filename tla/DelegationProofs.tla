--------------------------- MODULE DelegationProofs ---------------------------
(***************************************************************************)
(* Delegation is the kernel with callers added: everything proved of the   *)
(* kernel holds under it.  What a caller is told, when, and what is kept   *)
(* for it, for any number of runs, sessions and slots.                     *)
(***************************************************************************)
EXTENDS Delegation, KernelProofs

USE OutsideAssumption

-----------------------------------------------------------------------------
(* The kernel underneath *)

LEMMA StepIsKernelStep == [DNext]_allVars => [Next]_vars
<1> SUFFICES ASSUME [DNext]_allVars PROVE [Next]_vars
  OBVIOUS
<1>1. ASSUME NEW who \in Runs \cup {Outside}, NEW r \in Runs, NEW s \in Sessions, Ask(who, r, s)
      PROVE  Next
  BY <1>1 DEF Ask, Next
<1>2. ASSUME NEW r \in Runs, Admitted(r) \/ Refused(r) \/ Recorded(r) \/ RecordFails(r)
                             \/ Left(r) \/ CancelledInQueue(r)
      PROVE  Next
  <2>1. Coroutine(r)
    BY <1>2 DEF Admitted, Refused, Recorded, RecordFails, Left, CancelledInQueue, Coroutine
  <2> QED
    BY <2>1 DEF Next
<1>3. ASSUME NEW r \in Runs, Register(r) \/ TimesOut(r) PROVE UNCHANGED vars
  BY <1>3 DEF Register, TimesOut, kernel
<1>4. ASSUME Untouched PROVE Next
  BY <1>4 DEF Untouched, Next, Coroutine
<1>5. ASSUME Died PROVE Next
  BY <1>5 DEF Died, Next
<1>6. ASSUME UNCHANGED allVars PROVE UNCHANGED vars
  BY <1>6 DEF allVars
<1> QED
  BY <1>1, <1>2, <1>3, <1>4, <1>5, <1>6 DEF DNext

\* Delegation adds callers to the kernel and takes nothing from it: every
\* behaviour with delegations is, for the kernel's own state, one without.
THEOREM DelegationImplementsKernel == DSpec => Spec
<1>1. DInit => Init
  BY DEF DInit
<1> QED
  BY <1>1, StepIsKernelStep, PTL DEF DSpec, Spec

LEMMA KernelHolds == DSpec => []IInv
  BY DelegationImplementsKernel, Inductive, PTL

-----------------------------------------------------------------------------
(* The inductive invariant *)

Gone == {"freed", "failing", "done"}
Asked == {"admitted", "queued", "granted", "cancelled", "preparing", "live", "recorded", "threw"}

\* Where the caller is: an awaited run is still to be settled, and a caller
\* that waits or gave up is known as such.
CallerAt(q) ==
    /\ q \in awaitedRuns => /\ phase[q] \in Asked
                            /\ waiter[q] \in {"returning", "waiting", "gaveup"}
    /\ q \in awaitedRuns /\ waiter[q] = "gaveup" <=> q \in delegationAbandoned
    /\ waiter[q] = "waiting" => q \in awaitedRuns
    /\ waiter[q] = "returning" => q \in awaitedRuns \/ delegationSettled[q].ready
    /\ waiter[q] = "answered" => phase[q] \in Gone
    /\ ~up => waiter[q] \in {"none", "lost"}

\* When a stash exists and what it says: from the record to the hand-over,
\* and beyond only for a caller about to take it.
StashAt(q) ==
    /\ delegationSettled[q].ready => waiter[q] = "returning" /\ phase[q] \in Gone
    /\ delegationSettled[q] # NoStash /\ ~delegationSettled[q].ready
         => q \in awaitedRuns /\ phase[q] = "recorded"
    /\ q \in awaitedRuns /\ phase[q] = "recorded"
         => delegationSettled[q] # NoStash /\ delegationSettled[q].status = runStatus[q]

Matches(q, status) == status = runStatus[q] \/ runStatus[q] = "failed"

\* What was handed over, or is ready to be, against the row.
AnswerAt(q) ==
    phase[q] \in {"freed", "done"} =>
        /\ delegationSettled[q].ready => Matches(q, delegationSettled[q].status)
        /\ waiter[q] = "answered" => Matches(q, delivered[q])

WaitAt(q) == CallerAt(q) /\ StashAt(q) /\ AnswerAt(q)

WaitInv == \A q \in Runs : WaitAt(q)

-----------------------------------------------------------------------------
(* Steps of the kernel that leave the callers alone *)

Glide(q) ==
    /\ \/ phase'[q] = phase[q]
       \/ phase[q] = "new" /\ phase'[q] = "classifying"
       \/ phase[q] \in {"admitted", "granted"} /\ phase'[q] = "preparing"
       \/ phase[q] = "preparing" /\ phase'[q] \in {"live", "threw"}
       \/ phase[q] = "queued" /\ phase'[q] \in {"granted", "cancelled"}
       \/ phase[q] \in {"freed", "failing"} /\ phase'[q] = "done"
    /\ up => up'
    /\ up /\ phase'[q] \in {"recorded", "freed", "done"} =>
         \/ phase[q] # "failing" /\ runStatus'[q] = runStatus[q]
         \/ phase'[q] = "done" /\ runStatus'[q] = "failed"

LEMMA UntouchedGlides ==
    ASSUME IInv, Untouched, NEW q \in Runs PROVE Glide(q)
<1> USE DEF IInv, QueueInv, MemoryInv, RowsTypeOK, InFlight, Holding, Glide, rows, process
<1>1. ASSUME NEW r \in Runs, NEW s \in Sessions, Submit(r, s) PROVE Glide(q)
  BY <1>1 DEF Submit
<1>2. ASSUME NEW r \in Runs, Start(r) PROVE Glide(q)
  BY <1>2 DEF Start
<1>3. ASSUME NEW r \in Runs, GoLive(r) PROVE Glide(q)
  BY <1>3 DEF GoLive
<1>4. ASSUME NEW r \in Runs, PrepareThrows(r) PROVE Glide(q)
  BY <1>4 DEF PrepareThrows
<1>5. ASSUME NEW r \in Runs, Release(r) PROVE Glide(q)
  <2>1. /\ phase'[r] = "done"
        /\ \A p \in Runs \ {r} : phase'[p] = phase[p] \/ (phase[p] = "queued" /\ phase'[p] = "granted")
    BY <1>5, ReleaseSlotFacts DEF Release
  <2> QED
    BY <1>5, <2>1 DEF Release
<1>6. ASSUME NEW r \in Runs, FailAndRelease(r) PROVE Glide(q)
  <2>1. /\ phase'[r] = "done"
        /\ \A p \in Runs \ {r} : phase'[p] = phase[p] \/ (phase[p] = "queued" /\ phase'[p] = "granted")
    BY <1>6, ReleaseSlotFacts DEF FailAndRelease
  <2>2. \A p \in Runs : runStatus'[p] = IF p = r THEN "failed" ELSE runStatus[p]
    BY <1>6 DEF FailAndRelease
  <2>3. phase[r] = "failing" /\ \A p \in Runs : phase[p] = "failing" /\ p # r => phase'[p] = "failing"
    BY <1>6, <2>1 DEF FailAndRelease
  <2> QED
    BY <1>6, <2>1, <2>2, <2>3 DEF FailAndRelease
<1>7. ASSUME NEW r \in Runs, InterruptActive(r) \/ GraceExpires(r) \/ CeilingStops(r) PROVE Glide(q)
  BY <1>7 DEF InterruptActive, GraceExpires, CeilingStops
<1>8. ASSUME NEW r \in Runs, InterruptQueued(r) PROVE Glide(q)
  <2>1. phase[r] = "queued" /\ phase' = [phase EXCEPT ![r] = "cancelled"]
    BY <1>8, InRange DEF InterruptQueued, QueuedRuns
  <2> QED
    BY <1>8, <2>1 DEF InterruptQueued
<1>9. ASSUME NEW s \in Sessions, RewindBegin(s) \/ RewindEnd(s) PROVE Glide(q)
  BY <1>9 DEF RewindBegin, RewindEnd
<1>10. ASSUME NEW n \in 1..MaxSlots, SetSlots(n) PROVE Glide(q)
  BY <1>10 DEF SetSlots
<1>11. ASSUME Shutdown PROVE Glide(q)
  <2>1. \A r \in Runs : phase'[r] = IF phase[r] = "queued" THEN "cancelled" ELSE phase[r]
    BY <1>11 DEF Shutdown
  <2> QED
    BY <1>11, <2>1 DEF Shutdown
<1>12. ASSUME Boot PROVE Glide(q)
  BY <1>12 DEF Boot
<1> QED
  BY <1>1, <1>2, <1>3, <1>4, <1>5, <1>6, <1>7, <1>8, <1>9, <1>10, <1>11, <1>12
     DEF Untouched, Operator

-----------------------------------------------------------------------------
(* Every step keeps it *)

LEMMA DInitInv == DInit => DTypeOK /\ WaitInv
  BY DEF DInit, Init, DTypeOK, Blocked, Unfinished, Terminal, NoStash, WaitInv, WaitAt, CallerAt,
         StashAt, AnswerAt, Asked, Gone

LEMMA UntouchedKeeps ==
    ASSUME IInv, WaitInv, Untouched, NEW q \in Runs PROVE WaitAt(q)'
<1>1. Glide(q)
  BY UntouchedGlides
<1>2. UNCHANGED <<asker, waiter, delivered, awaitedRuns, delegationSettled, delegationAbandoned>>
  BY DEF Untouched, dvars, stashes
<1>3. CallerAt(q) /\ StashAt(q) /\ AnswerAt(q)
  BY DEF WaitInv, WaitAt
<1>4. CallerAt(q)'
  BY <1>1, <1>2, <1>3 DEF CallerAt, Glide, Asked, Gone
<1>5. StashAt(q)'
  <2>1. q \in awaitedRuns => up
    BY <1>3 DEF CallerAt
  <2>2. phase[q] \in Gone => phase'[q] \in Gone
    BY <1>1 DEF Glide, Gone
  <2>3. phase[q] = "recorded" <=> phase'[q] = "recorded"
    BY <1>1 DEF Glide
  <2>4. up /\ phase[q] = "recorded" => runStatus'[q] = runStatus[q]
    BY <1>1, <2>3 DEF Glide
  <2> QED
    BY <1>2, <1>3, <2>1, <2>2, <2>3, <2>4 DEF StashAt
<1>6. AnswerAt(q)'
  <2> SUFFICES ASSUME phase'[q] \in {"freed", "done"},
                      delegationSettled[q].ready \/ waiter[q] = "answered"
               PROVE  \/ phase[q] \in {"freed", "done"} /\ runStatus'[q] = runStatus[q]
                      \/ runStatus'[q] = "failed"
    BY <1>2, <1>3 DEF AnswerAt, Matches
  <2>1. phase[q] \in Gone /\ up
    BY <1>3 DEF CallerAt, StashAt
  <2> QED
    BY <1>1, <2>1 DEF Glide, Gone
<1> QED
  BY <1>4, <1>5, <1>6 DEF WaitAt

\* A run no part of whose delegation changed.
Same(q) ==
    /\ phase'[q] = phase[q] /\ runStatus'[q] = runStatus[q]
    /\ waiter'[q] = waiter[q] /\ delivered'[q] = delivered[q]
    /\ delegationSettled'[q] = delegationSettled[q]
    /\ q \in awaitedRuns' <=> q \in awaitedRuns
    /\ q \in delegationAbandoned' <=> q \in delegationAbandoned
    /\ up' = up

LEMMA SameKeeps ==
    ASSUME WaitInv, NEW q \in Runs, Same(q) PROVE WaitAt(q)'
  BY DEF WaitInv, WaitAt, CallerAt, StashAt, AnswerAt, Matches, Same

\* Settling an awaited run whose stash, if there is one, is its row.
LEMMA SettleKeeps ==
    ASSUME DTypeOK, NEW r \in Runs, WaitAt(r), r \in awaitedRuns, Settle(r), up' = up,
           \/ phase[r] = "recorded" /\ phase'[r] = "freed" /\ runStatus'[r] = runStatus[r]
           \/ phase[r] = "threw" /\ phase'[r] = "failing"
           \/ phase[r] = "cancelled" /\ phase'[r] = "done"
    PROVE  WaitAt(r)'
<1> DEFINE status == IF delegationSettled[r] = NoStash
                     THEN runStatus'[r] ELSE delegationSettled[r].status
<1> USE DEF DTypeOK
<1>1. CallerAt(r) /\ StashAt(r)
  BY DEF WaitAt
<1>2. r \notin awaitedRuns' /\ phase'[r] \in Gone
  BY DEF Settle, Gone
<1>3. phase'[r] \in {"freed", "done"} => status = runStatus'[r]
  BY <1>1 DEF StashAt, Gone
<1>4. ~NoStash.ready
  BY DEF NoStash
<1>5. CASE r \in delegationAbandoned
  <2>1. /\ r \notin delegationAbandoned'
        /\ waiter'[r] = "gaveup"
        /\ delegationSettled'[r] = NoStash
    BY <1>1, <1>5 DEF Settle, CallerAt
  <2> QED
    BY <1>1, <1>2, <1>4, <2>1 DEF WaitAt, CallerAt, StashAt, AnswerAt, Matches, Asked, Gone
<1>6. CASE r \notin delegationAbandoned /\ waiter[r] = "waiting"
  <2>1. /\ r \notin delegationAbandoned'
        /\ waiter'[r] = "answered" /\ delivered'[r] = status
        /\ delegationSettled'[r] = NoStash
    BY <1>6 DEF Settle
  <2> QED
    BY <1>1, <1>2, <1>3, <1>4, <2>1 DEF WaitAt, CallerAt, StashAt, AnswerAt, Matches, Asked, Gone
<1>7. CASE r \notin delegationAbandoned /\ waiter[r] # "waiting"
  <2>1. /\ r \notin delegationAbandoned'
        /\ waiter[r] = "returning" /\ waiter'[r] = "returning"
        /\ delegationSettled'[r] = Stash(status, TRUE)
    BY <1>1, <1>7 DEF Settle, CallerAt
  <2>2. Stash(status, TRUE).ready /\ Stash(status, TRUE).status = status
    BY DEF Stash
  <2> QED
    BY <1>1, <1>2, <1>3, <2>1, <2>2 DEF WaitAt, CallerAt, StashAt, AnswerAt, Matches, Asked, Gone
<1> QED
  BY <1>5, <1>6, <1>7

LEMMA WaitStep ==
    IInv /\ DTypeOK /\ WaitInv /\ [DNext]_allVars => WaitInv'
<1> SUFFICES ASSUME IInv, DTypeOK, WaitInv, [DNext]_allVars, NEW q \in Runs PROVE WaitAt(q)'
  BY DEF WaitInv
<1> USE DEF DTypeOK, IInv, RowsTypeOK, QueueInv, rows, process, stashes, dvars, Same
<1>0. CallerAt(q) /\ StashAt(q) /\ AnswerAt(q)
  BY DEF WaitInv, WaitAt
<1>1. ASSUME NEW who \in Runs \cup {Outside}, NEW r \in Runs, NEW s \in Sessions, Ask(who, r, s)
      PROVE  WaitAt(q)'
  <2>1. q # r => Same(q)
    BY <1>1 DEF Ask, Submit
  <2>2. CASE q = r
    BY <1>0, <1>1, <2>2 DEF Ask, Submit, WaitAt, CallerAt, StashAt, AnswerAt, Matches, Asked, Gone,
       NoStash, Stash
  <2> QED
    BY <2>1, <2>2, SameKeeps
<1>2. ASSUME NEW r \in Runs, Admitted(r)
      PROVE  WaitAt(q)'
  <2>1. q # r => Same(q)
    BY <1>2 DEF Admitted, Admit, MemoryInv, InFlight
  <2>2. CASE q = r
    BY <1>0, <1>2, <2>2 DEF Admitted, Admit, MemoryInv, InFlight, WaitAt, CallerAt, StashAt,
       AnswerAt, Matches, Asked, Gone,
       NoStash, Stash
  <2> QED
    BY <2>1, <2>2, SameKeeps
<1>3. ASSUME NEW r \in Runs, Refused(r)
      PROVE  WaitAt(q)'
  <2>1. q # r => Same(q)
    BY <1>3 DEF Refused, RejectAdmission, MemoryInv, InFlight
  <2>2. CASE q = r
    BY <1>0, <1>3, <2>2 DEF Refused, RejectAdmission, MemoryInv, InFlight, WaitAt, CallerAt,
       StashAt, AnswerAt, Matches, Asked, Gone,
       NoStash, Stash
  <2> QED
    BY <2>1, <2>2, SameKeeps
<1>4. ASSUME NEW r \in Runs, Register(r)
      PROVE  WaitAt(q)'
  <2>1. q # r => Same(q)
    BY <1>4 DEF Register, kernel, vars
  <2>2. CASE q = r
    <3>1. /\ waiter[r] = "returning"
          /\ phase'[r] = phase[r] /\ runStatus'[r] = runStatus[r] /\ up' = up
          /\ r \in awaitedRuns' <=> r \in awaitedRuns
          /\ r \in delegationAbandoned' <=> r \in delegationAbandoned
      BY <1>4 DEF Register, kernel, vars
    <3>2. CASE delegationSettled[r].ready
      <4>1. /\ waiter'[r] = "answered"
            /\ delivered'[r] = delegationSettled[r].status
            /\ delegationSettled'[r] = NoStash
        BY <1>4, <3>2 DEF Register
      <4>2. ~NoStash.ready
        BY DEF NoStash
      <4> QED
        BY <1>0, <2>2, <3>1, <3>2, <4>1, <4>2 DEF WaitAt, CallerAt, StashAt, AnswerAt, Matches,
           Asked, Gone
    <3>3. CASE ~delegationSettled[r].ready
      <4>1. /\ waiter'[r] = "waiting"
            /\ delivered'[r] = delivered[r]
            /\ delegationSettled'[r] = delegationSettled[r]
        BY <1>4, <3>3 DEF Register
      <4> QED
        BY <1>0, <2>2, <3>1, <3>3, <4>1 DEF WaitAt, CallerAt, StashAt, AnswerAt, Matches, Asked, Gone
    <3> QED
      BY <3>2, <3>3
  <2> QED
    BY <2>1, <2>2, SameKeeps
<1>5. ASSUME NEW r \in Runs, TimesOut(r)
      PROVE  WaitAt(q)'
  <2>1. q # r => Same(q)
    BY <1>5 DEF TimesOut, kernel, vars
  <2>2. CASE q = r
    BY <1>0, <1>5, <2>2 DEF TimesOut, kernel, vars, WaitAt, CallerAt, StashAt, AnswerAt, Matches,
       Asked, Gone,
       NoStash, Stash
  <2> QED
    BY <2>1, <2>2, SameKeeps
<1>6. ASSUME NEW r \in Runs, Recorded(r)
      PROVE  WaitAt(q)'
  <2>1. q # r => Same(q)
    BY <1>6 DEF Recorded, RecordOutcome
  <2>2. CASE q = r
    <3>1. /\ phase[r] = "live" /\ phase'[r] = "recorded" /\ up' = up
          /\ waiter'[r] = waiter[r] /\ delivered'[r] = delivered[r]
          /\ r \in awaitedRuns' <=> r \in awaitedRuns
          /\ r \in delegationAbandoned' <=> r \in delegationAbandoned
          /\ delegationSettled'[r] =
                IF r \in awaitedRuns THEN Stash(runStatus'[r], FALSE) ELSE delegationSettled[r]
      BY <1>6 DEF Recorded, RecordOutcome
    <3>2. /\ Stash(runStatus'[r], FALSE) # NoStash
          /\ Stash(runStatus'[r], FALSE).status = runStatus'[r]
          /\ ~Stash(runStatus'[r], FALSE).ready
      <4>1. runStatus'[r] \in Terminal
        BY <1>6 DEF Recorded, RecordOutcome, Outcomes
      <4> QED
        BY <4>1 DEF Stash, NoStash, Terminal
    <3>3. delegationSettled[r].ready \in BOOLEAN
      OBVIOUS
    <3> QED
      BY <1>0, <2>2, <3>1, <3>2, <3>3 DEF WaitAt, CallerAt, StashAt, AnswerAt, Matches, Asked, Gone
  <2> QED
    BY <2>1, <2>2, SameKeeps
<1>7. ASSUME NEW r \in Runs, RecordFails(r)
      PROVE  WaitAt(q)'
  <2>1. q # r => Same(q)
    BY <1>7 DEF RecordFails, RecordThrows
  <2>2. CASE q = r
    BY <1>0, <1>7, <2>2 DEF RecordFails, RecordThrows, WaitAt, CallerAt, StashAt, AnswerAt,
       Matches, Asked, Gone,
       NoStash, Stash
  <2> QED
    BY <2>1, <2>2, SameKeeps
<1>8. ASSUME NEW r \in Runs, Left(r)
      PROVE  WaitAt(q)'
  <2>1. q # r => Same(q)
    BY <1>8 DEF Left, LeaveActive, Settled, Settle
  <2>2. CASE q = r
    <3>1. /\ phase[r] \in {"recorded", "threw"} /\ up' = up
          /\ phase'[r] = IF phase[r] = "recorded" THEN "freed" ELSE "failing"
          /\ runStatus'[r] = runStatus[r]
      BY <1>8 DEF Left, LeaveActive
    <3>2. CASE r \notin awaitedRuns
      <4>1. /\ waiter'[r] = waiter[r] /\ delivered'[r] = delivered[r]
            /\ delegationSettled'[r] = delegationSettled[r]
            /\ r \notin awaitedRuns'
            /\ r \in delegationAbandoned' <=> r \in delegationAbandoned
        BY <1>8, <3>2 DEF Left, Settled
      <4> QED
        BY <1>0, <2>2, <3>1, <3>2, <4>1 DEF WaitAt, CallerAt, StashAt, AnswerAt, Matches, Asked, Gone
    <3>3. CASE r \in awaitedRuns
      <4>1. Settle(r)
        BY <1>8, <3>3 DEF Left, Settled
      <4>2. WaitAt(r)
        BY DEF WaitInv
      <4>3. WaitAt(r)'
        BY <3>1, <3>3, <4>1, <4>2, SettleKeeps
      <4> QED
        BY <2>2, <4>3 DEF WaitAt, CallerAt, StashAt, AnswerAt
    <3> QED
      BY <3>2, <3>3
  <2> QED
    BY <2>1, <2>2, SameKeeps
<1>9. ASSUME NEW r \in Runs, CancelledInQueue(r)
      PROVE  WaitAt(q)'
  <2>1. q # r => Same(q)
    BY <1>9 DEF CancelledInQueue, Cancelled, Settled, Settle
  <2>2. CASE q = r
    <3>1. /\ phase[r] = "cancelled" /\ phase'[r] = "done" /\ up' = up
      BY <1>9 DEF CancelledInQueue, Cancelled
    <3>2. CASE r \notin awaitedRuns
      <4>1. /\ waiter'[r] = waiter[r] /\ delivered'[r] = delivered[r]
            /\ delegationSettled'[r] = delegationSettled[r]
            /\ r \notin awaitedRuns'
            /\ r \in delegationAbandoned' <=> r \in delegationAbandoned
        BY <1>9, <3>2 DEF CancelledInQueue, Settled
      <4> QED
        BY <1>0, <2>2, <3>1, <3>2, <4>1 DEF WaitAt, CallerAt, StashAt, AnswerAt, Matches, Asked, Gone
    <3>3. CASE r \in awaitedRuns
      <4>1. Settle(r)
        BY <1>9, <3>3 DEF CancelledInQueue, Settled
      <4>2. WaitAt(r)
        BY DEF WaitInv
      <4>3. WaitAt(r)'
        BY <3>1, <3>3, <4>1, <4>2, SettleKeeps
      <4> QED
        BY <2>2, <4>3 DEF WaitAt, CallerAt, StashAt, AnswerAt
    <3> QED
      BY <3>2, <3>3
  <2> QED
    BY <2>1, <2>2, SameKeeps
<1>10. ASSUME Untouched PROVE WaitAt(q)'
  BY <1>10, UntouchedKeeps
<1>11. ASSUME Died PROVE WaitAt(q)'
  BY <1>0, <1>11 DEF Died, Crash, WaitAt, CallerAt, StashAt, AnswerAt, Asked, Gone, NoStash
<1>12. ASSUME UNCHANGED allVars PROVE WaitAt(q)'
  BY <1>12, SameKeeps DEF allVars, vars
<1> QED
  BY <1>1, <1>2, <1>3, <1>4, <1>5, <1>6, <1>7, <1>8, <1>9, <1>10, <1>11, <1>12 DEF DNext

LEMMA DTypeStep ==
    RowsTypeOK' /\ DTypeOK /\ [DNext]_allVars => DTypeOK'
<1> SUFFICES ASSUME RowsTypeOK', DTypeOK, [DNext]_allVars PROVE DTypeOK'
  OBVIOUS
<1> DEFINE Status == {"absent"} \cup Unfinished \cup Terminal
<1> USE DEF DTypeOK, Blocked, dvars, stashes
<1>0. /\ NoStash \in [status : Status, ready : BOOLEAN]
      /\ \A st \in Status, b \in BOOLEAN : Stash(st, b) \in [status : Status, ready : BOOLEAN]
      /\ \A r \in Runs : delegationSettled[r].status \in Status /\ runStatus'[r] \in Status
  BY DEF NoStash, Stash, RowsTypeOK
<1>1. ASSUME NEW who \in Runs \cup {Outside}, NEW r \in Runs, NEW s \in Sessions, Ask(who, r, s)
      PROVE  DTypeOK'
  BY <1>1 DEF Ask
<1>2. ASSUME NEW r \in Runs, Admitted(r) PROVE DTypeOK'
  BY <1>2 DEF Admitted
<1>3. ASSUME NEW r \in Runs, Refused(r) PROVE DTypeOK'
  BY <1>3 DEF Refused
<1>4. ASSUME NEW r \in Runs, Register(r) PROVE DTypeOK'
  <2>1. delivered' \in [Runs -> Status]
    BY <1>0, <1>4 DEF Register
  <2>2. delegationSettled' \in [Runs -> [status : Status, ready : BOOLEAN]]
    BY <1>0, <1>4 DEF Register
  <2> QED
    BY <1>4, <2>1, <2>2 DEF Register
<1>5. ASSUME NEW r \in Runs, TimesOut(r) PROVE DTypeOK'
  BY <1>5 DEF TimesOut
<1>6. ASSUME NEW r \in Runs, Recorded(r) PROVE DTypeOK'
  BY <1>6 DEF Recorded, Stash, RowsTypeOK
<1>7. ASSUME NEW r \in Runs, RecordFails(r) PROVE DTypeOK'
  BY <1>7 DEF RecordFails
<1>8. ASSUME NEW r \in Runs, Left(r) \/ CancelledInQueue(r) PROVE DTypeOK'
  <2>2. CASE r \notin awaitedRuns
    BY <1>8, <2>2 DEF Left, CancelledInQueue, Settled
  <2>3. CASE r \in awaitedRuns
    <3>1. Settle(r)
      BY <1>8, <2>3 DEF Left, CancelledInQueue, Settled
    <3>2. delivered' \in [Runs -> Status]
      BY <1>0, <3>1 DEF Settle
    <3>3. delegationSettled' \in [Runs -> [status : Status, ready : BOOLEAN]]
      <4> DEFINE st == IF delegationSettled[r] = NoStash
                       THEN runStatus'[r] ELSE delegationSettled[r].status
      <4>1. Stash(st, TRUE) \in [status : Status, ready : BOOLEAN]
        <5>1. st \in Status /\ TRUE \in BOOLEAN
          BY <1>0
        <5> HIDE DEF st
        <5> QED
          BY <1>0, <5>1
      <4>2. \/ delegationSettled' = delegationSettled
            \/ delegationSettled' = [delegationSettled EXCEPT ![r] = NoStash]
            \/ delegationSettled' = [delegationSettled EXCEPT ![r] = Stash(st, TRUE)]
        BY <3>1, Zenon DEF Settle
      <4> QED
        BY <1>0, <4>1, <4>2
    <3> QED
      BY <3>1, <3>2, <3>3 DEF Settle
  <2> QED
    BY <2>2, <2>3
<1>9. ASSUME Untouched PROVE DTypeOK'
  BY <1>9 DEF Untouched
<1>10. ASSUME Died PROVE DTypeOK'
  BY <1>10 DEF Died, NoStash
<1>11. ASSUME UNCHANGED allVars PROVE DTypeOK'
  BY <1>11 DEF allVars
<1> QED
  BY <1>1, <1>2, <1>3, <1>4, <1>5, <1>6, <1>7, <1>8, <1>9, <1>10, <1>11 DEF DNext

LEMMA DInductive == DSpec => [](IInv /\ DTypeOK /\ WaitInv)
<1>1. IInv' => RowsTypeOK'
  BY DEF IInv
<1>2. IInv /\ IInv' /\ DTypeOK /\ WaitInv /\ [DNext]_allVars => (DTypeOK /\ WaitInv)'
  BY <1>1, WaitStep, DTypeStep
<1> QED
  BY <1>2, DInitInv, KernelHolds, PTL DEF DSpec

-----------------------------------------------------------------------------
(* What it gives *)

\* The callers and the three maps are well typed in every reachable state.
THEOREM DTypeCorrect == DSpec => []DTypeOK
  BY DInductive, PTL

\* However callers come, time out and die, and runs are cancelled, throw and
\* end, no entry of the three maps outlives both its run and its caller.
THEOREM NothingLeftBehind == DSpec => []NothingIsKept
<1>1. WaitInv => NothingIsKept
  <2> SUFFICES ASSUME WaitInv, NEW q \in Runs,
                      \/ q \in awaitedRuns \cup delegationAbandoned
                      \/ delegationSettled[q] # NoStash
               PROVE  phase[q] \in InFlight \/ waiter[q] = "returning"
    BY DEF NothingIsKept
  <2> QED
    BY DEF WaitInv, WaitAt, CallerAt, StashAt, Asked, InFlight, Holding
<1> QED
  BY <1>1, DInductive, PTL

\* A caller is answered only once the run it asked for has left `active`.
THEOREM AnswerComesAfterLeaving == DSpec => []AnsweredAfterLeaving
<1>1. IInv /\ WaitInv => AnsweredAfterLeaving
  BY DEF IInv, MemoryInv, Executing, WaitInv, WaitAt, CallerAt, Gone, AnsweredAfterLeaving
<1> QED
  BY <1>1, DInductive, PTL

\* What the caller is told is the outcome on the row, or the row is a failure.
THEOREM AnswersMatchRows == DSpec => []AnswerMatchesRow
<1>1. WaitInv => AnswerMatchesRow
  BY DEF WaitInv, WaitAt, AnswerAt, Matches, AnswerMatchesRow
<1> QED
  BY <1>1, DInductive, PTL
=============================================================================
