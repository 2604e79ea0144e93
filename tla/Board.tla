-------------------------------- MODULE Board --------------------------------
(***************************************************************************)
(* The board of one workspace and the autopilot that works its cards,      *)
(* apps/api/src/services/board*.ts.  workNext reads the board, may await   *)
(* the quota probe, then awaits kernel.submit in startTaskRun, which       *)
(* writes the card from what it read before that await.  The chain after a *)
(* run, the sweep, a delegated review and the two buttons all go through   *)
(* it.                                                                     *)
(*                                                                         *)
(* Abstracted: the order of a column (BoardOrder) to a choice of the next  *)
(* card; the session pickSession takes, with the kernel's refusals (the    *)
(* session is busy, the prompt is refused) to a choice.  Names of runs     *)
(* nothing refers to are used again.                                       *)
(***************************************************************************)
EXTENDS Naturals, FiniteSets

CONSTANTS Cards, Runs, Callers,
          MaxTouches,     \* bound: cards sent, and writes by people and agents
          None

VARIABLES
    card,       \* the row of each card, status "none" if there is none
    runState,   \* "lost": ended without onRunFinished
    caller,     \* what each flow through workNext or startTaskRun awaits
    autoWork,   \* settings.autoWorkBoard
    touched,    \* cards written by hand since a run was linked
    touches

vars == <<card, runState, caller, autoWork, touched, touches>>

Columns == {"todo", "in_progress", "review", "done"}
Card == [status : Columns \cup {"none"}, assignee : {None, "user", "agent"},
         blocked : BOOLEAN, archived : BOOLEAN, run : Runs \cup {None}]
\* by: the card's own button, or workNext.
Flow == [card : Cards, at : {"probe", "submit"}, by : {"send", "work"},
         status : Columns, blocked : BOOLEAN]

ASSUME BoundAssumption == MaxTouches \in Nat
ASSUME NoneOutside == None \notin Runs \cup Flow

NoCard == [status |-> "none", assignee |-> None, blocked |-> FALSE, archived |-> FALSE, run |-> None]

OnBoard(row) == row.status # "none" /\ ~row.archived
IsLive(r, states) == r # None /\ states[r] = "live"

InUse(r) == runState[r] = "live" \/ \E c \in Cards : card[c].run = r

-----------------------------------------------------------------------------
(* workNext and startTaskRun up to their first await.  Both read the board *)
(* the step leaves behind (card', runState').                              *)

\* startTaskRun to kernel.submit: what the flow awaits next.
Starting(c, by) ==
    IF ~OnBoard(card'[c]) \/ IsLive(card'[c].run, runState')
      THEN None
      ELSE [card |-> c, at |-> "submit", by |-> by, status |-> card'[c].status,
            blocked |-> card'[c].blocked]

Busy_OnEndedRuns == \E c \in Cards : OnBoard(card'[c]) /\ card'[c].run # None

Busy == \E c \in Cards : OnBoard(card'[c]) /\ IsLive(card'[c].run, runState')

DelegatedReview == {c \in Cards : /\ OnBoard(card'[c]) /\ card'[c].status = "review"
                                  /\ card'[c].assignee = "agent" /\ ~card'[c].blocked}

NextCard == {c \in Cards : OnBoard(card'[c]) /\ card'[c].status = "todo" /\ ~card'[c].blocked}

Awaited(manual) ==
    IF Busy THEN {None}
    ELSE IF DelegatedReview # {} THEN {Starting(c, "work") : c \in DelegatedReview}
    ELSE IF NextCard = {} \/ (~manual /\ ~autoWork) THEN {None}
    ELSE IF manual THEN {Starting(c, "work") : c \in NextCard}
    ELSE {[card |-> c, at |-> "probe", by |-> "work", status |-> "todo", blocked |-> FALSE] : c \in NextCard}

WorkNext(p, manual) ==
    /\ caller[p] = None
    /\ \E w \in Awaited(manual) : caller' = [caller EXCEPT ![p] = w]

-----------------------------------------------------------------------------
Init ==
    /\ card = [c \in Cards |-> NoCard]
    /\ runState = [r \in Runs |-> "ended"]
    /\ caller = [p \in Callers |-> None]
    /\ autoWork \in BOOLEAN
    /\ touched = {}
    /\ touches = 0

\* The sweep, or the "Work the board" button.
Work(p, manual) ==
    /\ UNCHANGED <<card, runState, autoWork, touched, touches>>
    /\ WorkNext(p, manual)

\* "Send to the agent" on a card.
Send(p, c) ==
    /\ UNCHANGED <<card, runState, autoWork, touched>>
    /\ caller[p] = None
    /\ touches < MaxTouches
    /\ touches' = touches + 1
    /\ caller' = [caller EXCEPT ![p] = Starting(c, "send")]

\* The probe answers: above the guard, or unknowable or below.
Probed(p, pass) ==
    /\ UNCHANGED <<card, runState, autoWork, touched, touches>>
    /\ caller[p] # None /\ caller[p].at = "probe"
    /\ caller' = [caller EXCEPT ![p] = IF pass THEN Starting(@.card, "work") ELSE None]

\* linkRun throws on a deleted card, move on an archived one.
Worked(row, w, r) ==
    IF row.status = "none" THEN row
    ELSE LET linked == [row EXCEPT !.run = r]
         IN  IF w.status # "in_progress"
               THEN IF row.archived THEN linked
                    ELSE [linked EXCEPT !.status = "in_progress", !.blocked = FALSE, !.assignee = "agent"]
               ELSE [linked EXCEPT !.blocked = IF w.blocked THEN FALSE ELSE @, !.assignee = "agent"]

\* The kernel admits the run.  The assignment may delegate the card again,
\* which finds the board busy with this very run.
Submitted(p) ==
    /\ caller[p] # None /\ caller[p].at = "submit"
    /\ \E r \in Runs : ~InUse(r)
    /\ LET w == caller[p]
           r == CHOOSE x \in Runs : ~InUse(x)
       IN  /\ card' = [card EXCEPT ![w.card] = Worked(@, w, r)]
           /\ runState' = [runState EXCEPT ![r] = "live"]
           /\ touched' = touched \ {w.card}
    /\ caller' = [caller EXCEPT ![p] = None]
    /\ UNCHANGED <<autoWork, touches>>

Refused(p) ==
    /\ caller[p] # None /\ caller[p].at = "submit"
    /\ caller' = [caller EXCEPT ![p] = None]
    /\ UNCHANGED <<card, runState, autoWork, touched, touches>>

-----------------------------------------------------------------------------
(* A run ends *)

Outcome_CommentOnly(row, status) ==
    IF status = "succeeded" THEN [row EXCEPT !.status = "review", !.blocked = FALSE, !.assignee = "user"]
    ELSE row

\* applyRunOutcome, on a card still in progress.
Outcome(row, status) ==
    IF status = "succeeded" THEN [row EXCEPT !.status = "review", !.blocked = FALSE, !.assignee = "user"]
    ELSE [row EXCEPT !.blocked = TRUE]

\* onRunFinished: the card of the run, then the chain.
RunFinishes(p, r, status) ==
    /\ runState[r] = "live"
    /\ runState' = [runState EXCEPT ![r] = "ended"]
    /\ card' = [c \in Cards |-> IF card[c].run = r /\ OnBoard(card[c]) /\ card[c].status = "in_progress"
                                THEN Outcome(card[c], status) ELSE card[c]]
    /\ WorkNext(p, FALSE)
    /\ UNCHANGED <<autoWork, touched, touches>>

\* A run cancelled in the queue, failed by the kernel itself or deleted with
\* its session ends unheard.
RunIsLost(r) ==
    /\ runState[r] = "live"
    /\ runState' = [runState EXCEPT ![r] = "lost"]
    /\ UNCHANGED <<card, caller, autoWork, touched, touches>>

\* The process dies: the flows with it, and its runs are recovered unheard.
Crash ==
    /\ runState' = [r \in Runs |-> IF runState[r] = "live" THEN "lost" ELSE runState[r]]
    /\ caller' = [p \in Callers |-> None]
    /\ UNCHANGED <<card, autoWork, touched, touches>>

-----------------------------------------------------------------------------
(* Writes by people and by the agents' board tools *)

Touch(c, row) ==
    /\ touches < MaxTouches
    /\ touches' = touches + 1
    /\ card' = [card EXCEPT ![c] = row]
    /\ touched' = touched \cup {c}
    /\ UNCHANGED <<runState, autoWork>>

CreateCard(c, column, who) ==
    /\ card[c].status = "none"
    /\ Touch(c, [NoCard EXCEPT !.status = column, !.assignee = who])
    /\ UNCHANGED caller

\* What enters review is the operator's.
MoveCard(c, column) ==
    /\ OnBoard(card[c])
    /\ Touch(c, [card[c] EXCEPT !.status = column, !.blocked = FALSE,
                                !.assignee = IF column = "review" /\ card[c].status # "review"
                                             THEN "user" ELSE @])
    /\ UNCHANGED caller

BlockCard(c, blocked) ==
    /\ card[c].status # "none"
    /\ Touch(c, [card[c] EXCEPT !.blocked = blocked])
    /\ UNCHANGED caller

\* onReviewDelegated: a card in review newly assigned to the agent is worked.
Assign(p, c, who) ==
    /\ card[c].status # "none"
    /\ Touch(c, [card[c] EXCEPT !.assignee = who])
    /\ IF card[c].status = "review" /\ ~card[c].archived /\ who = "agent" /\ card[c].assignee # "agent"
         THEN WorkNext(p, FALSE)
         ELSE UNCHANGED caller

Shelve(c, archived) ==
    /\ card[c].status # "none" /\ card[c].archived # archived
    /\ Touch(c, [card[c] EXCEPT !.archived = archived])
    /\ UNCHANGED caller

DeleteCard(c) ==
    /\ card[c].archived
    /\ Touch(c, NoCard)
    /\ UNCHANGED caller

SetAutoWork ==
    /\ touches < MaxTouches
    /\ touches' = touches + 1
    /\ autoWork' = ~autoWork
    /\ UNCHANGED <<card, runState, caller, touched>>

Next ==
    \/ \E p \in Callers, b \in BOOLEAN : Work(p, b) \/ Probed(p, b)
    \/ \E p \in Callers, c \in Cards : Send(p, c)
    \/ \E p \in Callers : Submitted(p) \/ Refused(p)
    \/ \E p \in Callers, r \in Runs, status \in {"succeeded", "failed"} : RunFinishes(p, r, status)
    \/ \E r \in Runs : RunIsLost(r)
    \/ Crash
    \/ \E c \in Cards, column \in Columns : MoveCard(c, column)
    \/ \E c \in Cards, column \in Columns, who \in {None, "user", "agent"} : CreateCard(c, column, who)
    \/ \E c \in Cards, b \in BOOLEAN : BlockCard(c, b) \/ Shelve(c, b)
    \/ \E p \in Callers, c \in Cards, who \in {"user", "agent"} : Assign(p, c, who)
    \/ \E c \in Cards : DeleteCard(c)
    \/ SetAutoWork

Spec == Init /\ [][Next]_vars

-----------------------------------------------------------------------------
(* Properties *)

TypeOK ==
    /\ card \in [Cards -> Card]
    /\ runState \in [Runs -> {"live", "ended", "lost"}]
    /\ caller \in [Callers -> Flow \cup {None}]
    /\ autoWork \in BOOLEAN
    /\ touched \subseteq Cards
    /\ touches \in 0..MaxTouches

\* applyRunOutcome closes the loop: a card on the board that nobody wrote
\* since its run was linked is never left in progress and unblocked by a run
\* that finished, whichever of several flows linked it and whatever they had
\* read before their await.
WorkIsAccountedFor ==
    \A c \in Cards \ touched :
        OnBoard(card[c]) /\ card[c].status = "in_progress" /\ ~card[c].blocked
            => card[c].run # None /\ runState[card[c].run] \in {"live", "lost"}

\* The sweep recurs; the probe, the kernel and the runs answer, and do not
\* refuse for ever.
Fairness ==
    /\ \A p \in Callers :
         /\ WF_vars(Work(p, FALSE))
         /\ WF_vars(\E b \in BOOLEAN : Probed(p, b))
         /\ SF_vars(Probed(p, TRUE))
         /\ SF_vars(Submitted(p))
    /\ \A r \in Runs : WF_vars(RunIsLost(r) \/ \E p \in Callers, status \in {"succeeded", "failed"} :
                                                    RunFinishes(p, r, status))

FairSpec == Spec /\ Fairness

\* The sweep, "the safety net for stalls the chain cannot see": with the
\* opt-in on, an unblocked card leaves To do in the end, past refusals,
\* deferrals, lost runs, crashes and delegated reviews.
BoardDrains ==
    \A c \in Cards :
        (OnBoard(card[c]) /\ card[c].status = "todo" /\ ~card[c].blocked)
            ~> (~OnBoard(card[c]) \/ card[c].status # "todo" \/ card[c].blocked \/ ~autoWork)

\* board-autopilot.ts: "One card at a time per workspace."  workNext never
\* has a run admitted while another card is worked.
OneCardAtATime ==
    [][\A p \in Callers :
         /\ caller[p] # None /\ caller[p].by = "work" /\ caller'[p] = None
         /\ card'[caller[p].card].run # card[caller[p].card].run
         => ~\E c \in Cards : OnBoard(card[c]) /\ IsLive(card[c].run, runState)]_vars
=============================================================================
