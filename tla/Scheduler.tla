------------------------------ MODULE Scheduler ------------------------------
(***************************************************************************)
(* Automations, apps/api/src/services/scheduler.ts: prompts with a trigger *)
(* that submit runs unattended.  fire() reads an automation's row, awaits  *)
(* kernel.submit, and writes the row from what it read; a tick fires the   *)
(* due rows it listed one await at a time, and so does onRunFinished with  *)
(* the watchers of the run that ended.                                     *)
(*                                                                         *)
(* Abstracted: a trigger's instants to "later" and "due" (next_run_at in   *)
(* the future or reached), interval and cron to "timed", the event name    *)
(* and the filter of an event trigger to a choice of any of the automations*)
(* that listen.  Session rows no automation names are forgotten, so a      *)
(* session created by a firing may reuse such a name.  The kernel is seen  *)
(* through hasActiveRunForSession: flight[s] is the run in session s.      *)
(***************************************************************************)
EXTENDS Naturals, FiniteSets

CONSTANTS
    Autos,          \* automation ids, each created at most once
    Workspaces,
    Sessions,
    MaxFailures,    \* max_consecutive_failures; 0 never switches off
    Triggers,       \* the triggers an operator may write
    MaxEdits,       \* bound: operator writes after creation
    None

ASSUME NoneOutside == None \notin Workspaces \cup Sessions
ASSUME CallersApart == {"tick", "hand"} \cap Sessions = {}
ASSUME FailuresAssumption == MaxFailures \in Nat
ASSUME BoundAssumption == MaxEdits \in Nat

VARIABLES
    home,       \* workspace_id; None before creation and after deletion
    born,       \* ids already used
    trigger,
    continuous,
    enabled,
    due,        \* next_run_at: "never" is null
    session,    \* session_id
    failures,   \* consecutive_failures
    place,      \* the workspace of each session row, None if there is no row
    archived,   \* archived session rows
    flight,     \* the run in flight in each session, None if there is none
    todo,       \* firings a loop still has to make
    firing,     \* the firing a loop is awaiting in kernel.submit
    edits,
    up

definition == <<home, born, trigger, continuous>>
timing == <<enabled, due, failures>>
sessions == <<place, archived>>
loops == <<todo, firing>>
vars == <<definition, timing, session, sessions, flight, loops, edits, up>>

\* A tick, a pressed "Run now", and the watchers of the run that ended in a
\* session.
Callers == {"tick", "hand"} \cup Sessions

\* Only a watcher declares sources.
Trigger == {t \in [type : {"manual", "timed", "event", "watch"}, sources : SUBSET Autos] :
              t.type # "watch" => t.sources = {}}
ASSUME TriggersAssumption == Triggers \subseteq Trigger

Instant == {"never", "later", "due"}
Item == [auto : Autos, next : Instant]
Firing == [auto : Autos, session : Sessions, write : Instant, retry : Instant]
Run == [by : {"user", "automation", "loop"}, hand : BOOLEAN]

ASSUME NoneIsNoRecord == None \notin Run \cup Firing

Live == {a \in Autos : home[a] # None}
In(w) == {a \in Autos : home[a] = w}
Busy(c) == todo[c] # {} \/ firing[c] # None
\* Every loop is parked on a submission: timers and requests can run.
Quiet == \A c \in Callers : firing[c] # None \/ todo[c] = {}
Submitting(s) == \E c \in Callers : firing[c] # None /\ firing[c].session = s

-----------------------------------------------------------------------------
(* Triggers *)

\* computeNextRun: only time triggers have a next instant.
NextRun(t) == IF t.type = "timed" THEN "later" ELSE "never"

\* watchPath: following the sources from `from` leads to `target`, that is,
\* every set closed under `src` that holds `from` holds it.
Leads(src, from, target) ==
    \A reach \in SUBSET Autos :
        (from \subseteq reach /\ \A a \in reach : src[a] \subseteq reach) => target \in reach

SourcesIn(w) == [a \in Autos |-> IF home[a] = w THEN trigger[a].sources ELSE {}]

ValidTrigger_WithoutTheWalk(t, w, self) ==
    t.type = "watch" => /\ t.sources # {}
                        /\ self \notin t.sources
                        /\ t.sources \subseteq In(w)

\* validateTrigger.
ValidTrigger(t, w, self) ==
    t.type = "watch" => /\ t.sources # {}
                        /\ self \notin t.sources
                        /\ t.sources \subseteq In(w)
                        /\ ~Leads(SourcesIn(w), t.sources, self)

\* forgetSource: nobody watches `gone` any more; the list stays, even empty.
Forgetting(gone, triggers) == [a \in Autos |-> [triggers[a] EXCEPT !.sources = @ \ {gone}]]

-----------------------------------------------------------------------------
Init ==
    /\ home = [a \in Autos |-> None]
    /\ born = {}
    /\ trigger = [a \in Autos |-> [type |-> "manual", sources |-> {}]]
    /\ continuous = [a \in Autos |-> FALSE]
    /\ enabled = [a \in Autos |-> FALSE]
    /\ due = [a \in Autos |-> "never"]
    /\ session = [a \in Autos |-> None]
    /\ failures = [a \in Autos |-> 0]
    /\ place = [s \in Sessions |-> None]
    /\ archived = {}
    /\ flight = [s \in Sessions |-> None]
    /\ todo = [c \in Callers |-> {}]
    /\ firing = [c \in Callers |-> None]
    /\ edits = 0
    /\ up = TRUE

-----------------------------------------------------------------------------
(* The operator's writes *)

Insert(a, w, t, cont, on) ==
    /\ up /\ Quiet
    /\ a \notin born
    /\ born' = born \cup {a}
    /\ home' = [home EXCEPT ![a] = w]
    /\ trigger' = [trigger EXCEPT ![a] = t]
    /\ continuous' = [continuous EXCEPT ![a] = cont]
    /\ enabled' = [enabled EXCEPT ![a] = on]
    /\ due' = [due EXCEPT ![a] = IF on THEN NextRun(t) ELSE "never"]
    /\ UNCHANGED <<failures, sessions, flight, loops, edits, up>>

\* Created armed; a paused creation is this and an update.
Create(a, w, t, cont) ==
    /\ ValidTrigger(t, w, a)
    /\ Insert(a, w, t, cont, TRUE)
    /\ UNCHANGED session

Duplicate_WithSession(a, b, w) ==
    /\ a \in Live
    /\ home[a] # w
    /\ trigger[a].type # "watch"
    /\ Insert(b, w, trigger[a], continuous[a], FALSE)
    /\ session' = [session EXCEPT ![b] = session[a]]

\* A copy lands paused in another workspace, and a watcher is not copied.
Duplicate(a, b, w) ==
    /\ a \in Live
    /\ home[a] # w
    /\ trigger[a].type # "watch"
    /\ Insert(b, w, trigger[a], continuous[a], FALSE)
    /\ UNCHANGED session

Edit == up /\ Quiet /\ edits < MaxEdits /\ edits' = edits + 1

\* A PATCH that changes several of these is several of these in a row.
Write(a, w, t, cont, on) ==
    /\ home' = [home EXCEPT ![a] = w]
    /\ continuous' = [continuous EXCEPT ![a] = cont]
    /\ enabled' = [enabled EXCEPT ![a] = on]
    /\ due' = [due EXCEPT ![a] = IF on THEN NextRun(t) ELSE "never"]
    /\ UNCHANGED <<born, sessions, flight, loops, up>>

\* update() with another workspace: the thread ends, and in the same
\* transaction the watchers left behind forget the automation.
Move(a, w, t) ==
    /\ Edit
    /\ a \in Live /\ home[a] # w
    /\ ValidTrigger(t, w, a)
    /\ Write(a, w, t, continuous[a], enabled[a])
    /\ session' = [session EXCEPT ![a] = None]
    /\ trigger' = Forgetting(a, [trigger EXCEPT ![a] = t])
    /\ UNCHANGED failures

\* update() in place: another trigger, or the other mode.
Update(a, t, cont) ==
    /\ Edit
    /\ a \in Live
    /\ t # trigger[a] => ValidTrigger(t, home[a], a)
    /\ Write(a, home[a], t, cont, enabled[a])
    /\ trigger' = [trigger EXCEPT ![a] = t]
    /\ UNCHANGED <<session, failures>>

SetEnabled_KeepingStreak(a, on) ==
    /\ Edit
    /\ a \in Live /\ enabled[a] # on
    /\ Write(a, home[a], trigger[a], continuous[a], on)
    /\ UNCHANGED <<trigger, session, failures>>

\* update() of the pause: re-enabling clears the streak.
SetEnabled(a, on) ==
    /\ Edit
    /\ a \in Live /\ enabled[a] # on
    /\ Write(a, home[a], trigger[a], continuous[a], on)
    /\ failures' = [failures EXCEPT ![a] = IF on THEN 0 ELSE @]
    /\ UNCHANGED <<trigger, session>>

Removed(a) ==
    /\ home' = [home EXCEPT ![a] = None]
    /\ session' = [session EXCEPT ![a] = None]
    /\ enabled' = [enabled EXCEPT ![a] = FALSE]
    /\ due' = [due EXCEPT ![a] = "never"]
    /\ UNCHANGED <<born, continuous, failures, sessions, flight, loops, up>>

Delete(a) ==
    /\ Edit
    /\ a \in Live
    /\ Removed(a)
    /\ trigger' = Forgetting(a, [trigger EXCEPT ![a] = [type |-> "manual", sources |-> {}]])

\* PATCH and DELETE /api/sessions/:id; a deleted row leaves a null behind.
ArchiveSession(s) ==
    /\ Edit
    /\ place[s] # None
    /\ archived' = IF s \in archived THEN archived \ {s} ELSE archived \cup {s}
    /\ UNCHANGED <<definition, timing, session, place, flight, loops, up>>

DeleteSession(s) ==
    /\ Edit
    /\ place[s] # None
    /\ flight[s] = None
    /\ place' = [place EXCEPT ![s] = None]
    /\ archived' = archived \ {s}
    /\ session' = [a \in Autos |-> IF session[a] = s THEN None ELSE session[a]]
    /\ UNCHANGED <<definition, timing, flight, loops, up>>

-----------------------------------------------------------------------------
(* Firing *)

\* Moving the schedule on after a firing that did not happen: tick's catch,
\* with the trigger of the row as it was listed.
MoveOn(c, a, next) ==
    due' = IF c = "tick" /\ a \in Live THEN [due EXCEPT ![a] = next] ELSE due

\* resolveSession: a continuous automation goes on in its session, anything
\* else opens one.
Reusable(a) == continuous[a] /\ session[a] # None /\ session[a] \notin archived
Fresh == {s \in Sessions : flight[s] = None /\ ~Busy(s) /\ \A a \in Autos : session[a] # s}

StillInFlight(a) == session[a] # None /\ flight[session[a]] # None

\* fire() up to the submission's first await, which claims the session.
Fire(c, a, retry) ==
    /\ firing[c] = None
    /\ a \in Live /\ ~StillInFlight(a)
    /\ \E s \in IF Reusable(a) THEN {session[a]} ELSE Fresh :
         /\ place' = [place EXCEPT ![s] = IF Reusable(a) THEN @ ELSE home[a]]
         /\ archived' = archived \ {s}
         /\ flight' = [flight EXCEPT ![s] =
              [by |-> IF continuous[a] THEN "loop"
                      ELSE IF c = "hand" THEN "user" ELSE "automation",
               hand |-> c = "hand"]]
         /\ firing' = [firing EXCEPT ![c] =
              [auto |-> a, session |-> s, retry |-> retry,
               write |-> IF enabled[a] THEN NextRun(trigger[a]) ELSE "never"]]
    /\ UNCHANGED <<definition, timing, session, edits, up>>

FireBegin(c, i) ==
    /\ i \in todo[c]
    /\ todo' = [todo EXCEPT ![c] = @ \ {i}]
    /\ Fire(c, i.auto, i.next)

\* POST /api/automations/:id/fire, whatever the trigger and the pause say.
RunNow(a) ==
    /\ up /\ Quiet
    /\ Fire("hand", a, "never")
    /\ UNCHANGED todo

\* fire() throws before it submits: the row is gone, the previous run of the
\* automation is still in flight, or no session could be opened (here, when
\* every session of the model is taken).
FireRefused(c, i) ==
    LET a == i.auto IN
    /\ i \in todo[c] /\ firing[c] = None
    /\ a \notin Live \/ StillInFlight(a) \/ (~Reusable(a) /\ Fresh = {})
    /\ MoveOn(c, a, i.next)
    /\ todo' = [todo EXCEPT ![c] = @ \ {i}]
    /\ UNCHANGED <<definition, enabled, failures, session, sessions, flight, firing, edits, up>>

\* The submission is admitted: the row, if it is still there, takes the
\* session and the schedule fire() computed from what it read.
Submitted(c) ==
    LET f == firing[c] IN
    /\ f # None
    /\ session' = IF f.auto \in Live THEN [session EXCEPT ![f.auto] = f.session] ELSE session
    /\ due' = IF f.auto \in Live THEN [due EXCEPT ![f.auto] = f.write] ELSE due
    /\ firing' = [firing EXCEPT ![c] = None]
    /\ UNCHANGED <<definition, enabled, failures, sessions, flight, todo, edits, up>>

SubmitFails_LeavingDue(c) ==
    LET f == firing[c] IN
    /\ f # None
    /\ flight' = [flight EXCEPT ![f.session] = None]
    /\ firing' = [firing EXCEPT ![c] = None]
    /\ UNCHANGED <<definition, timing, session, sessions, todo, edits, up>>

\* The submission is refused after the classifier.
SubmitFails(c) ==
    LET f == firing[c] IN
    /\ f # None
    /\ flight' = [flight EXCEPT ![f.session] = None]
    /\ MoveOn(c, f.auto, f.retry)
    /\ firing' = [firing EXCEPT ![c] = None]
    /\ UNCHANGED <<definition, enabled, failures, session, sessions, todo, edits, up>>

\* tick(): the due rows are listed once; a tick under way excludes another.
Tick ==
    /\ up /\ Quiet
    /\ ~Busy("tick")
    /\ todo' = [todo EXCEPT !["tick"] =
         {[auto |-> a, next |-> NextRun(trigger[a])] : a \in {b \in Live : enabled[b] /\ due[b] = "due"}}]
    /\ todo' # todo
    /\ UNCHANGED <<definition, timing, session, sessions, flight, firing, edits, up>>

TimePasses(a) ==
    /\ due[a] = "later"
    /\ due' = [due EXCEPT ![a] = "due"]
    /\ UNCHANGED <<definition, enabled, failures, session, sessions, flight, loops, edits, up>>

-----------------------------------------------------------------------------
(* A run ends *)

\* A person's message, in a new session or in any that exists.
PersonRun(s, w) ==
    /\ up /\ Quiet
    /\ place[s] \in {None, w}
    /\ place' = [place EXCEPT ![s] = w]
    /\ flight[s] = None
    /\ flight' = [flight EXCEPT ![s] = [by |-> "user", hand |-> FALSE]]
    /\ UNCHANGED <<definition, timing, session, archived, loops, edits, up>>

\* automationBySession
Owners(s) == {a \in Live : session[a] = s}

SwitchedOff(s, status, a) ==
    /\ a \in Owners(s)
    /\ flight[s].by # "user"
    /\ status = "failed"
    /\ MaxFailures > 0
    /\ failures[a] + 1 >= MaxFailures

\* recordOutcome: an unattended failure lengthens the streak (counted up to
\* the limit), a success ends it.
RecordOutcome(s, status) ==
    /\ failures' = [a \in Autos |->
         IF a \notin Owners(s) \/ flight[s].by = "user" THEN failures[a]
         ELSE CASE status = "succeeded" -> 0
                [] status = "failed" /\ failures[a] < MaxFailures -> failures[a] + 1
                [] OTHER -> failures[a]]
    /\ enabled' = [a \in Autos |-> enabled[a] /\ ~SwitchedOff(s, status, a)]
    /\ due' = [a \in Autos |-> IF SwitchedOff(s, status, a) THEN "never" ELSE due[a]]

\* The automations that listen to this run: those that named its automation,
\* or, for a run no automation owns or made, those that named nobody.
Listeners(s) ==
    {a \in In(place[s]) :
        /\ enabled'[a]
        /\ session[a] # s
        /\ IF Owners(s) # {}
             THEN trigger[a].type = "watch" /\ trigger[a].sources \cap Owners(s) # {}
             ELSE trigger[a].type = "event" /\ flight[s].by = "user"}

\* The kernel's onRunFinished: the outcome is recorded, then the listeners
\* whose event and filter match are fired one by one.
RunEnds(s, status) ==
    /\ flight[s] # None
    /\ ~Submitting(s) /\ ~Busy(s)
    /\ RecordOutcome(s, status)
    /\ \E heard \in SUBSET Listeners(s) :
         /\ status \notin {"failed", "succeeded"} => heard = {}
         /\ todo' = [todo EXCEPT ![s] = {[auto |-> a, next |-> "never"] : a \in heard}]
    /\ flight' = [flight EXCEPT ![s] = None]
    /\ UNCHANGED <<definition, session, sessions, firing, edits, up>>

-----------------------------------------------------------------------------
(* The process *)

Crash ==
    /\ up
    /\ up' = FALSE
    /\ flight' = [s \in Sessions |-> None]
    /\ todo' = [c \in Callers |-> {}]
    /\ firing' = [c \in Callers |-> None]
    /\ UNCHANGED <<definition, timing, session, sessions, edits>>

\* start(): rescheduleAll.
Boot ==
    /\ ~up
    /\ up' = TRUE
    /\ due' = [a \in Autos |-> IF enabled[a] THEN NextRun(trigger[a]) ELSE due[a]]
    /\ UNCHANGED <<definition, enabled, failures, session, sessions, flight, loops, edits>>

Next ==
    \/ \E a \in Autos, w \in Workspaces : \E t \in Triggers \cup {trigger[a]} : Move(a, w, t)
    \/ \E a \in Autos, t \in Triggers : Update(a, t, continuous[a])
    \/ \E a \in Autos, on \in BOOLEAN : Update(a, trigger[a], on) \/ SetEnabled(a, on)
    \/ \E a \in Autos, w \in Workspaces, t \in Triggers, cont \in BOOLEAN : Create(a, w, t, cont)
    \/ \E a, b \in Autos, w \in Workspaces : Duplicate(a, b, w)
    \/ \E a \in Autos : Delete(a) \/ RunNow(a) \/ TimePasses(a)
    \/ \E s \in Sessions : ArchiveSession(s) \/ DeleteSession(s)
    \/ \E s \in Sessions, w \in Workspaces : PersonRun(s, w)
    \/ \E s \in Sessions, status \in {"succeeded", "failed", "interrupted"} : RunEnds(s, status)
    \/ Tick
    \/ \E c \in Callers, i \in Item : FireBegin(c, i) \/ FireRefused(c, i)
    \/ \E c \in Callers : Submitted(c) \/ SubmitFails(c)
    \/ Crash
    \/ Boot

Spec == Init /\ [][Next]_vars

-----------------------------------------------------------------------------
(* Properties *)

TypeOK ==
    /\ home \in [Autos -> Workspaces \cup {None}]
    /\ born \subseteq Autos /\ Live \subseteq born
    /\ trigger \in [Autos -> Trigger]
    /\ continuous \in [Autos -> BOOLEAN]
    /\ enabled \in [Autos -> BOOLEAN]
    /\ due \in [Autos -> Instant]
    /\ session \in [Autos -> Sessions \cup {None}]
    /\ failures \in [Autos -> 0..MaxFailures]
    /\ place \in [Sessions -> Workspaces \cup {None}]
    /\ archived \subseteq Sessions
    /\ flight \in [Sessions -> Run \cup {None}]
    /\ todo \in [Callers -> SUBSET Item]
    /\ firing \in [Callers -> Firing \cup {None}]
    /\ edits \in 0..MaxEdits
    /\ up \in BOOLEAN

\* forgetSource and validateTrigger together: a list of ids is a foreign key
\* nothing enforces, yet every source a trigger names exists and lives in the
\* watcher's workspace, through creations, edits, moves and deletions.
SourcesAreReachable ==
    \A a \in Live : trigger[a].sources \subseteq In(home[a])

\* validateTrigger, "a loop cannot be built": in every set of automations one
\* watches none of the set, so no chain of watchers comes back to its start.
NoWatchLoop ==
    \A S \in SUBSET Live : S # {} => \E a \in S : trigger[a].sources \cap S = {}

\* automationBySession: "A session belongs to at most one automation",
\* although fire() writes the session it resolved before an await.
SessionHasOneOwner ==
    \A a, b \in Live : a # b /\ session[a] # None => session[a] # session[b]

\* recordOutcome: an automation whose unattended failures reached the limit
\* is off, however edits, firings and outcomes of several runs interleave.
StreakSwitchesOff ==
    MaxFailures > 0 => \A a \in Live : enabled[a] => failures[a] < MaxFailures

Fairness ==
    /\ WF_vars(Boot)
    /\ SF_vars(Tick)
    /\ \A c \in Callers :
         /\ WF_vars(\E i \in Item : FireBegin(c, i) \/ FireRefused(c, i))
         /\ WF_vars(Submitted(c) \/ SubmitFails(c))

FairSpec == Spec /\ Fairness

\* tick: a due automation does not stay due: it is fired or its schedule
\* moves on, even when its firings fail for ever or its run never ends.
DueIsServed ==
    \A a \in Autos : (a \in Live /\ enabled[a] /\ due[a] = "due") ~> (due[a] # "due" \/ ~enabled[a])

\* automationBySession: the session an automation runs in is "inside its own
\* workspace", because a move releases it.
SessionInsideItsWorkspace ==
    \A a \in Live : session[a] # None => place[session[a]] = home[a]

\* recordOutcome: "Someone actively debugging an automation should not have
\* it switched off underneath them."
RunNowNeverSwitchesOff ==
    [][\A s \in Sessions : flight[s] # None /\ flight[s].hand /\ flight'[s] = None =>
         \A a \in Owners(s) : enabled[a] => enabled'[a]]_vars
=============================================================================
