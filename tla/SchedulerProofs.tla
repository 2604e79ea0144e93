--------------------------- MODULE SchedulerProofs ---------------------------
(***************************************************************************)
(* What Scheduler.tla promises for any number of automations, workspaces   *)
(* and sessions, and any limit on failures.                                *)
(***************************************************************************)
EXTENDS Scheduler, Cron, DataLemmas

Writes(a, w, t, cont, on) ==
    \/ Create(a, w, t, cont)
    \/ Move(a, w, t)
    \/ Update(a, t, cont)
    \/ SetEnabled(a, on)

\* Every step is one of these, about things of the right kind.
LEMMA Steps ==
    ASSUME TypeOK, [Next]_vars
    PROVE  \/ \E a \in Autos, w \in Workspaces, t \in Trigger, cont, on \in BOOLEAN :
                Writes(a, w, t, cont, on)
           \/ \E a, b \in Autos, w \in Workspaces : Duplicate(a, b, w)
           \/ \E a \in Autos : Delete(a) \/ RunNow(a) \/ TimePasses(a)
           \/ \E s \in Sessions : ArchiveSession(s) \/ DeleteSession(s)
           \/ \E s \in Sessions, w \in Workspaces : PersonRun(s, w)
           \/ \E s \in Sessions, status \in {"succeeded", "failed", "interrupted"} : RunEnds(s, status)
           \/ Tick
           \/ \E c \in Callers, i \in Item : FireBegin(c, i) \/ FireRefused(c, i)
           \/ \E c \in Callers : Submitted(c) \/ SubmitFails(c)
           \/ Crash
           \/ Boot
           \/ UNCHANGED vars
  <1> DEFINE Written == \E a \in Autos, w \in Workspaces, t \in Trigger, cont, on \in BOOLEAN :
                          Writes(a, w, t, cont, on)
  <1>1. \A a \in Autos : /\ continuous[a] \in BOOLEAN
                         /\ trigger[a] \in Trigger
                         /\ a \in Live => home[a] \in Workspaces
    BY NoneOutside DEF TypeOK, Live
  <1>2. \A t \in Triggers : t \in Trigger BY TriggersAssumption
  <1>3. ASSUME NEW a \in Autos, NEW w \in Workspaces, NEW t \in Triggers \cup {trigger[a]}, Move(a, w, t)
        PROVE  Written
    <2>1. t \in Trigger BY <1>1, <1>2
    <2>2. Writes(a, w, t, TRUE, TRUE) BY <1>3 DEF Writes
    <2>3. QED BY <2>1, <2>2
  <1>4. ASSUME NEW a \in Autos, NEW t \in Trigger, NEW on \in BOOLEAN, Update(a, t, on) PROVE Written
    <2>1. home[a] \in Workspaces BY <1>1, <1>4 DEF Update
    <2>2. Writes(a, home[a], t, on, on) BY <1>4 DEF Writes
    <2>3. QED BY <2>1, <2>2
  <1>5. ASSUME NEW a \in Autos, NEW on \in BOOLEAN, SetEnabled(a, on) PROVE Written
    <2>1. home[a] \in Workspaces BY <1>1, <1>5 DEF SetEnabled
    <2>2. Writes(a, home[a], trigger[a], on, on) BY <1>5 DEF Writes
    <2>3. QED BY <1>1, <2>1, <2>2
  <1>6. ASSUME NEW a \in Autos, NEW w \in Workspaces, NEW t \in Triggers, NEW cont \in BOOLEAN, Create(a, w, t, cont)
        PROVE  Written
    <2>1. Writes(a, w, t, cont, TRUE) BY <1>6 DEF Writes
    <2>2. QED BY <1>2, <2>1
  <1>7. (\E a \in Autos, t \in Triggers : Update(a, t, continuous[a])) => Written
    BY <1>1, <1>2, <1>4
  <1>8. (\E a \in Autos, on \in BOOLEAN : Update(a, trigger[a], on) \/ SetEnabled(a, on)) => Written
    BY <1>1, <1>4, <1>5
  <1> HIDE DEF Written
  <1>9. CASE Written BY <1>9 DEF Written
  <1>10. CASE \E a \in Autos, w \in Workspaces : \E t \in Triggers \cup {trigger[a]} : Move(a, w, t)
    BY <1>3, <1>9, <1>10
  <1>11. CASE \E a \in Autos, w \in Workspaces, t \in Triggers, cont \in BOOLEAN : Create(a, w, t, cont)
    BY <1>6, <1>9, <1>11
  <1>12. CASE UNCHANGED vars BY <1>12
  <1>13. QED BY <1>7, <1>8, <1>9, <1>10, <1>11, <1>12 DEF Next

-----------------------------------------------------------------------------
(* Types *)

LEMMA NextRunTyped == \A t : NextRun(t) \in Instant
  BY DEF NextRun, Instant

LEMMA ForgettingTyped ==
    ASSUME NEW a \in Autos, NEW f \in [Autos -> Trigger]
    PROVE  /\ Forgetting(a, f) \in [Autos -> Trigger]
           /\ \A b \in Autos : /\ Forgetting(a, f)[b].sources = f[b].sources \ {a}
                               /\ Forgetting(a, f)[b].type = f[b].type
  BY DEF Forgetting, Trigger

LEMMA FireTyped ==
    ASSUME TypeOK, NEW c \in Callers, NEW a \in Autos, NEW r \in Instant, Fire(c, a, r)
    PROVE  /\ place' \in [Sessions -> Workspaces \cup {None}]
           /\ archived' \subseteq Sessions
           /\ flight' \in [Sessions -> Run \cup {None}]
           /\ firing' \in [Callers -> Firing \cup {None}]
  <1>1. PICK s \in IF Reusable(a) THEN {session[a]} ELSE Fresh :
         /\ place' = [place EXCEPT ![s] = IF Reusable(a) THEN @ ELSE home[a]]
         /\ archived' = archived \ {s}
         /\ flight' = [flight EXCEPT ![s] =
              [by |-> IF continuous[a] THEN "loop"
                      ELSE IF c = "hand" THEN "user" ELSE "automation",
               hand |-> c = "hand"]]
         /\ firing' = [firing EXCEPT ![c] =
              [auto |-> a, session |-> s, retry |-> r,
               write |-> IF enabled[a] THEN NextRun(trigger[a]) ELSE "never"]]
    BY DEF Fire
  <1>2. s \in Sessions BY <1>1 DEF Reusable, Fresh, TypeOK
  <1>3. place' \in [Sessions -> Workspaces \cup {None}] BY <1>1, <1>2 DEF TypeOK
  <1>4. archived' \subseteq Sessions BY <1>1 DEF TypeOK
  <1>5. flight' \in [Sessions -> Run \cup {None}]
    <2>1. [by |-> IF continuous[a] THEN "loop"
                  ELSE IF c = "hand" THEN "user" ELSE "automation",
           hand |-> c = "hand"] \in Run BY DEF Run
    <2>2. QED BY <1>1, <2>1 DEF TypeOK
  <1>6. firing' \in [Callers -> Firing \cup {None}]
    <2>1. [auto |-> a, session |-> s, retry |-> r,
           write |-> IF enabled[a] THEN NextRun(trigger[a]) ELSE "never"] \in Firing
      BY <1>2, NextRunTyped DEF Firing, Instant
    <2>2. QED BY <1>1, <2>1 DEF TypeOK
  <1>7. QED BY <1>3, <1>4, <1>5, <1>6

LEMMA TypeStep == TypeOK /\ [Next]_vars => TypeOK'
  <1> SUFFICES ASSUME TypeOK, [Next]_vars PROVE TypeOK' OBVIOUS
  <1>1. ASSUME NEW a \in Autos, NEW w \in Workspaces, NEW t \in Trigger,
               NEW cont \in BOOLEAN, NEW on \in BOOLEAN, Writes(a, w, t, cont, on)
        PROVE  TypeOK'
    <2>1. CASE Create(a, w, t, cont)
      BY <2>1, NextRunTyped, NoneOutside DEF Create, Insert, TypeOK, Live, Instant, timing, sessions, loops
    <2>2. CASE Move(a, w, t)
      <3>1. trigger' \in [Autos -> Trigger]
        <4>1. [trigger EXCEPT ![a] = t] \in [Autos -> Trigger] BY DEF TypeOK
        <4>2. QED BY <2>2, <4>1, ForgettingTyped DEF Move
      <3>2. home' \in [Autos -> Workspaces \cup {None}] /\ Live' \subseteq born'
        BY <2>2 DEF Move, Write, TypeOK, Live
      <3>3. due' \in [Autos -> Instant] BY <2>2, NextRunTyped DEF Move, Write, TypeOK, Instant
      <3>4. edits' \in 0..MaxEdits BY <2>2, BoundAssumption DEF Move, Edit, TypeOK
      <3>5. session' \in [Autos -> Sessions \cup {None}] BY <2>2 DEF Move, TypeOK
      <3>6. QED BY <2>2, <3>1, <3>2, <3>3, <3>4, <3>5 DEF Move, Write, TypeOK, sessions, loops
    <2>3. CASE Update(a, t, cont)
      BY <2>3, NextRunTyped, NoneOutside, BoundAssumption
      DEF Update, Write, Edit, TypeOK, Live, Instant, sessions, loops
    <2>4. CASE SetEnabled(a, on)
      BY <2>4, NextRunTyped, NoneOutside, BoundAssumption, FailuresAssumption
      DEF SetEnabled, Write, Edit, TypeOK, Live, Instant, sessions, loops
    <2>5. QED BY <1>1, <2>1, <2>2, <2>3, <2>4 DEF Writes
  <1>2. ASSUME NEW a \in Autos, NEW b \in Autos, NEW w \in Workspaces, Duplicate(a, b, w)
        PROVE  TypeOK'
    BY <1>2, NextRunTyped, NoneOutside DEF Duplicate, Insert, TypeOK, Live, Instant, timing, sessions, loops
  <1>3. ASSUME NEW a \in Autos, Delete(a) PROVE TypeOK'
    <2>1. trigger' \in [Autos -> Trigger]
      <3>1. [trigger EXCEPT ![a] = [type |-> "manual", sources |-> {}]] \in [Autos -> Trigger]
        BY DEF TypeOK, Trigger
      <3>2. QED BY <1>3, <3>1, ForgettingTyped DEF Delete
    <2>2. home' \in [Autos -> Workspaces \cup {None}] /\ Live' \subseteq born'
      BY <1>3 DEF Delete, Removed, TypeOK, Live
    <2>3. due' \in [Autos -> Instant] BY <1>3 DEF Delete, Removed, TypeOK, Instant
    <2>4. edits' \in 0..MaxEdits BY <1>3, BoundAssumption DEF Delete, Edit, TypeOK
    <2>5. session' \in [Autos -> Sessions \cup {None}] BY <1>3 DEF Delete, Removed, TypeOK
    <2>6. QED BY <1>3, <2>1, <2>2, <2>3, <2>4, <2>5 DEF Delete, Removed, TypeOK, sessions, loops
  <1>4. ASSUME NEW a \in Autos, RunNow(a) PROVE TypeOK'
    <2>1. "hand" \in Callers /\ "never" \in Instant BY DEF Callers, Instant
    <2>2. Fire("hand", a, "never") BY <1>4 DEF RunNow
    <2>3. /\ place' \in [Sessions -> Workspaces \cup {None}] /\ archived' \subseteq Sessions
          /\ flight' \in [Sessions -> Run \cup {None}] /\ firing' \in [Callers -> Firing \cup {None}]
      BY <2>1, <2>2, FireTyped
    <2>4. UNCHANGED <<definition, timing, session, todo, edits, up>> BY <1>4, <2>2 DEF RunNow, Fire
    <2>5. QED BY <2>3, <2>4 DEF TypeOK, Live, definition, timing
  <1>5. ASSUME NEW a \in Autos, TimePasses(a) PROVE TypeOK'
    BY <1>5 DEF TimePasses, TypeOK, Live, Instant, definition, sessions, loops
  <1>6. ASSUME NEW s \in Sessions, ArchiveSession(s) PROVE TypeOK'
    BY <1>6, BoundAssumption DEF ArchiveSession, Edit, TypeOK, Live, definition, timing, loops
  <1>7. ASSUME NEW s \in Sessions, DeleteSession(s) PROVE TypeOK'
    BY <1>7, BoundAssumption DEF DeleteSession, Edit, TypeOK, Live, definition, timing, loops
  <1>8. ASSUME NEW s \in Sessions, NEW w \in Workspaces, PersonRun(s, w) PROVE TypeOK'
    <2>1. [by |-> "user", hand |-> FALSE] \in Run BY DEF Run
    <2>2. QED BY <1>8, <2>1 DEF PersonRun, TypeOK, Live, definition, timing, loops
  <1>9. ASSUME NEW s \in Sessions, NEW status \in {"succeeded", "failed", "interrupted"}, RunEnds(s, status)
        PROVE TypeOK'
    <2>1. failures' \in [Autos -> 0..MaxFailures]
      BY <1>9, FailuresAssumption DEF RunEnds, RecordOutcome, TypeOK
    <2>2. enabled' \in [Autos -> BOOLEAN] /\ due' \in [Autos -> Instant]
      BY <1>9 DEF RunEnds, RecordOutcome, TypeOK, Instant
    <2>3. todo' \in [Callers -> SUBSET Item]
      <3>1. PICK heard \in SUBSET Listeners(s) :
              todo' = [todo EXCEPT ![s] = {[auto |-> a, next |-> "never"] : a \in heard}]
        BY <1>9 DEF RunEnds
      <3>2. heard \subseteq Autos BY DEF Listeners, In
      <3>3. {[auto |-> a, next |-> "never"] : a \in heard} \in SUBSET Item
        BY <3>2 DEF Item, Instant
      <3>4. QED BY <3>1, <3>3 DEF TypeOK, Callers
    <2>4. QED BY <1>9, <2>1, <2>2, <2>3 DEF RunEnds, TypeOK, Live, definition, sessions
  <1>10. ASSUME Tick PROVE TypeOK'
    <2>1. {[auto |-> a, next |-> NextRun(trigger[a])] : a \in {b \in Live : enabled[b] /\ due[b] = "due"}}
            \in SUBSET Item
      BY NextRunTyped DEF Item, Live
    <2>2. QED BY <1>10, <2>1 DEF Tick, TypeOK, Live, definition, timing, sessions
  <1>11. ASSUME NEW c \in Callers, NEW i \in Item, FireBegin(c, i) PROVE TypeOK'
    <2>1. i.auto \in Autos /\ i.next \in Instant BY DEF Item
    <2>2. Fire(c, i.auto, i.next) BY <1>11 DEF FireBegin
    <2>3. todo' \in [Callers -> SUBSET Item] BY <1>11 DEF FireBegin, TypeOK
    <2>4. QED BY <2>1, <2>2, <2>3, FireTyped DEF Fire, TypeOK, Live, definition, timing
  <1>12. ASSUME NEW c \in Callers, NEW i \in Item, FireRefused(c, i) PROVE TypeOK'
    <2>1. i.auto \in Autos /\ i.next \in Instant BY DEF Item
    <2>2. due' \in [Autos -> Instant] BY <1>12, <2>1 DEF FireRefused, MoveOn, TypeOK
    <2>3. QED BY <1>12, <2>2 DEF FireRefused, TypeOK, Live, definition, sessions
  <1>13. ASSUME NEW c \in Callers, Submitted(c) PROVE TypeOK'
    <2>1. firing[c] \in Firing BY <1>13 DEF Submitted, TypeOK
    <2>2. QED BY <1>13, <2>1 DEF Submitted, TypeOK, Live, Firing, definition, sessions
  <1>14. ASSUME NEW c \in Callers, SubmitFails(c) PROVE TypeOK'
    <2>1. firing[c] \in Firing BY <1>14 DEF SubmitFails, TypeOK
    <2>2. due' \in [Autos -> Instant] BY <1>14, <2>1 DEF SubmitFails, MoveOn, TypeOK, Firing
    <2>3. QED BY <1>14, <2>1, <2>2 DEF SubmitFails, TypeOK, Live, definition, sessions
  <1>15. ASSUME Crash PROVE TypeOK'
    BY <1>15 DEF Crash, TypeOK, Live, definition, timing, sessions
  <1>16. ASSUME Boot PROVE TypeOK'
    BY <1>16, NextRunTyped DEF Boot, TypeOK, Live, definition, sessions, loops
  <1>17. ASSUME UNCHANGED vars PROVE TypeOK'
    BY <1>17 DEF vars, definition, timing, sessions, loops, TypeOK, Live
  <1>18. QED
    BY <1>1, <1>2, <1>3, <1>4, <1>5, <1>6, <1>7, <1>8, <1>9, <1>10, <1>11, <1>12, <1>13,
       <1>14, <1>15, <1>16, <1>17, Steps

\* Type correctness, for every value of the constants.
THEOREM TypeCorrect == Spec => []TypeOK
  <1>1. Init => TypeOK
    BY FailuresAssumption, BoundAssumption DEF Init, TypeOK, Live, Trigger, Instant
  <1>2. QED BY <1>1, TypeStep, PTL DEF Spec

-----------------------------------------------------------------------------
(* Sources *)

\* Only these steps touch where automations live and what they watch.
LEMMA DefinitionSteps ==
    ASSUME TypeOK, [Next]_vars
    PROVE  \/ \E a \in Autos, w \in Workspaces, t \in Trigger, cont, on \in BOOLEAN :
                Writes(a, w, t, cont, on)
           \/ \E a, b \in Autos, w \in Workspaces : Duplicate(a, b, w)
           \/ \E a \in Autos : Delete(a)
           \/ UNCHANGED definition
  <1>1. CASE \E a \in Autos : RunNow(a) \/ TimePasses(a)
    BY <1>1 DEF RunNow, Fire, TimePasses
  <1>2. CASE \/ \E s \in Sessions : ArchiveSession(s) \/ DeleteSession(s)
             \/ \E s \in Sessions, w \in Workspaces : PersonRun(s, w)
    BY <1>2 DEF ArchiveSession, DeleteSession, PersonRun
  <1>3. CASE \E s \in Sessions, status \in {"succeeded", "failed", "interrupted"} : RunEnds(s, status)
    BY <1>3 DEF RunEnds
  <1>4. CASE \E c \in Callers, i \in Item : FireBegin(c, i) \/ FireRefused(c, i)
    BY <1>4 DEF FireBegin, Fire, FireRefused
  <1>5. CASE \E c \in Callers : Submitted(c) \/ SubmitFails(c)
    BY <1>5 DEF Submitted, SubmitFails
  <1>6. CASE Tick \/ Crash \/ Boot \/ UNCHANGED vars
    BY <1>6 DEF Tick, Crash, Boot, vars
  <1>7. QED BY Steps, <1>1, <1>2, <1>3, <1>4, <1>5, <1>6

LEMMA SourcesStep == TypeOK /\ SourcesAreReachable /\ [Next]_vars => SourcesAreReachable'
  <1> SUFFICES ASSUME TypeOK, SourcesAreReachable, [Next]_vars PROVE SourcesAreReachable' OBVIOUS
  <1>1. ASSUME NEW a \in Autos, NEW w \in Workspaces, NEW t \in Trigger,
               NEW cont \in BOOLEAN, NEW on \in BOOLEAN, Writes(a, w, t, cont, on)
        PROVE  SourcesAreReachable'
    <2>1. CASE Create(a, w, t, cont)
      <3>1. a \notin Live BY <2>1 DEF Create, Insert, TypeOK
      <3>2. t.sources \subseteq In(w) \ {a} BY <2>1 DEF Create, ValidTrigger, Trigger
      <3>3. home' = [home EXCEPT ![a] = w] /\ trigger' = [trigger EXCEPT ![a] = t]
        BY <2>1 DEF Create, Insert
      <3>4. QED BY <3>1, <3>2, <3>3 DEF SourcesAreReachable, Live, In, TypeOK
    <2>2. CASE Move(a, w, t)
      <3>1. t.sources \subseteq In(w) \ {a} BY <2>2 DEF Move, ValidTrigger, Trigger
      <3>2. home' = [home EXCEPT ![a] = w] BY <2>2 DEF Move, Write
      <3>3. \A b \in Autos : trigger'[b].sources = [trigger EXCEPT ![a] = t][b].sources \ {a}
        BY <2>2, ForgettingTyped DEF Move, TypeOK
      <3>4. QED BY <3>1, <3>2, <3>3 DEF SourcesAreReachable, Live, In, TypeOK
    <2>3. CASE Update(a, t, cont)
      <3>1. t.sources \subseteq In(home[a])
        BY <2>3 DEF Update, ValidTrigger, Trigger, SourcesAreReachable
      <3>2. home' = home /\ trigger' = [trigger EXCEPT ![a] = t] BY <2>3 DEF Update, Write, TypeOK
      <3>3. QED BY <3>1, <3>2 DEF SourcesAreReachable, Live, In, TypeOK
    <2>4. CASE SetEnabled(a, on)
      <3>1. home' = home /\ trigger' = trigger BY <2>4 DEF SetEnabled, Write, TypeOK
      <3>2. QED BY <3>1 DEF SourcesAreReachable, Live, In
    <2>5. QED BY <1>1, <2>1, <2>2, <2>3, <2>4 DEF Writes
  <1>2. ASSUME NEW a \in Autos, NEW b \in Autos, NEW w \in Workspaces, Duplicate(a, b, w)
        PROVE  SourcesAreReachable'
    <2>1. b \notin Live BY <1>2 DEF Duplicate, Insert, TypeOK
    <2>2. trigger[a].sources = {} BY <1>2 DEF Duplicate, TypeOK, Trigger
    <2>3. home' = [home EXCEPT ![b] = w] /\ trigger' = [trigger EXCEPT ![b] = trigger[a]]
      BY <1>2 DEF Duplicate, Insert
    <2>4. QED BY <2>1, <2>2, <2>3 DEF SourcesAreReachable, Live, In, TypeOK
  <1>3. ASSUME NEW a \in Autos, Delete(a) PROVE SourcesAreReachable'
    <2>1. home' = [home EXCEPT ![a] = None] BY <1>3 DEF Delete, Removed
    <2>2. \A b \in Autos \ {a} : trigger'[b].sources = trigger[b].sources \ {a}
      <3> DEFINE cleared == [trigger EXCEPT ![a] = [type |-> "manual", sources |-> {}]]
      <3>1. cleared \in [Autos -> Trigger] BY DEF TypeOK, Trigger
      <3>2. \A b \in Autos \ {a} : cleared[b] = trigger[b] BY DEF TypeOK
      <3>3. trigger' = Forgetting(a, cleared) BY <1>3 DEF Delete
      <3> HIDE DEF cleared
      <3>4. QED BY <3>1, <3>2, <3>3, ForgettingTyped
    <2>3. QED BY <2>1, <2>2 DEF SourcesAreReachable, Live, In, TypeOK
  <1>4. CASE UNCHANGED definition
    BY <1>4 DEF definition, SourcesAreReachable, Live, In
  <1>5. QED BY <1>1, <1>2, <1>3, <1>4, DefinitionSteps

\* forgetSource and validateTrigger together: no trigger ever names an
\* automation that is gone or that lives in another workspace.
THEOREM SourcesReachable == Spec => []SourcesAreReachable
  <1>1. Init => SourcesAreReachable BY DEF Init, SourcesAreReachable, Live
  <1>2. QED BY <1>1, TypeCorrect, SourcesStep, PTL DEF Spec

-----------------------------------------------------------------------------
(* Loops *)

\* Losing automations or sources closes no loop.
LEMMA FewerSources ==
    ASSUME NoWatchLoop, Live' \subseteq Live,
           \A a \in Live' : trigger'[a].sources \subseteq trigger[a].sources
    PROVE  NoWatchLoop'
  BY DEF NoWatchLoop

\* Neither does an automation nobody names, if it does not name itself.
LEMMA NobodyNames ==
    ASSUME NoWatchLoop, NEW a, Live' \subseteq Live \cup {a}, a \notin trigger'[a].sources,
           \A b \in Live' \ {a} : /\ trigger'[b].sources \subseteq trigger[b].sources
                                /\ a \notin trigger'[b].sources
    PROVE  NoWatchLoop'
  <1> SUFFICES ASSUME NEW S \in SUBSET Live', S # {}
               PROVE  \E b \in S : trigger'[b].sources \cap S = {}
    BY DEF NoWatchLoop
  <1>1. CASE S \ {a} = {} BY <1>1
  <1>2. CASE S \ {a} # {}
    <2>1. PICK b \in S \ {a} : trigger[b].sources \cap (S \ {a}) = {} BY <1>2 DEF NoWatchLoop
    <2>2. QED BY <2>1
  <1>3. QED BY <1>1, <1>2

LEMMA LoopStep == TypeOK /\ SourcesAreReachable /\ NoWatchLoop /\ [Next]_vars => NoWatchLoop'
  <1> SUFFICES ASSUME TypeOK, SourcesAreReachable, NoWatchLoop, [Next]_vars PROVE NoWatchLoop' OBVIOUS
  <1>0. \A b \in Live : trigger[b].sources \subseteq Live
    BY NoneOutside DEF SourcesAreReachable, Live, In
  <1>1. ASSUME NEW a \in Autos, NEW w \in Workspaces, NEW t \in Trigger,
               NEW cont \in BOOLEAN, NEW on \in BOOLEAN, Writes(a, w, t, cont, on)
        PROVE  NoWatchLoop'
    <2>1. CASE Create(a, w, t, cont)
      <3>1. a \notin Live BY <2>1 DEF Create, Insert, TypeOK
      <3>2. a \notin t.sources BY <2>1 DEF Create, ValidTrigger, Trigger
      <3>3. home' = [home EXCEPT ![a] = w] /\ trigger' = [trigger EXCEPT ![a] = t]
        BY <2>1 DEF Create, Insert
      <3>4. Live' \subseteq Live \cup {a} BY <3>3 DEF Live, TypeOK
      <3>5. trigger'[a] = t /\ \A b \in Live' \ {a} : trigger'[b] = trigger[b] /\ b \in Live
        BY <3>3, <3>4 DEF TypeOK, Live
      <3>6. QED BY <1>0, <3>1, <3>2, <3>4, <3>5, NobodyNames
    <2>2. CASE Move(a, w, t)
      <3>1. Live' \subseteq Live BY <2>2 DEF Move, Write, Live, TypeOK
      <3>2. \A b \in Autos : trigger'[b].sources = [trigger EXCEPT ![a] = t][b].sources \ {a}
        BY <2>2, ForgettingTyped DEF Move, TypeOK
      <3>3. \A b \in Live' \ {a} : trigger'[b].sources = trigger[b].sources \ {a}
        BY <3>2 DEF TypeOK, Live
      <3>4. a \notin trigger'[a].sources BY <3>2
      <3>5. QED BY <3>1, <3>3, <3>4, NobodyNames
    <2>3. CASE Update(a, t, cont)
      <3>1. home' = home /\ trigger' = [trigger EXCEPT ![a] = t] BY <2>3 DEF Update, Write, TypeOK
      <3>2. Live' = Live BY <3>1 DEF Live
      <3>3. CASE t = trigger[a]
        <4>1. trigger' = trigger BY <3>1, <3>3 DEF TypeOK
        <4>2. QED BY <3>2, <4>1, FewerSources
      <3>4. CASE t.type # "watch"
        <4>1. t.sources = {} BY <3>4 DEF Trigger
        <4>2. \A b \in Live : trigger'[b].sources \subseteq trigger[b].sources
          BY <3>1, <4>1 DEF TypeOK, Live
        <4>3. QED BY <3>2, <4>2, FewerSources
      <3>5. CASE t # trigger[a] /\ t.type = "watch"
        <4>1. a \in Live /\ ValidTrigger(t, home[a], a) BY <2>3, <3>5 DEF Update
        <4>2. t.sources \subseteq In(home[a]) /\ ~Leads(SourcesIn(home[a]), t.sources, a)
          BY <3>5, <4>1 DEF ValidTrigger
        <4>3. PICK closed \in SUBSET Autos :
                /\ t.sources \subseteq closed /\ a \notin closed
                /\ \A b \in closed : SourcesIn(home[a])[b] \subseteq closed
          BY <4>2 DEF Leads
        <4> DEFINE R == closed \cap In(home[a])
        <4>4. t.sources \subseteq R BY <4>2, <4>3
        <4>5. \A b \in R : trigger[b].sources \subseteq R
          <5>1. TAKE b \in R
          <5>2. home[b] = home[a] /\ b \in Live BY <4>1 DEF In, Live
          <5>3. trigger[b].sources \subseteq closed BY <4>3, <5>2 DEF SourcesIn
          <5>4. QED BY <5>2, <5>3 DEF SourcesAreReachable
        <4> HIDE DEF R
        <4>6. SUFFICES ASSUME NEW S \in SUBSET Live, S # {}
                       PROVE  \E b \in S : trigger'[b].sources \cap S = {}
          BY <3>2 DEF NoWatchLoop
        <4>7. a \notin R BY <4>3 DEF R
        <4>8. \A b \in Live \ {a} : trigger'[b] = trigger[b] BY <3>1 DEF TypeOK, Live
        <4>9. trigger'[a] = t BY <3>1 DEF TypeOK
        <4>10. CASE S \cap R # {}
          <5>1. PICK b \in S \cap R : trigger[b].sources \cap (S \cap R) = {} BY <4>10 DEF NoWatchLoop
          <5>2. trigger'[b] = trigger[b] BY <4>7, <4>8, <5>1
          <5>3. QED BY <4>5, <5>1, <5>2
        <4>11. CASE S \cap R = {} /\ a \in S BY <4>4, <4>9, <4>11
        <4>12. CASE a \notin S
          <5>1. PICK b \in S : trigger[b].sources \cap S = {} BY <4>6 DEF NoWatchLoop
          <5>2. QED BY <4>8, <4>12, <5>1
        <4>13. QED BY <4>10, <4>11, <4>12
      <3>6. QED BY <3>3, <3>4, <3>5
    <2>4. CASE SetEnabled(a, on)
      <3>1. home' = home /\ trigger' = trigger BY <2>4 DEF SetEnabled, Write, TypeOK
      <3>2. QED BY <3>1 DEF NoWatchLoop, Live
    <2>5. QED BY <1>1, <2>1, <2>2, <2>3, <2>4 DEF Writes
  <1>2. ASSUME NEW a \in Autos, NEW b \in Autos, NEW w \in Workspaces, Duplicate(a, b, w)
        PROVE  NoWatchLoop'
    <2>1. b \notin Live BY <1>2 DEF Duplicate, Insert, TypeOK
    <2>2. trigger[a].sources = {} BY <1>2 DEF Duplicate, TypeOK, Trigger
    <2>3. home' = [home EXCEPT ![b] = w] /\ trigger' = [trigger EXCEPT ![b] = trigger[a]]
      BY <1>2 DEF Duplicate, Insert
    <2>4. Live' \subseteq Live \cup {b} BY <2>3 DEF Live, TypeOK
    <2>5. trigger'[b].sources = {} /\ \A c \in Live' \ {b} : trigger'[c] = trigger[c] /\ c \in Live
      BY <2>2, <2>3, <2>4 DEF TypeOK, Live
    <2>6. QED BY <1>0, <2>1, <2>4, <2>5, NobodyNames
  <1>3. ASSUME NEW a \in Autos, Delete(a) PROVE NoWatchLoop'
    <2>1. Live' \subseteq Live \ {a} BY <1>3 DEF Delete, Removed, Live, TypeOK
    <2>2. \A b \in Autos \ {a} : trigger'[b].sources = trigger[b].sources \ {a}
      <3> DEFINE cleared == [trigger EXCEPT ![a] = [type |-> "manual", sources |-> {}]]
      <3>1. cleared \in [Autos -> Trigger] BY DEF TypeOK, Trigger
      <3>2. \A b \in Autos \ {a} : cleared[b] = trigger[b] BY DEF TypeOK
      <3>3. trigger' = Forgetting(a, cleared) BY <1>3 DEF Delete
      <3> HIDE DEF cleared
      <3>4. QED BY <3>1, <3>2, <3>3, ForgettingTyped
    <2>3. QED BY <2>1, <2>2, FewerSources DEF Live
  <1>4. CASE UNCHANGED definition
    BY <1>4 DEF definition, NoWatchLoop, Live
  <1>5. QED BY <1>1, <1>2, <1>3, <1>4, DefinitionSteps

\* "A loop cannot be built": whatever is created, edited, moved or deleted,
\* no chain of watchers comes back to its start.
THEOREM NoLoop == Spec => []NoWatchLoop
  <1>1. Init => NoWatchLoop BY DEF Init, NoWatchLoop, Live
  <1>2. QED BY <1>1, TypeCorrect, SourcesReachable, LoopStep, PTL DEF Spec

-----------------------------------------------------------------------------
(* The streak *)

\* An id nobody used has no failures behind it.
StreakInv ==
    /\ StreakSwitchesOff
    /\ \A a \in Autos \ born : failures[a] = 0

\* Only these steps touch the streak, the pause or the births.
LEMMA StreakSteps ==
    ASSUME TypeOK, [Next]_vars
    PROVE  \/ \E a \in Autos, w \in Workspaces, t \in Trigger, cont, on \in BOOLEAN :
                Writes(a, w, t, cont, on)
           \/ \E a, b \in Autos, w \in Workspaces : Duplicate(a, b, w)
           \/ \E a \in Autos : Delete(a)
           \/ \E s \in Sessions, status \in {"succeeded", "failed", "interrupted"} : RunEnds(s, status)
           \/ UNCHANGED <<home, born, enabled, failures>>
  <1>1. CASE \E a \in Autos : RunNow(a) \/ TimePasses(a)
    BY <1>1 DEF RunNow, Fire, TimePasses, definition, timing
  <1>2. CASE \/ \E s \in Sessions : ArchiveSession(s) \/ DeleteSession(s)
             \/ \E s \in Sessions, w \in Workspaces : PersonRun(s, w)
    BY <1>2 DEF ArchiveSession, DeleteSession, PersonRun, definition, timing
  <1>3. CASE \E c \in Callers, i \in Item : FireBegin(c, i) \/ FireRefused(c, i)
    BY <1>3 DEF FireBegin, Fire, FireRefused, definition, timing
  <1>4. CASE \E c \in Callers : Submitted(c) \/ SubmitFails(c)
    BY <1>4 DEF Submitted, SubmitFails, definition, timing
  <1>5. CASE Tick \/ Crash \/ Boot \/ UNCHANGED vars
    BY <1>5 DEF Tick, Crash, Boot, vars, definition, timing
  <1>6. QED BY Steps, <1>1, <1>2, <1>3, <1>4, <1>5

LEMMA StreakStep == TypeOK /\ StreakInv /\ [Next]_vars => StreakInv'
  <1> SUFFICES ASSUME TypeOK, StreakInv, [Next]_vars PROVE StreakInv' OBVIOUS
  <1> USE FailuresAssumption
  <1>1. ASSUME NEW a \in Autos, NEW w \in Workspaces, NEW t \in Trigger,
               NEW cont \in BOOLEAN, NEW on \in BOOLEAN, Writes(a, w, t, cont, on)
        PROVE  StreakInv'
    <2>1. CASE Create(a, w, t, cont)
      BY <2>1 DEF Create, Insert, StreakInv, StreakSwitchesOff, Live, TypeOK
    <2>2. CASE Move(a, w, t)
      BY <2>2 DEF Move, Write, StreakInv, StreakSwitchesOff, Live, TypeOK
    <2>3. CASE Update(a, t, cont)
      BY <2>3 DEF Update, Write, StreakInv, StreakSwitchesOff, Live, TypeOK
    <2>4. CASE SetEnabled(a, on)
      <3>1. a \in born BY <2>4 DEF SetEnabled, TypeOK
      <3>2. QED BY <2>4, <3>1 DEF SetEnabled, Write, StreakInv, StreakSwitchesOff, Live, TypeOK
    <2>5. QED BY <1>1, <2>1, <2>2, <2>3, <2>4 DEF Writes
  <1>2. ASSUME NEW a \in Autos, NEW b \in Autos, NEW w \in Workspaces, Duplicate(a, b, w)
        PROVE  StreakInv'
    BY <1>2 DEF Duplicate, Insert, StreakInv, StreakSwitchesOff, Live, TypeOK
  <1>3. ASSUME NEW a \in Autos, Delete(a) PROVE StreakInv'
    BY <1>3 DEF Delete, Removed, StreakInv, StreakSwitchesOff, Live, TypeOK
  <1>4. ASSUME NEW s \in Sessions, NEW status \in {"succeeded", "failed", "interrupted"}, RunEnds(s, status)
        PROVE  StreakInv'
    <2>1. RecordOutcome(s, status) /\ UNCHANGED <<home, born>> BY <1>4 DEF RunEnds, definition
    <2>2. Live' = Live /\ Live \subseteq born BY <2>1 DEF Live, TypeOK
    <2>3. \A a \in Autos \ born' : failures'[a] = 0
      BY <2>1, <2>2 DEF RecordOutcome, Owners, StreakInv
    <2>4. ASSUME MaxFailures > 0, NEW a \in Live, enabled'[a] PROVE failures'[a] < MaxFailures
      <3>1. enabled[a] /\ ~SwitchedOff(s, status, a) BY <2>1, <2>4 DEF RecordOutcome, Live
      <3>2. a \in Autos /\ failures[a] \in Nat /\ failures[a] < MaxFailures
        BY <2>4, <3>1 DEF StreakInv, StreakSwitchesOff, Live, TypeOK
      <3>3. failures'[a] = IF a \notin Owners(s) \/ flight[s].by = "user" THEN failures[a]
                           ELSE CASE status = "succeeded" -> 0
                                  [] status = "failed" /\ failures[a] < MaxFailures -> failures[a] + 1
                                  [] OTHER -> failures[a]
        BY <2>1, <3>2 DEF RecordOutcome
      <3>4. CASE a \notin Owners(s) \/ flight[s].by = "user" BY <3>2, <3>3, <3>4
      <3>5. CASE a \in Owners(s) /\ flight[s].by # "user" /\ status = "failed"
        <4>1. failures'[a] = failures[a] + 1 BY <3>2, <3>3, <3>5
        <4>2. QED BY <2>4, <3>1, <3>2, <3>5, <4>1 DEF SwitchedOff
      <3>6. CASE status # "failed"
        <4>1. failures'[a] \in {0, failures[a]} BY <3>3, <3>6
        <4>2. QED BY <2>4, <3>2, <4>1
      <3>7. QED BY <3>4, <3>5, <3>6
    <2>5. QED BY <2>2, <2>3, <2>4 DEF StreakInv, StreakSwitchesOff
  <1>5. CASE UNCHANGED <<home, born, enabled, failures>>
    BY <1>5 DEF StreakInv, StreakSwitchesOff, Live
  <1>6. QED BY <1>1, <1>2, <1>3, <1>4, <1>5, StreakSteps

\* recordOutcome: an automation whose unattended failures reached the limit
\* is off, however its firings, edits and outcomes interleave.
THEOREM StreakIsEnforced == Spec => []StreakSwitchesOff
  <1>1. Init => StreakInv BY DEF Init, StreakInv, StreakSwitchesOff, Live
  <1>2. StreakInv => StreakSwitchesOff BY DEF StreakInv
  <1>3. QED BY <1>1, <1>2, TypeCorrect, StreakStep, PTL DEF Spec

-----------------------------------------------------------------------------
(* Sessions *)

\* A submission holds its session: a run is in flight in it, no other
\* submission has it, and only the automation being fired may own it.
Held ==
    \A c \in Callers : firing[c] # None =>
        /\ flight[firing[c].session] # None
        /\ \A d \in Callers : d # c /\ firing[d] # None => firing[d].session # firing[c].session
        /\ \A a \in Autos : session[a] = firing[c].session => a = firing[c].auto

OneOwner == \A a, b \in Autos : a # b /\ session[a] # None => session[a] # session[b]

OwnerInv == Held /\ OneOwner

LEMMA FireOwner ==
    ASSUME TypeOK, OwnerInv, NEW c \in Callers, NEW a \in Autos, NEW r, Fire(c, a, r)
    PROVE  OwnerInv'
  <1>1. PICK s \in IF Reusable(a) THEN {session[a]} ELSE Fresh :
         /\ flight' = [flight EXCEPT ![s] =
              [by |-> IF continuous[a] THEN "loop"
                      ELSE IF c = "hand" THEN "user" ELSE "automation",
               hand |-> c = "hand"]]
         /\ firing' = [firing EXCEPT ![c] =
              [auto |-> a, session |-> s, retry |-> r,
               write |-> IF enabled[a] THEN NextRun(trigger[a]) ELSE "never"]]
    BY DEF Fire
  <1>2. s \in Sessions /\ flight[s] = None
    BY <1>1 DEF Reusable, Fresh, TypeOK, Fire, StillInFlight
  <1>3. \A b \in Autos : session[b] = s => b = a
    BY <1>1, <1>2, NoneOutside DEF Reusable, Fresh, OwnerInv, OneOwner
  <1>4. session' = session /\ firing[c] = None BY DEF Fire
  <1>5. \A d \in Callers \ {c} : firing'[d] = firing[d] BY <1>1 DEF TypeOK
  <1>6. firing'[c] # None => firing'[c].auto = a /\ firing'[c].session = s
    BY <1>1 DEF TypeOK
  <1>7. \A z \in Sessions \ {s} : flight'[z] = flight[z] BY <1>1 DEF TypeOK
  <1>8. \A d \in Callers : firing[d] # None => firing[d].session \in Sessions \ {s}
    BY <1>2 DEF OwnerInv, Held, TypeOK, Firing
  <1>9. flight'[s] # None
    <2>1. flight'[s].hand \in BOOLEAN /\ flight'[s] \in Run
      BY <1>1, <1>2 DEF TypeOK, Run
    <2>2. QED BY <2>1, NoneIsNoRecord
  <1>10. Held'
    BY <1>3, <1>4, <1>5, <1>6, <1>7, <1>8, <1>9 DEF OwnerInv, Held
  <1>11. QED BY <1>4, <1>10 DEF OwnerInv, OneOwner

LEMMA OwnerStep == TypeOK /\ OwnerInv /\ [Next]_vars => OwnerInv'
  <1> SUFFICES ASSUME TypeOK, OwnerInv, [Next]_vars PROVE OwnerInv' OBVIOUS
  <1>1. ASSUME NEW a \in Autos, NEW w \in Workspaces, NEW t \in Trigger,
               NEW cont \in BOOLEAN, NEW on \in BOOLEAN, Writes(a, w, t, cont, on)
        PROVE  OwnerInv'
    <2>1. firing' = firing /\ flight' = flight
      BY <1>1 DEF Writes, Create, Insert, Move, Update, SetEnabled, Write, loops
    <2>2. session' = session \/ session' = [session EXCEPT ![a] = None]
      BY <1>1 DEF Writes, Create, Move, Update, SetEnabled
    <2>3. \A b \in Autos : session'[b] \in {session[b], None} BY <2>2 DEF TypeOK
    <2>4. QED BY <2>1, <2>3, NoneOutside DEF OwnerInv, Held, OneOwner, TypeOK, Firing
  <1>2. ASSUME NEW a \in Autos, NEW b \in Autos, NEW w \in Workspaces, Duplicate(a, b, w)
        PROVE  OwnerInv'
    BY <1>2 DEF Duplicate, Insert, loops, OwnerInv, Held, OneOwner
  <1>3. ASSUME NEW a \in Autos, Delete(a) PROVE OwnerInv'
    <2>1. \A b \in Autos : session'[b] \in {session[b], None}
      BY <1>3 DEF Delete, Removed, TypeOK
    <2>2. firing' = firing /\ flight' = flight BY <1>3 DEF Delete, Removed, loops
    <2>3. QED BY <2>1, <2>2, NoneOutside DEF OwnerInv, Held, OneOwner, TypeOK, Firing
  <1>4. ASSUME NEW a \in Autos, RunNow(a) PROVE OwnerInv'
    BY <1>4, FireOwner DEF RunNow, Callers
  <1>5. ASSUME NEW a \in Autos, TimePasses(a) PROVE OwnerInv'
    BY <1>5 DEF TimePasses, loops, OwnerInv, Held, OneOwner
  <1>6. ASSUME NEW s \in Sessions, ArchiveSession(s) PROVE OwnerInv'
    BY <1>6 DEF ArchiveSession, loops, OwnerInv, Held, OneOwner
  <1>7. ASSUME NEW s \in Sessions, DeleteSession(s) PROVE OwnerInv'
    <2>1. \A b \in Autos : session'[b] \in {session[b], None}
      BY <1>7 DEF DeleteSession
    <2>2. firing' = firing /\ flight' = flight BY <1>7 DEF DeleteSession, loops
    <2>3. QED BY <2>1, <2>2, NoneOutside DEF OwnerInv, Held, OneOwner, TypeOK, Firing
  <1>8. ASSUME NEW s \in Sessions, NEW w \in Workspaces, PersonRun(s, w) PROVE OwnerInv'
    <2>1. [by |-> "user", hand |-> FALSE] # None
      <3>1. [by |-> "user", hand |-> FALSE] \in Run BY DEF Run
      <3>2. QED BY <3>1, NoneIsNoRecord
    <2>2. \A z \in Sessions : flight[z] # None => flight'[z] # None
      BY <1>8, <2>1 DEF PersonRun, TypeOK
    <2>3. firing' = firing /\ session' = session BY <1>8 DEF PersonRun, loops
    <2>4. QED BY <2>2, <2>3 DEF OwnerInv, Held, OneOwner, TypeOK, Firing
  <1>9. ASSUME NEW s \in Sessions, NEW status, RunEnds(s, status) PROVE OwnerInv'
    <2>1. \A z \in Sessions \ {s} : flight'[z] = flight[z] BY <1>9 DEF RunEnds, TypeOK
    <2>2. \A c \in Callers : firing[c] # None => firing[c].session # s
      BY <1>9 DEF RunEnds, Submitting
    <2>3. firing' = firing /\ session' = session BY <1>9 DEF RunEnds
    <2>4. QED BY <2>1, <2>2, <2>3 DEF OwnerInv, Held, OneOwner, TypeOK, Firing
  <1>10. ASSUME NEW c \in Callers, NEW i \in Item, FireBegin(c, i) PROVE OwnerInv'
    BY <1>10, FireOwner DEF FireBegin, Item
  <1>11. ASSUME NEW c \in Callers, NEW i \in Item, FireRefused(c, i) PROVE OwnerInv'
    BY <1>11 DEF FireRefused, OwnerInv, Held, OneOwner
  <1>12. ASSUME NEW c \in Callers, Submitted(c) PROVE OwnerInv'
    <2> DEFINE f == firing[c]
    <2>1. f \in Firing /\ f # None BY <1>12 DEF Submitted, TypeOK
    <2>2. f.auto \in Autos /\ f.session \in Sessions BY <2>1 DEF Firing
    <2>3. \A b \in Autos : session'[b] = session[b] \/ (b = f.auto /\ session'[b] = f.session)
      BY <1>12, <2>2 DEF Submitted, TypeOK
    <2>4. \A b \in Autos : session[b] = f.session => b = f.auto BY <2>1 DEF OwnerInv, Held
    <2>5. OneOwner' BY <2>2, <2>3, <2>4, NoneOutside DEF OwnerInv, OneOwner
    <2>6. flight' = flight /\ \A d \in Callers : firing'[d] # None => d # c /\ firing'[d] = firing[d]
      BY <1>12 DEF Submitted, TypeOK
    <2>7. \A d \in Callers \ {c} : firing[d] # None => firing[d].session # f.session
      BY <2>1 DEF OwnerInv, Held
    <2> HIDE DEF f
    <2>8. Held' BY <2>3, <2>6, <2>7 DEF OwnerInv, Held
    <2>9. QED BY <2>5, <2>8 DEF OwnerInv
  <1>13. ASSUME NEW c \in Callers, SubmitFails(c) PROVE OwnerInv'
    <2> DEFINE f == firing[c]
    <2>1. f \in Firing /\ f # None BY <1>13 DEF SubmitFails, TypeOK
    <2>2. \A z \in Sessions \ {f.session} : flight'[z] = flight[z]
      BY <1>13 DEF SubmitFails, TypeOK
    <2>3. session' = session /\ \A d \in Callers : firing'[d] # None => d # c /\ firing'[d] = firing[d]
      BY <1>13 DEF SubmitFails, TypeOK
    <2>4. \A d \in Callers \ {c} : firing[d] # None => firing[d].session \in Sessions \ {f.session}
      BY <2>1 DEF OwnerInv, Held, TypeOK, Firing
    <2> HIDE DEF f
    <2>5. QED BY <2>2, <2>3, <2>4 DEF OwnerInv, Held, OneOwner
  <1>14. CASE Crash BY <1>14 DEF Crash, OwnerInv, Held, OneOwner, TypeOK
  <1>15. CASE Tick \/ Boot \/ UNCHANGED vars
    BY <1>15 DEF Tick, Boot, vars, loops, OwnerInv, Held, OneOwner
  <1>16. QED
    BY <1>1, <1>2, <1>3, <1>4, <1>5, <1>6, <1>7, <1>8, <1>9, <1>10, <1>11, <1>12, <1>13,
       <1>14, <1>15, Steps

\* automationBySession: "a session belongs to at most one automation", although
\* a firing writes the session it resolved before awaiting the submission.
THEOREM OneOwnerPerSession == Spec => []SessionHasOneOwner
  <1>1. Init => OwnerInv BY DEF Init, OwnerInv, Held, OneOwner
  <1>2. OwnerInv => SessionHasOneOwner BY DEF OwnerInv, OneOwner, SessionHasOneOwner, Live
  <1>3. QED BY <1>1, <1>2, TypeCorrect, OwnerStep, PTL DEF Spec

-----------------------------------------------------------------------------
\* The clock's lengths are positive.
LEMMA ClockFacts ==
    /\ Hours \in Nat \ {0} /\ HourSlots \in Nat \ {0} /\ LastDay \in Nat \ {0} /\ MaxJump \in Nat
    /\ DaySlots \in Nat \ {0}
<1>1. Hours \in Nat \ {0} /\ HourSlots \in Nat \ {0} /\ LastDay \in Nat \ {0} /\ MaxJump \in Nat BY CronAssumption
<1>2. \A m, n \in Nat \ {0} : m * n \in Nat \ {0} OBVIOUS
<1> QED BY <1>1, <1>2 DEF DaySlots

\* A time is its day and the slot within it.
LEMMA DayIs ==
    ASSUME NEW w \in Int
    PROVE  Day(w) \in Int /\ (w % DaySlots) \in 0..(DaySlots - 1) /\ w = Day(w) * DaySlots + (w % DaySlots)
BY ClockFacts, DivisionIs DEF Day

\* The date never goes back as the time goes on.
LEMMA DaysGoOn ==
    ASSUME NEW v \in Int, NEW w \in Int, v <= w
    PROVE  Day(v) <= Day(w)
<1> DEFINE n == DaySlots
           p == Day(v)
           q == Day(w)
           r == v % DaySlots
           s == w % DaySlots
<1>1. p \in Int /\ q \in Int /\ r \in 0..(n - 1) /\ s \in 0..(n - 1) /\ v = p * n + r /\ w = q * n + s BY DayIs
<1>2. n \in Nat \ {0} BY ClockFacts
<1> HIDE DEF n, p, q, r, s
<1>3. p * n \in Int /\ q * n \in Int BY <1>1, <1>2
<1>4. q < p => q * n + n <= p * n BY <1>1, <1>2, OneMultiple
<1>5. p <= q BY <1>1, <1>2, <1>3, <1>4
<1> QED BY <1>5 DEF p, q

\* The wall-clock time of fields is read back as those fields.
LEMMA FieldsOf ==
    ASSUME NEW day \in Int, NEW h \in 0..(Hours - 1), NEW m \in 0..(HourSlots - 1)
    PROVE  LET w == WallTime(day, h, m)
           IN  /\ w \in Int /\ Day(w) = day
               /\ (w % DaySlots) \div HourSlots = h
               /\ w % HourSlots = m
               /\ w >= day * DaySlots /\ w < day * DaySlots + DaySlots
<1> DEFINE r == h * HourSlots + m
           w == WallTime(day, h, m)
<1>1. Hours \in Nat \ {0} /\ HourSlots \in Nat \ {0} /\ DaySlots \in Nat \ {0} /\ DaySlots = Hours * HourSlots
  BY ClockFacts DEF DaySlots
<1>2. h \in Int /\ m \in Int /\ h >= 0 /\ h < Hours /\ m >= 0 /\ m < HourSlots BY <1>1
<1>3. r \in 0..(DaySlots - 1)
  <2>1. h * HourSlots + HourSlots <= Hours * HourSlots BY <1>1, <1>2, OneMultiple
  <2>2. h * HourSlots \in Int /\ h * HourSlots >= 0 BY <1>1, <1>2
  <2> QED BY <1>1, <1>2, <2>1, <2>2
<1>4. w = day * DaySlots + r /\ day * DaySlots \in Int
  <2>1. day * DaySlots \in Int /\ h * HourSlots \in Int BY <1>1, <1>2
  <2>2. w = day * DaySlots + h * HourSlots + m BY DEF WallTime
  <2> QED BY <1>2, <2>1, <2>2
<1>5. w \div DaySlots = day /\ w % DaySlots = r
  <2> HIDE DEF r, w
  <2>1. (day * DaySlots + r) \div DaySlots = day /\ (day * DaySlots + r) % DaySlots = r
    BY <1>1, <1>3, DivisionIsUnique
  <2> QED BY <1>4, <2>1
<1>6. r \div HourSlots = h BY <1>1, <1>2, DivisionIsUnique
<1>7. w % HourSlots = m
  <2>1. day * Hours \in Int /\ day * Hours + h \in Int BY <1>1, <1>2
  <2>2. (day * Hours) * HourSlots = day * DaySlots BY <1>1
  <2>3. (day * Hours + h) * HourSlots = (day * Hours) * HourSlots + h * HourSlots BY <1>1, <1>2, <2>1
  <2>4. h * HourSlots \in Int BY <1>1, <1>2
  <2>5. w = (day * Hours + h) * HourSlots + m BY <1>2, <1>4, <2>2, <2>3, <2>4
  <2>6. m \in 0..(HourSlots - 1) OBVIOUS
  <2> QED BY <1>1, <2>1, <2>5, <2>6, DivisionIsUnique
<1> QED BY <1>1, <1>3, <1>4, <1>5, <1>6, <1>7 DEF Day

\* Any time is the one its fields name.
LEMMA FieldsName ==
    ASSUME NEW w \in Int
    PROVE  LET h == (w % DaySlots) \div HourSlots
               m == w % HourSlots
           IN  h \in 0..(Hours - 1) /\ m \in 0..(HourSlots - 1) /\ w = WallTime(Day(w), h, m)
<1> DEFINE s == w % DaySlots
           d == Day(w)
           h == s \div HourSlots
           r == s % HourSlots
<1>1. Hours \in Nat \ {0} /\ HourSlots \in Nat \ {0} /\ DaySlots \in Nat \ {0} /\ DaySlots = Hours * HourSlots
  BY ClockFacts DEF DaySlots
<1>2. d \in Int /\ s \in 0..(DaySlots - 1) /\ w = d * DaySlots + s BY DayIs
<1>3. h \in Int /\ r \in 0..(HourSlots - 1) /\ s = h * HourSlots + r
  <2>1. s \in Int BY <1>1, <1>2
  <2> HIDE DEF s
  <2> QED BY <1>1, <2>1, DivisionIs
<1> HIDE DEF s, d, h, r
<1>4. h * HourSlots \in Int /\ d * DaySlots \in Int BY <1>1, <1>2, <1>3
<1>5. h >= 0
  <2>1. h < 0 => h * HourSlots + HourSlots <= 0 * HourSlots BY <1>1, <1>3, OneMultiple
  <2> QED BY <1>1, <1>2, <1>3, <1>4, <2>1
<1>6. h < Hours
  <2>1. Hours < h \/ Hours = h => Hours * HourSlots <= h * HourSlots
    <3>1. Hours < h => Hours * HourSlots + HourSlots <= h * HourSlots BY <1>1, <1>3, OneMultiple
    <3>2. Hours * HourSlots \in Int BY <1>1
    <3> QED BY <1>1, <1>3, <1>4, <3>1, <3>2
  <2> QED BY <1>1, <1>2, <1>3, <1>4, <2>1
<1>7. w = WallTime(d, h, r) BY <1>2, <1>3, <1>4 DEF WallTime
<1>8. h \in 0..(Hours - 1) BY <1>1, <1>3, <1>5, <1>6
<1>9. w % HourSlots = r BY <1>2, <1>3, <1>7, <1>8, FieldsOf
<1> QED BY <1>3, <1>7, <1>8, <1>9 DEF s, d, h

-----------------------------------------------------------------------------
\* What is known of the zone in force and of the times asked about.
LEMMA TimesAre ==
    ASSUME zone \in Zones
    PROVE  /\ zone.at \in Nat /\ zone.jump \in Int /\ zone.at <= DaySlots * LastDay /\ DaySlots * LastDay \in Nat
           /\ zone.jump <= MaxJump /\ -MaxJump <= zone.jump
           /\ \A t : t \in Instants <=> t \in Nat /\ t <= DaySlots * LastDay + 2 * DaySlots + MaxJump
<1>1. \A m, n \in Nat : m * n \in Nat /\ m * (n + 2) = m * n + 2 * m OBVIOUS
<1>2. DaySlots * LastDay \in Nat /\ DaySlots * (LastDay + 2) = DaySlots * LastDay + 2 * DaySlots
  BY <1>1, ClockFacts
<1>3. zone.at \in 0..(DaySlots * LastDay) /\ zone.jump \in -MaxJump..MaxJump BY DEF Zones
<1> QED BY <1>2, <1>3, ClockFacts DEF Instants

\* Time before the skip and after, and what the clock shows of it.
LEMMA ShownTwice ==
    ASSUME zone \in Zones, NEW t \in Instants, NEW u \in Instants, u < t
    PROVE  /\ Wall(t) \in Int /\ Wall(u) \in Int
           /\ Wall(u) <= Wall(t) \/ (zone.jump < 0 /\ u < zone.at /\ t >= zone.at)
           /\ Wall(u) = Wall(t) => u < zone.at /\ t >= zone.at
BY TimesAre DEF Wall

\* A scheduled wall time is one of an hour and a slot of its day.
LEMMA ScheduledTimes ==
    ASSUME schedule \in Schedules, NEW w \in Int, Scheduled(w)
    PROVE  /\ w \in Nat /\ Day(w) \in schedule.days
           /\ \E h \in schedule.hours, m \in schedule.slots : w = WallTime(Day(w), h, m)
<1>1. Day(w) \in Nat /\ Day(w) \in schedule.days BY ClockFacts DEF Schedules, Scheduled
<1>2. w \in Nat
  <2>1. w = Day(w) * DaySlots + (w % DaySlots) /\ w % DaySlots \in 0..(DaySlots - 1) BY DayIs
  <2>2. \A m, n \in Nat : m * n \in Nat OBVIOUS
  <2> QED BY <1>1, <2>1, <2>2, ClockFacts
<1>3. w = WallTime(Day(w), (w % DaySlots) \div HourSlots, w % HourSlots) BY FieldsName
<1> QED BY <1>1, <1>2, <1>3 DEF Scheduled

\* Every candidate of a date it matches is a firing on that date.
LEMMA CandidatesFire ==
    ASSUME zone \in Zones, schedule \in Schedules, NEW d \in schedule.days, NEW t \in Candidates(d)
    PROVE  t \in Instants /\ IsFiring(t) /\ Day(Wall(t)) = d
<1> DEFINE at == zone.at
           j == zone.jump
<1>1. PICK h \in schedule.hours, m \in schedule.slots : t = InstantOf(WallTime(d, h, m))
  BY DEF Candidates
<1> DEFINE w == WallTime(d, h, m)
<1>2. Day(Wall(t)) = d BY DEF Candidates
<1>3. d \in 0..LastDay /\ h \in 0..(Hours - 1) /\ m \in 0..(HourSlots - 1) BY DEF Schedules
<1>4. d \in Int BY <1>3
<1>5. /\ w \in Int /\ Day(w) = d /\ Scheduled(w)
      /\ w >= d * DaySlots /\ w < d * DaySlots + DaySlots
  BY <1>3, <1>4, FieldsOf DEF Scheduled
<1>6. t = InstantOf(w) BY <1>1
<1> HIDE DEF w
<1>7. w \in Nat BY <1>5, ScheduledTimes
<1>8. w <= DaySlots * LastDay + DaySlots
  <2>1. d * DaySlots <= DaySlots * LastDay /\ d * DaySlots \in Nat
    <3>1. \A x, y, n \in Nat : x <= y => x * n <= n * y /\ x * n \in Nat
      <4> TAKE x, y, n \in Nat
      <4> HAVE x <= y
      <4>1. (y - x) * n >= 0 /\ x * n \in Nat OBVIOUS
      <4> QED BY <4>1
    <3> QED BY <1>3, <3>1, ClockFacts
  <2> QED BY <1>5, <1>7, <2>1, TimesAre, ClockFacts
<1>9. /\ at \in Nat /\ j \in Int /\ j <= MaxJump /\ -MaxJump <= j /\ MaxJump \in Nat /\ DaySlots \in Nat
      /\ DaySlots * LastDay \in Nat
      /\ \A u : u \in Instants <=> u \in Nat /\ u <= DaySlots * LastDay + 2 * DaySlots + MaxJump
  BY TimesAre, ClockFacts
<1>10. CASE w < at
  <2>1. t = w /\ Wall(t) = w BY <1>6, <1>7, <1>9, <1>10 DEF InstantOf, Wall
  <2>2. t \in Instants BY <1>7, <1>8, <1>9, <2>1
  <2>3. \A u \in Instants : u < t => Wall(u) # Wall(t) BY <1>9, <1>10, <2>1, <2>2, ShownTwice
  <2> QED BY <1>2, <1>5, <2>1, <2>2, <2>3 DEF IsFiring
<1>11. CASE w >= at /\ w < at + j
  <2>1. t = w /\ j > 0 BY <1>6, <1>7, <1>9, <1>11 DEF InstantOf
  <2>2. t \in Instants BY <1>7, <1>8, <1>9, <2>1
  <2>3. t \in at..(at + j - 1) BY <1>7, <1>9, <1>11, <2>1
  <2> QED BY <1>2, <1>5, <2>1, <2>2, <2>3 DEF IsFiring
<1>12. CASE w >= at /\ w >= at + j
  <2>1. t = w - j /\ t >= at /\ t \in Int /\ Wall(t) = w BY <1>6, <1>7, <1>9, <1>12 DEF InstantOf, Wall
  <2>2. t \in Instants BY <1>7, <1>8, <1>9, <2>1
  <2>3. ASSUME NEW u \in Instants, u < t, Wall(u) = Wall(t) PROVE FALSE
    <3>1. u < at /\ u \in Nat BY <1>9, <2>2, <2>3, ShownTwice
    <3>2. Wall(u) = u BY <3>1 DEF Wall
    <3> QED BY <1>9, <1>12, <2>1, <2>3, <3>1, <3>2
  <2> QED BY <1>2, <1>5, <2>1, <2>2, <2>3 DEF IsFiring
<1> QED BY <1>7, <1>9, <1>10, <1>11, <1>12

\* A firing is a candidate of its date.
LEMMA FiringsAreFound ==
    ASSUME zone \in Zones, schedule \in Schedules, NEW t \in Instants, IsFiring(t)
    PROVE  Day(Wall(t)) \in schedule.days /\ t \in Candidates(Day(Wall(t)))
<1> DEFINE at == zone.at
           j == zone.jump
<1>1. /\ at \in Nat /\ j \in Int /\ t \in Nat
      /\ \A u \in Nat : u < t => u \in Instants
  BY TimesAre, ClockFacts
<1>2. CASE Scheduled(Wall(t)) /\ ~\E u \in Instants : u < t /\ Wall(u) = Wall(t)
  <2> DEFINE w == Wall(t)
  <2>1. w \in Int BY <1>1 DEF Wall
  <2>2. PICK h \in schedule.hours, m \in schedule.slots : w = WallTime(Day(w), h, m)
    BY <1>2, <2>1, ScheduledTimes
  <2>3. w \in Nat /\ Day(w) \in schedule.days BY <1>2, <2>1, ScheduledTimes
  <2>4. InstantOf(w) = t
    <3>1. CASE t < at
      <4>1. w = t BY <3>1 DEF Wall
      <4> QED BY <1>1, <3>1, <4>1 DEF InstantOf
    <3>2. CASE t >= at /\ j >= 0
      <4>1. w = t + j BY <1>1, <3>2 DEF Wall
      <4> HIDE DEF w
      <4> QED BY <1>1, <3>2, <4>1 DEF InstantOf
    <3>3. CASE t >= at /\ j < 0
      <4>1. w = t + j /\ w < t BY <1>1, <3>3 DEF Wall
      <4>2. w >= at
        <5> SUFFICES ASSUME w < at PROVE FALSE BY <1>1, <2>1
        <5>1. w \in Instants /\ w < t BY <1>1, <2>3, <4>1
        <5>2. Wall(w) = w BY DEF Wall
        <5> QED BY <1>2, <5>1, <5>2
      <4> HIDE DEF w
      <4> QED BY <1>1, <3>3, <4>1, <4>2 DEF InstantOf
    <3> QED BY <1>1, <3>1, <3>2, <3>3
  <2>5. t \in {InstantOf(WallTime(Day(w), g, n)) : g \in schedule.hours, n \in schedule.slots} BY <2>2, <2>4
  <2> QED BY <2>3, <2>5 DEF Candidates
<1>3. CASE Scheduled(t) /\ t \in at..(at + j - 1) /\ Day(t) = Day(Wall(t))
  <2>1. PICK h \in schedule.hours, m \in schedule.slots : t = WallTime(Day(t), h, m)
    BY <1>1, <1>3, ScheduledTimes
  <2>2. Day(t) \in schedule.days BY <1>1, <1>3, ScheduledTimes
  <2>3. InstantOf(t) = t BY <1>1, <1>3 DEF InstantOf
  <2>4. t \in {InstantOf(WallTime(Day(t), g, n)) : g \in schedule.hours, n \in schedule.slots} BY <2>1, <2>3
  <2> QED BY <1>3, <2>2, <2>4 DEF Candidates
<1> QED BY <1>2, <1>3 DEF IsFiring

\* What fires later fires on the same date or a later one.
LEMMA DatesFollow ==
    ASSUME zone \in Zones, schedule \in Schedules, NEW from \in Instants, NEW t \in Instants, from < t, IsFiring(t)
    PROVE  Day(Wall(from)) <= Day(Wall(t))
<1> DEFINE at == zone.at
           j == zone.jump
<1>1. /\ at \in Nat /\ j \in Int /\ t \in Nat /\ from \in Nat
      /\ \A u \in Nat : u < t => u \in Instants
  BY TimesAre, ClockFacts
<1>2. Wall(t) \in Int /\ Wall(from) \in Int BY ShownTwice
<1>3. Wall(from) <= Wall(t)
  <2>1. CASE Wall(from) <= Wall(t) BY <2>1
  <2>2. CASE j < 0 /\ from < at /\ t >= at
    <3>1. Wall(t) = t + j /\ Wall(t) < t /\ Wall(from) = from BY <1>1, <2>2 DEF Wall
    <3>2. t \notin at..(at + j - 1) BY <1>1, <2>2
    <3>3. Scheduled(Wall(t)) /\ ~\E u \in Instants : u < t /\ Wall(u) = Wall(t) BY <3>2 DEF IsFiring
    <3>4. Wall(t) \in Nat BY <1>2, <3>3, ScheduledTimes
    <3>5. Wall(t) >= at
      <4> SUFFICES ASSUME Wall(t) < at PROVE FALSE BY <1>1, <1>2
      <4>1. Wall(t) \in Instants BY <1>1, <3>1, <3>4
      <4>2. Wall(Wall(t)) = Wall(t) BY DEF Wall
      <4> QED BY <3>1, <3>3, <4>1, <4>2
    <3> QED BY <1>1, <1>2, <2>2, <3>1, <3>5
  <2> QED BY <2>1, <2>2, ShownTwice
<1> QED BY <1>2, <1>3, DaysGoOn


\* The first firing after an instant, if there is one.
LEMMA NextIsFirst ==
    ASSUME zone \in Zones, schedule \in Schedules, NEW from \in Instants
    PROVE  LET next == NextFireTime(from)
           IN  /\ next # Never => next \in Instants /\ IsFiring(next)
               /\ \A t \in Instants : t > from /\ (next = Never \/ t < next) => ~IsFiring(t)
<1> DEFINE ahead(day) == {t \in Candidates(day) : t > from}
           dates == {d \in schedule.days : d >= Day(Wall(from)) /\ ahead(d) # {}}
           next == NextFireTime(from)
<1>1. next = IF dates = {} THEN Never ELSE Min(ahead(Min(dates))) BY DEF NextFireTime, FirstOf
<1>2. ASSUME NEW t \in Instants, t > from, IsFiring(t)
      PROVE  Day(Wall(t)) \in dates /\ t \in ahead(Day(Wall(t)))
  <2>1. Day(Wall(t)) \in schedule.days /\ t \in Candidates(Day(Wall(t))) BY <1>2, FiringsAreFound
  <2>2. from < t /\ Day(Wall(t)) \in Int /\ Day(Wall(from)) \in Int
    <3>1. from \in Nat /\ t \in Nat BY TimesAre
    <3>2. Wall(from) \in Int /\ Wall(t) \in Int BY <3>1, TimesAre DEF Wall
    <3> QED BY <1>2, <3>1, <3>2, DayIs
  <2>3. Day(Wall(from)) <= Day(Wall(t)) BY <1>2, <2>2, DatesFollow
  <2> QED BY <1>2, <2>1, <2>2, <2>3
<1>3. CASE dates = {} BY <1>1, <1>2, <1>3
<1>4. CASE dates # {}
  <2> DEFINE d0 == Min(dates)
  <2>1. schedule.days \in SUBSET (0..LastDay) BY DEF Schedules
  <2>2. dates \in SUBSET Nat BY <2>1, ClockFacts
  <2>3. d0 \in dates /\ \A d \in dates : d0 <= d BY <1>4, <2>2, LeastOf
  <2>4. d0 \in schedule.days /\ ahead(d0) # {} BY <2>3
  <2>5. ahead(d0) \in SUBSET Nat
    <3>1. \A t \in Candidates(d0) : t \in Instants BY <2>4, CandidatesFire
    <3> QED BY <3>1, TimesAre
  <2>6. Min(ahead(d0)) \in ahead(d0) /\ \A t \in ahead(d0) : Min(ahead(d0)) <= t
    <3> DEFINE A == ahead(d0)
    <3>1. A \in SUBSET Nat /\ A # {} BY <2>4, <2>5
    <3> HIDE DEF A
    <3>2. Min(A) \in A /\ \A t \in A : Min(A) <= t BY <3>1, LeastOf
    <3> QED BY <3>2 DEF A
  <2>7. next = Min(ahead(d0)) BY <1>1, <1>4
  <2>8. next \in Candidates(d0) /\ next > from BY <2>6, <2>7
  <2>9. next \in Instants /\ IsFiring(next) /\ Day(Wall(next)) = d0 BY <2>4, <2>8, CandidatesFire
  <2>10. next # Never BY <2>9, TimesAre, CronAssumption
  <2>11. ASSUME NEW t \in Instants, t > from, t < next, IsFiring(t) PROVE FALSE
    <3>1. Day(Wall(t)) \in dates /\ t \in ahead(Day(Wall(t))) BY <1>2, <2>11
    <3>2. Day(Wall(next)) >= Day(Wall(t)) BY <2>9, <2>11, <2>2, <2>3, <3>1, DatesFollow
    <3>3. Day(Wall(t)) = d0
      <4>1. d0 <= Day(Wall(t)) /\ Day(Wall(t)) <= d0 BY <2>3, <2>9, <3>1, <3>2
      <4> QED BY <2>2, <2>3, <3>1, <4>1
    <3>4. next <= t BY <2>6, <2>7, <3>1, <3>3
    <3> QED BY <2>9, <2>11, <3>4, TimesAre
  <2> QED BY <2>9, <2>10, <2>11
<1> QED BY <1>3, <1>4

CronInv == asked # Never => asked \in Instants /\ zone \in Zones /\ schedule \in Schedules

\* Every question is about a zone, a schedule and a time in range.
LEMMA CronStep == CronInv /\ [CronNext]_cronVars => CronInv'
<1> SUFFICES ASSUME CronInv, [CronNext]_cronVars PROVE CronInv'
  OBVIOUS
<1>1. ASSUME NEW z \in Zones, NEW s \in Schedules, NEW from \in 0..(DaySlots - 1), Ask(z, s, from) PROVE CronInv'
  <2>1. zone' = z /\ schedule' = s /\ asked' = from BY <1>1 DEF Ask
  <2>2. 0 <= DaySlots * (LastDay + 2) + MaxJump - DaySlots
    <3>1. \A m, n \in Nat : m * (n + 2) - m >= 0 OBVIOUS
    <3> QED BY <3>1, ClockFacts
  <2>3. from \in Instants
    <3>1. \A m, n \in Nat : m * (n + 2) \in Nat OBVIOUS
    <3>2. DaySlots * (LastDay + 2) \in Nat BY <3>1, ClockFacts
    <3> QED BY <2>2, <3>2, ClockFacts DEF Instants
  <2> QED BY <2>1, <2>3 DEF CronInv
<1>2. CASE Fires BY <1>2, NextIsFirst DEF Fires, CronInv
<1>3. CASE UNCHANGED cronVars BY <1>3 DEF cronVars, CronInv
<1> QED BY <1>1, <1>2, <1>3 DEF CronNext

\* The time computed for a schedule is a firing of it after the one asked about,
\* and none lies between: for days of any length, any days, hours and slots, and
\* any zone whose clock jumps once, however far.
THEOREM EveryFiringIsFound == CronSpec => []NoFiringIsMissed
<1>1. CronInit => CronInv BY DEF CronInit, CronInv
<1>2. CronInv => NoFiringIsMissed BY NextIsFirst DEF CronInv, NoFiringIsMissed
<1> QED BY <1>1, <1>2, CronStep, PTL DEF CronSpec
=============================================================================
